---------------------------- MODULE MCLmsAttempt ----------------------------
(* Model-checking instances of LmsAttempt. *)
EXTENDS LmsAttempt, TLC

\* Every assignment is for the first-named students; see the cfg files.
CONSTANT Enrolled
MCRecipients == [s \in Assignments |-> Enrolled]

MCSymmetry == Permutations(Reqs) \cup Permutations(AttemptIds)
              \cup Permutations(Questions)

=============================================================================
