--------------------------- MODULE MCAuthSession ---------------------------
(* Requests and session ids are interchangeable.                           *)
EXTENDS AuthSession, TLC

MCSymmetry == Permutations(Reqs) \cup Permutations(SessionIds)

=============================================================================
