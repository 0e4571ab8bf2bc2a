--------------------------- MODULE MCAuthAccount ---------------------------
(* Requests, PINs and passwords are interchangeable.                       *)
EXTENDS AuthAccount, TLC

MCSymmetry == Permutations(Reqs) \cup Permutations(PinIds)
              \cup Permutations(Passwords)

=============================================================================
