---------------------------- MODULE MCLoginGuard ----------------------------
(* Model-checking instances of LoginGuard. *)
EXTENDS LoginGuard, TLC

\* Only for the run without liveness.
MCSymmetry == Permutations(Reqs)

=============================================================================
