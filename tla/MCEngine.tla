------------------------------ MODULE MCEngine ------------------------------
(* Bounds and symmetry for model checking the main loop.                   *)
EXTENDS Engine, TLC

Symmetry == Permutations(Conns) \cup Permutations(Fds)
=============================================================================
