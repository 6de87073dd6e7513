------------------------------ MODULE MCDynShm ------------------------------
(* Instances of DynShm for TLC. *)
EXTENDS DynShm, TLC

Symmetry == Permutations(Threads) \cup Permutations(Cookies)

=============================================================================
