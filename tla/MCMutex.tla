------------------------------- MODULE MCMutex ------------------------------
(* Instances of Mutex for TLC. *)
EXTENDS Mutex, TLC

\* Threads only differ by their names.
Symmetry == Permutations(Threads)

=============================================================================
