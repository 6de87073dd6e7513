----------------------------- MODULE MCStorage ------------------------------
(* Instances of Storage for TLC. *)
EXTENDS Storage, TLC

\* Exclusive and shared access; no two handles write to one object.
MCOpenFlags == {{"READ", "WRITE", "META"}, {"READ", "SHARE_READ"}}
MCCreateFlags == {{"WRITE", "META"}, {"READ", "SHARE_READ", "OVERWRITE"}}

Symmetry == Permutations(Clients) \cup Permutations(Names)

=============================================================================
