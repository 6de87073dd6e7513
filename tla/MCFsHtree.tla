----------------------------- MODULE MCFsHtree ------------------------------
(* Instances of FsHtree for TLC: the constants are given in the .cfg files. *)
EXTENDS FsHtree, TLC

=============================================================================
