----------------------------- MODULE AtomicFile -----------------------------
(***************************************************************************)
(* What core/tee/fs_htree.c promises the file systems above it ("On-disk   *)
(* data structures are duplicated to make updates atomic, an update is     *)
(* finalized to disk with tee_fs_htree_sync_to_storage()").  The file is   *)
(* one value on disk; an open handle holds a private copy that replaces    *)
(* the value on disk in one step, or is lost as a whole.                   *)
(***************************************************************************)
EXTENDS Integers

CONSTANTS Blocks,   \* block numbers
          Values,   \* what a block, or the meta data, can hold
          None      \* no file, or no open handle

VARIABLES disk,     \* the content that opening the file would find
          mem       \* the content that reading the open handle would find

\* A created file has the meta data of calloc() and one unreadable block.
Empty == [meta |-> 0, block |-> [b \in {0} |-> 0]]

Init == disk = None /\ mem = None

Create == disk = None /\ mem = None /\ mem' = Empty /\ UNCHANGED disk

Open == mem = None /\ disk # None /\ mem' = disk /\ UNCHANGED disk

Write(b, v) ==
    /\ mem # None
    /\ mem' = [mem EXCEPT !.block = [c \in DOMAIN mem.block \cup {b} |->
                                        IF c = b THEN v ELSE mem.block[c]]]
    /\ UNCHANGED disk

SetMeta(v) == mem # None /\ mem' = [mem EXCEPT !.meta = v] /\ UNCHANGED disk

\* Blocks above b disappear.
Truncate(b, v) ==
    /\ mem # None
    /\ mem' = [meta |-> v,
               block |-> [c \in {d \in DOMAIN mem.block : d <= b} |->
                            mem.block[c]]]
    /\ UNCHANGED disk

Commit == mem # None /\ disk' = mem /\ UNCHANGED mem

\* A handle closed without a commit, an I/O error or a power cut.
Lose == mem' = None /\ UNCHANGED disk

\* A creation that fails removes the file, to which nothing was written.
Discard == mem = Empty /\ disk \in {None, Empty} /\ mem' = None /\ disk' = None

Next ==
    \/ Create \/ Open \/ Commit \/ Lose \/ Discard
    \/ \E v \in Values :
          \/ SetMeta(v)
          \/ \E b \in Blocks : Write(b, v) \/ Truncate(b, v)

Spec == Init /\ [][Next]_<<disk, mem>>

=============================================================================
