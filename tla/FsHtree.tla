------------------------------ MODULE FsHtree -------------------------------
(***************************************************************************)
(* The hash tree that protects a secure storage file in normal world       *)
(* (core/tee/fs_htree.c) with the parts of core/tee/tee_ree_fs.c that      *)
(* drive it.  Everything on disk has two versions: the header, every node  *)
(* of the binary tree and every data block.  The header in use is found by *)
(* its counter, or by a root hash kept in a safer place; a node says which *)
(* version of its block and of its two children is the committed one.      *)
(*                                                                         *)
(* One step makes at most one write RPC to normal world.  A write happens  *)
(* as a whole or not at all.  A failed RPC and a power cut have the same   *)
(* effect on the file: the handle is gone and only the disk is left, so    *)
(* Lose stands for both, and for closing without a sync.                   *)
(*                                                                         *)
(* Data is abstract.  A block and a length are numbered by the write that  *)
(* produced them; each encryption draws a fresh IV, so the authentication  *)
(* tag of a block is the number of its write.  A hash is the tuple of what *)
(* it covers.                                                              *)
(***************************************************************************)
EXTENDS Integers, FiniteSets

CONSTANTS MaxBlocks,    \* bound: data blocks of the file
          MaxStamp,     \* bound: writes of blocks and of meta data
          MaxCounter,   \* bound: syncs of the file
          Modes,        \* how the caller finds the header: "hash", "counter"
          NvStart,      \* value of the monotonic counter before the file exists
          Callers       \* optional behaviours of the caller, see Truncate,
                        \* TruncateSame and RecordFails

ASSUME ConstantsAssumption ==
    /\ MaxBlocks \in Nat \ {0}
    /\ MaxStamp \in Nat
    /\ MaxCounter \in Nat \ {0}
    /\ NvStart \in Nat
    /\ Modes \subseteq {"hash", "counter"}
    /\ Callers \subseteq {"truncate", "truncate_same", "record_fails"}

VARIABLES
    mode,       \* with RPMB or a directory entry "hash", otherwise "counter"
    exists,     \* the file is there
    head,       \* the two headers on disk
    node,       \* the two versions of each node on disk
    block,      \* the two versions of each data block on disk
    ht,         \* the hash tree in memory: struct tee_fs_htree
    pc,         \* the operation in progress
    todo,       \* nodes that a sync still has to visit
    rec,        \* what the caller keeps in a safe place: a hash, a counter
    stamp       \* writes so far

vars == <<mode, exists, head, node, block, ht, pc, todo, rec, stamp>>
disk == <<exists, head, node, block>>

Ids == 1 .. MaxBlocks
Blocks == 0 .. MaxBlocks - 1
Versions == {0, 1}

NoHash == <<>>

\* No hash tree, no content: it is no record.
Null == <<>>

\* Bytes that were never written read as zero (a hole) or not at all; an
\* image of zeros passes no check, so the two need no distinction.
ZeroNode == [blk |-> 0, kid |-> [c \in Versions |-> 0], tag |-> 0,
             hash |-> NoHash]
ZeroHead(c) == [counter |-> c, max |-> 0, meta |-> 0, root |-> NoHash]

NoFile ==
    /\ head' = [v \in Versions |-> ZeroHead(0)]
    /\ node' = [i \in Ids |-> [v \in Versions |-> ZeroNode]]
    /\ block' = [b \in Blocks |-> [v \in Versions |-> 0]]

Init ==
    /\ mode \in Modes
    /\ exists = FALSE
    /\ head = [v \in Versions |-> ZeroHead(0)]
    /\ node = [i \in Ids |-> [v \in Versions |-> ZeroNode]]
    /\ block = [b \in Blocks |-> [v \in Versions |-> 0]]
    /\ ht = Null
    /\ pc = "closed"
    /\ todo = {}
    /\ rec = [set |-> FALSE, hash |-> NoHash, nv |-> NvStart]
    /\ stamp = 0

-----------------------------------------------------------------------------
(* The tree in memory is a function from node ids to node images; the      *)
(* children of node i are 2i and 2i + 1, as far as they are in its domain. *)

\* The digest covers the image but its hash field, the meta data of the file
\* when the node is the root, and the hashes of the children.
calc_node_hash(tree, i, meta) ==
    <<tree[i].blk, tree[i].kid, tree[i].tag,
      IF i = 1 THEN meta ELSE 0,
      [j \in {2 * i, 2 * i + 1} \cap DOMAIN tree |-> tree[j].hash]>>

verify_tree(tree, meta) ==
    \A i \in DOMAIN tree : tree[i].hash = calc_node_hash(tree, i, meta)

\* -1: neither header can be the committed one.
get_idx_from_counter(c0, c1) ==
    CASE c0 % 2 = 0 /\ (c1 % 2 = 0 \/ c0 > c1) -> 0
      [] c0 % 2 = 0 /\ c1 % 2 = 1 /\ c0 <= c1 -> 1
      [] c0 % 2 = 1 /\ c1 % 2 = 1 -> 1
      [] OTHER -> -1

\* With a hash, the first root node that has it picks the header.
HeadIndex ==
    IF mode = "hash"
    THEN CASE node[1][0].hash = rec.hash -> 0
           [] node[1][0].hash # rec.hash /\ node[1][1].hash = rec.hash -> 1
           [] OTHER -> -1
    ELSE get_idx_from_counter(head[0].counter, head[1].counter)

\* The caller passes a non-zero min_counter only with the monotonic counter.
MinCounter == IF mode = "hash" THEN 0 ELSE rec.nv

\* Node i is read in the version its parent calls committed.
init_tree_from_data(idx) ==
    LET n == IF head[idx].max > 1 THEN head[idx].max ELSE 1
        tree[i \in 1 .. n] ==
            IF i = 1 THEN node[1][idx] ELSE node[i][tree[i \div 2].kid[i % 2]]
    IN  tree

\* The header's tag authenticates the counter, the meta data and, as
\* additional data, the hash in the root node.
verify_root(idx) ==
    /\ head[idx].root # NoHash
    /\ head[idx].root = node[1][idx].hash

\* What tee_fs_htree_open() of the existing file returns: Null on an error.
Opened ==
    LET idx == HeadIndex IN
    IF /\ idx # -1
       /\ head[idx].counter >= MinCounter
       /\ verify_root(idx)
       /\ verify_tree(init_tree_from_data(idx), head[idx].meta)
    THEN [node |-> init_tree_from_data(idx), dirtyNodes |-> {}, updated |-> {},
          counter |-> head[idx].counter, max |-> head[idx].max,
          meta |-> head[idx].meta, dirty |-> FALSE]
    ELSE Null

\* What tee_fs_htree_read_block() returns: 0 when the tag does not match.
read_block(t, b) ==
    LET i == b + 1
        data == block[b][t.node[i].blk]
    IN  IF data = t.node[i].tag THEN data ELSE 0

Content(t) ==
    IF t = Null THEN Null
    ELSE [meta |-> t.meta,
          block |-> [b \in {i - 1 : i \in DOMAIN t.node} |-> read_block(t, b)]]

-----------------------------------------------------------------------------
\* An object file that no directory entry names yet is made from scratch; the
\* directory file is made when normal world has none.
Create ==
    /\ pc = "closed"
    /\ IF mode = "hash" THEN ~rec.set ELSE ~exists
    /\ exists' = TRUE
    /\ NoFile
    /\ ht' = [node |-> [i \in {1} |->
                        [ZeroNode EXCEPT !.hash =
                           calc_node_hash([j \in {1} |-> ZeroNode], 1, 0)]],
              dirtyNodes |-> {1}, updated |-> {}, counter |-> 0, max |-> 0,
              meta |-> 0, dirty |-> TRUE]
    /\ pc' = "nodes"
    /\ todo' = {1}
    /\ UNCHANGED <<mode, rec, stamp>>

Creating ==
    \/ pc = "dummy"
    \/ pc \in {"nodes", "head"} /\ ht.counter = 0

\* Last step of a creation: the other header becomes a valid-looking dummy.
WriteDummyHead ==
    /\ pc = "dummy"
    /\ head' = [head EXCEPT ![0] = ZeroHead(MinCounter)]
    /\ pc' = "idle"
    /\ UNCHANGED <<mode, exists, node, block, ht, todo, rec, stamp>>

\* ree_fs_open_primitive() removes the file when its creation fails.
CreateFails ==
    /\ Creating
    /\ exists' = FALSE
    /\ NoFile
    /\ ht' = Null
    /\ pc' = "closed"
    /\ todo' = {}
    /\ UNCHANGED <<mode, rec, stamp>>

\* A caller that keeps hashes only opens what it has a hash for.
MayOpen == pc = "closed" /\ (IF mode = "hash" THEN rec.set ELSE exists)

Open ==
    /\ MayOpen
    /\ Opened # Null
    /\ ht' = Opened
    /\ pc' = "idle"
    /\ UNCHANGED <<mode, disk, todo, rec, stamp>>

OpenFails == MayOpen /\ Opened = Null /\ UNCHANGED vars

\* tee_fs_htree_close(), called by the user or on any error; or a power cut.
Lose ==
    /\ pc # "closed"
    /\ ht' = Null
    /\ pc' = "closed"
    /\ todo' = {}
    /\ UNCHANGED <<mode, disk, rec, stamp>>

\* A block goes to its other version once between two syncs.
BlockVersion_AlwaysOther(i, image) == 1 - image.blk

BlockVersion(i, image) == IF i \in ht.updated THEN image.blk ELSE 1 - image.blk

\* get_node(): the node is in the tree, or a zeroed one is added.
get_node(i) == IF i \in DOMAIN ht.node THEN ht.node[i] ELSE ZeroNode

\* The callers fill a file from its start: a write past the end extends the
\* file first, so b is an existing block or the next one.  get_node() raises
\* max_node_id only when it adds the node.
WriteBlock(b) ==
    LET i == b + 1
        old == get_node(i)
        vers == BlockVersion(i, old)
    IN  /\ pc = "idle"
        /\ stamp < MaxStamp
        /\ i <= Cardinality(DOMAIN ht.node) + 1
        /\ stamp' = stamp + 1
        /\ block' = [block EXCEPT ![b][vers] = stamp']
        /\ ht' = [ht EXCEPT
                    !.node = [j \in DOMAIN ht.node \cup {i} |->
                                IF j = i
                                THEN [old EXCEPT !.blk = vers, !.tag = stamp']
                                ELSE ht.node[j]],
                    !.max = IF i \in DOMAIN ht.node THEN @ ELSE i,
                    !.dirtyNodes = @ \cup {i}, !.updated = @ \cup {i},
                    !.dirty = TRUE]
        /\ UNCHANGED <<mode, exists, head, node, pc, todo, rec>>

\* The meta data of tree h becomes m.
meta_set_dirty(h, m) ==
    [h EXCEPT !.meta = m, !.dirtyNodes = @ \cup {1}, !.dirty = TRUE]

\* The caller changes meta->length and calls tee_fs_htree_meta_set_dirty().
SetMeta ==
    /\ pc = "idle"
    /\ stamp < MaxStamp
    /\ stamp' = stamp + 1
    /\ ht' = meta_set_dirty(ht, stamp')
    /\ UNCHANGED <<mode, disk, pc, todo, rec>>

\* ree_fs_truncate() of a file to the length it has: nothing is removed, the
\* root is dirty and is synced at once.
TruncateSame ==
    /\ "truncate_same" \in Callers
    /\ pc = "idle"
    /\ ht.counter < MaxCounter
    /\ ht' = meta_set_dirty(ht, ht.meta)
    /\ pc' = "nodes"
    /\ todo' = DOMAIN ht.node
    /\ UNCHANGED <<mode, disk, rec, stamp>>

\* tee_fs_htree_truncate(): the nodes above that of block b are freed; no node
\* that is left is marked dirty.
htree_truncate(b) ==
    [ht EXCEPT !.node = [j \in 1 .. b + 1 |-> ht.node[j]],
               !.max = b + 1,
               !.dirtyNodes = @ \cap 1 .. b + 1,
               !.updated = @ \cap 1 .. b + 1,
               !.dirty = TRUE]

\* ree_fs_truncate() to a shorter length: new_file_len / BLOCK_SIZE is b,
\* rounded up it is b or b + 1.  Normal world cuts the file after the last
\* version of that block; the node images lie below it as long as the file
\* has no more than 31 blocks.
Truncate(b, up) ==
    /\ "truncate" \in Callers
    /\ pc = "idle"
    /\ ht.counter < MaxCounter
    /\ stamp < MaxStamp
    /\ b + 1 < ht.max
    /\ stamp' = stamp + 1
    /\ ht' = meta_set_dirty(htree_truncate(b), stamp')
    /\ block' = [c \in Blocks |-> IF c <= b + up THEN block[c]
                                  ELSE [v \in Versions |-> 0]]
    /\ pc' = "nodes"
    /\ todo' = DOMAIN ht'.node
    /\ UNCHANGED <<mode, exists, head, node, rec>>

Sync ==
    /\ pc = "idle"
    /\ ht.dirty
    /\ ht.counter < MaxCounter
    /\ pc' = "nodes"
    /\ todo' = DOMAIN ht.node
    /\ UNCHANGED <<mode, disk, ht, rec, stamp>>

\* Post-order: down to the first child that is left, then the node itself.
NextNode ==
    LET leaf[i \in Ids] == IF 2 * i \in todo THEN leaf[2 * i]
                           ELSE IF 2 * i + 1 \in todo THEN leaf[2 * i + 1]
                           ELSE i
    IN  leaf[1]

\* The parent's flag says where the node goes; the root goes where the next
\* counter says.  t is the tree with that flag flipped.
Flipped(i) ==
    IF i = 1 THEN ht.node
    ELSE [ht.node EXCEPT ![i \div 2].kid[i % 2] = 1 - @]

NodeVersion_CurrentRoot(t, i) ==
    IF i = 1 THEN ht.counter % 2 ELSE t[i \div 2].kid[i % 2]

NodeVersion(t, i) ==
    IF i = 1 THEN 1 - (ht.counter % 2) ELSE t[i \div 2].kid[i % 2]

SyncDirtyNode_KeepUpdated(i) ==
    LET t == Flipped(i)
        image == [t[i] EXCEPT !.hash = calc_node_hash(t, i, ht.meta)]
    IN  /\ ht' = [ht EXCEPT !.node = [t EXCEPT ![i] = image],
                            !.dirtyNodes = (@ \ {i}) \cup ({i \div 2} \ {0})]
        /\ node' = [node EXCEPT ![i][NodeVersion(t, i)] = image]

SyncDirtyNode_ParentClean(i) ==
    LET t == Flipped(i)
        image == [t[i] EXCEPT !.hash = calc_node_hash(t, i, ht.meta)]
    IN  /\ ht' = [ht EXCEPT !.node = [t EXCEPT ![i] = image],
                            !.dirtyNodes = @ \ {i}, !.updated = @ \ {i}]
        /\ node' = [node EXCEPT ![i][NodeVersion(t, i)] = image]

SyncDirtyNode(i) ==
    LET t == Flipped(i)
        image == [t[i] EXCEPT !.hash = calc_node_hash(t, i, ht.meta)]
    IN  /\ ht' = [ht EXCEPT !.node = [t EXCEPT ![i] = image],
                            !.dirtyNodes = (@ \ {i}) \cup ({i \div 2} \ {0}),
                            !.updated = @ \ {i}]
        /\ node' = [node EXCEPT ![i][NodeVersion(t, i)] = image]

htree_sync_node_to_storage(i) ==
    \/ i \in ht.dirtyNodes /\ SyncDirtyNode(i)
    \/ i \notin ht.dirtyNodes /\ UNCHANGED <<ht, node>>

SyncNode ==
    /\ pc = "nodes"
    /\ htree_sync_node_to_storage(NextNode)
    /\ todo' = todo \ {NextNode}
    /\ pc' = IF todo' = {} THEN "head" ELSE "nodes"
    /\ UNCHANGED <<mode, exists, head, block, rec, stamp>>

\* The header: the meta data encrypted, with a tag over the counter and the
\* root hash.
SealedHead(h) ==
    [counter |-> h.counter, max |-> h.max, meta |-> h.meta,
     root |-> h.node[1].hash]

update_root(h) == [h EXCEPT !.counter = @ + 1]

\* update_root() and the write of the header, which ends the sync.
WriteHead ==
    /\ pc = "head"
    /\ ht' = [update_root(ht) EXCEPT !.dirty = FALSE]
    /\ head' = [head EXCEPT ![ht'.counter % 2] = SealedHead(ht')]
    /\ pc' = IF Creating THEN "dummy" ELSE "record"
    /\ UNCHANGED <<mode, exists, node, block, todo, rec, stamp>>

\* The caller stores the hash (in the directory file, in RPMB) or raises the
\* monotonic counter.
Record ==
    /\ pc = "record"
    /\ rec' = [set |-> TRUE, hash |-> ht.node[1].hash,
               nv |-> IF ht.counter > rec.nv THEN ht.counter ELSE rec.nv]
    /\ pc' = "idle"
    /\ UNCHANGED <<mode, disk, ht, todo, stamp>>

\* The commit of the directory file fails; the user keeps the handle.
RecordFails ==
    /\ "record_fails" \in Callers
    /\ pc = "record"
    /\ pc' = "idle"
    /\ UNCHANGED <<mode, disk, ht, todo, rec, stamp>>

Next ==
    \/ Create \/ WriteDummyHead \/ CreateFails
    \/ Open \/ OpenFails \/ Lose
    \/ \E b \in Blocks : WriteBlock(b)
    \/ SetMeta
    \/ Sync \/ SyncNode \/ WriteHead
    \/ Record

Spec == Init /\ [][Next]_vars

\* The same file under a caller that also does what Callers names.
NextCallers ==
    \/ Next
    \/ RecordFails
    \/ TruncateSame
    \/ \E b \in Blocks, up \in {0, 1} : Truncate(b, up)

SpecCallers == Init /\ [][NextCallers]_vars
-----------------------------------------------------------------------------
ImageOK(n) ==
    /\ n.blk \in Versions /\ n.kid \in [Versions -> Versions]
    /\ n.tag \in 0 .. MaxStamp

\* The types of the variables.
TypeOK ==
    /\ mode \in Modes /\ exists \in BOOLEAN /\ stamp \in 0 .. MaxStamp
    /\ pc \in {"closed", "idle", "nodes", "head", "dummy", "record"}
    /\ pc = "closed" <=> ht = Null
    /\ todo \subseteq Ids /\ (todo # {} <=> pc = "nodes")
    /\ \A i \in Ids, v \in Versions : ImageOK(node[i][v])
    /\ \A v \in Versions : head[v].max \in 0 .. MaxBlocks
    /\ block \in [Blocks -> [Versions -> 0 .. MaxStamp]]
    /\ ht # Null =>
         /\ DOMAIN ht.node = 1 .. (IF ht.max = 0 THEN 1 ELSE ht.max)
         /\ \A i \in DOMAIN ht.node : ImageOK(ht.node[i])
         /\ ht.updated \subseteq ht.dirtyNodes
         /\ ht.dirtyNodes \subseteq DOMAIN ht.node
         /\ ht.counter \in 0 .. MaxCounter

\* What opening the file would find now.
Stored == IF (IF mode = "hash" THEN rec.set ELSE exists)
          THEN Content(Opened) ELSE Null

\* Once the caller has recorded a commit, the file can be opened in every
\* state: no write of a later update, wherever it is interrupted, and no
\* failed call leaves a file that tee_fs_htree_open() rejects.
Recoverable == rec.set => Stored # Null

\* Between operations a node that is not dirty agrees with the copy on disk
\* that its parent points to and its hash covers its children, so that a
\* sync may skip it: htree_sync_node_to_storage() writes dirty nodes only.
CleanNodesStored ==
    pc = "idle" =>
        \A i \in DOMAIN ht.node \ ht.dirtyNodes :
            LET v == IF i = 1 THEN ht.counter % 2
                     ELSE ht.node[i \div 2].kid[i % 2]
            IN  /\ ht.node[i] = node[i][v]
                /\ ({2 * i, 2 * i + 1} \cap ht.dirtyNodes = {} =>
                      ht.node[i].hash = calc_node_hash(ht.node, i, ht.meta))

\* Blocks, nodes and headers are duplicated to make updates atomic: whatever
\* RPC is the last one before a power cut, the file holds the content of the
\* last commit, or the whole content of the handle that was committing; what
\* was not synced is discarded; reads return what was written.
Abstract == INSTANCE AtomicFile
    WITH Values <- 0 .. MaxStamp, None <- Null,
         disk <- Stored, mem <- Content(ht)
ImplementsAtomicFile == Abstract!Spec

=============================================================================
