--------------------------- MODULE FsHtreeProofs ----------------------------
(***************************************************************************)
(* Proofs about FsHtree: the file can be opened after every write that an  *)
(* update makes, and the whole implements AtomicFile, for any number of    *)
(* blocks and any sequence of updates.                                     *)
(***************************************************************************)
EXTENDS FsHtree, FiniteSetTheorems, WellFoundedInduction, TLAPS

\* The directory file is made while the monotonic counter is zero: open_dirh()
\* refuses to make one when min_counter is not zero, unless the build enables
\* CFG_REE_FS_ALLOW_RESET (off by default, for tests).
FreshCounter == "counter" \in Modes => NvStart = 0

-----------------------------------------------------------------------------
(* The inductive invariant.                                                *)

\* A node image as a record.
IsImage(n) ==
    /\ ImageOK(n)
    /\ n = [blk |-> n.blk, kid |-> n.kid, tag |-> n.tag, hash |-> n.hash]

Fields == {"node", "dirtyNodes", "updated", "counter", "max", "meta", "dirty"}

Shape ==
    /\ head = [v \in Versions |-> head[v]]
    /\ \A v \in Versions : head[v].counter \in Nat
    /\ node = [i \in Ids |-> [v \in Versions |-> node[i][v]]]
    /\ \A i \in Ids, v \in Versions : IsImage(node[i][v])
    /\ rec.nv \in Nat
    /\ pc # "closed" =>
          /\ ht = [f \in Fields |-> ht[f]]
          /\ ht.max \in 0 .. MaxBlocks
          /\ ht.node = [i \in DOMAIN ht.node |-> ht.node[i]]
          /\ \A i \in DOMAIN ht.node : IsImage(ht.node[i])

Nodes(max) == IF max > 1 THEN max ELSE 1

\* Where the image of node i of tree T is on disk, the root's being in v.
Version(T, v, i) == IF i = 1 THEN v ELSE T[i \div 2].kid[i % 2]

Readable(T, i) == T[i].tag = 0 \/ block[i - 1][T[i].blk] = T[i].tag

\* Header v is that of a complete tree T, which can be read and verified.
Good(v, T) ==
    /\ T = [i \in 1 .. Nodes(head[v].max) |-> T[i]]
    /\ \A i \in DOMAIN T :
          /\ IsImage(T[i])
          /\ T[i] = node[i][Version(T, v, i)]
          /\ T[i].hash = calc_node_hash(T, i, head[v].meta)
          /\ T[i].tag <= stamp
          /\ Readable(T, i)
    /\ head[v].root = T[1].hash
    /\ head[v].meta \in 0 .. stamp
    /\ head[v].counter \in 1 .. MaxCounter
    /\ head[v].counter % 2 = v

Left == IF pc = "idle" THEN DOMAIN ht.node ELSE todo
Synced == DOMAIN ht.node \ Left

RootChanged(c, T) ==
    \/ ht.node[1].tag # T[1].tag
    \/ ht.node[1].kid # T[1].kid
    \/ ht.meta # head[c].meta

\* Nodes that a sync has still to visit are those of the committed tree T, or
\* dirty; their flags are those of T, so no write reaches an image of T.
LeftOK(T) ==
    /\ DOMAIN T \subseteq DOMAIN ht.node
    /\ \A i \in Left : i > 1 => i \div 2 \in Left
    /\ ht.dirtyNodes \subseteq Left
    /\ \A i \in Left \ ht.dirtyNodes : i \in DOMAIN T /\ ht.node[i] = T[i]
    /\ \A i \in Left \cap DOMAIN T :
          ht.node[i].blk = IF i \in ht.updated THEN 1 - T[i].blk ELSE T[i].blk
    /\ \A i \in Ids \ Synced : (i > 1 /\ i \div 2 \in DOMAIN T) =>
          ht.node[i \div 2].kid[i % 2] = T[i \div 2].kid[i % 2]

\* Nodes that the sync has visited are on disk where the new tree has them,
\* and a change of a node reaches its parent.
SyncedOK(c, T) ==
    \A i \in Synced :
        /\ ht.node[i] = node[i][Version(ht.node, 1 - c, i)]
        /\ ht.node[i].hash = calc_node_hash(ht.node, i, ht.meta)
        /\ \/ i = 1
           \/ i \in DOMAIN T /\ ht.node[i] = T[i]
           \/ i \div 2 \in ht.dirtyNodes \cup Synced

\* The handle can be read.
ContentOK ==
    /\ \A i \in DOMAIN ht.node : ht.node[i].tag <= stamp /\ Readable(ht.node, i)
    /\ ht.meta \in 0 .. stamp

\* The new root hash will be another one.
RootOK(c, T) ==
    1 \in DOMAIN T =>
        IF 1 \in Synced THEN ht.node[1].hash # T[1].hash
        ELSE IF 1 \in ht.dirtyNodes THEN RootChanged(c, T)
        ELSE ht.meta = head[c].meta

Blank == \A v \in Versions : head[v] = ZeroHead(0)

Committed == IF mode = "hash" THEN rec.set ELSE head[1].root # NoHash

DiskOK ==
    /\ Committed => \E v \in Versions : \E T :
          HeadIndex = v /\ head[v].counter >= MinCounter /\ Good(v, T)
    /\ rec.set => Committed
    /\ mode = "counter" =>
          /\ ~Committed => Blank
          /\ Committed => /\ exists
                          /\ head[0].counter % 2 = 0 /\ head[1].counter % 2 = 1
                          /\ \/ head[0].counter = head[1].counter + 1
                             \/ head[1].counter = head[0].counter + 1
          /\ ~rec.set => rec.nv = 0
          /\ pc # "closed" => exists

\* The file as it is created: the root has no block.
EmptyFile ==
    /\ ~rec.set
    /\ ht.meta = 0 /\ ht.max = 0 /\ ht.node[1].tag = 0

\* An update of the committed tree T of header c in progress; a new file has
\* no such tree.
Update(c, T) ==
    /\ c = ht.counter % 2
    /\ LeftOK(T) /\ SyncedOK(c, T) /\ ContentOK /\ RootOK(c, T)
    /\ ht.counter = 0 => T = <<>> /\ pc # "idle" /\ EmptyFile /\ Blank
    /\ ht.counter # 0 => /\ Good(c, T)
                         /\ head[c].counter = ht.counter
                         /\ Committed => HeadIndex = c
                         /\ mode = "counter" => Committed
    /\ pc # "idle" => ht.counter < MaxCounter
    /\ pc = "idle" /\ ht.dirty => ht.dirtyNodes # {}
    /\ pc = "nodes" => ht.dirtyNodes # {} /\ 1 \in todo

UpdateOK ==
    pc \in {"idle", "nodes", "head"} => \E c \in Versions : \E T : Update(c, T)

\* Header c of the new tree T is written; the caller has not recorded the
\* commit yet.
Written(c, T) ==
    /\ c = ht.counter % 2 /\ T = ht.node
    /\ Good(c, T)
    /\ head[c].counter = ht.counter
    /\ head[c].meta = ht.meta
    /\ ht.dirtyNodes = {} /\ ~ht.dirty
    /\ mode = "counter" => Committed /\ HeadIndex = c
    /\ pc = "dummy" => EmptyFile /\ ht.counter = 1 /\ head[0] = ZeroHead(0)
    /\ pc = "record" => node[1][0].hash # node[1][1].hash

WrittenOK ==
    pc \in {"dummy", "record"} => \E c \in Versions : \E T : Written(c, T)

Inv == TypeOK /\ Shape /\ DiskOK /\ UpdateOK /\ WrittenOK

-----------------------------------------------------------------------------
(* Induction over node numbers.  The recursive functions of the model are  *)
(* resolved with the least element of a set of naturals.                   *)

\* A non-empty set of naturals has a least element.
LEMMA Least ==
    ASSUME NEW S, S \subseteq Nat, S # {}
    PROVE  \E m \in S : \A k \in S : m <= k
<1> DEFINE R == OpToRel(<, Nat)
<1>1. IsWellFoundedOn(R, Nat)
  BY NatLessThanWellFounded
<1>2. ASSUME NEW x \in Nat, NEW y \in Nat, x < y PROVE <<x, y>> \in R
  BY <1>2 DEF OpToRel
<1> HIDE DEF R
<1>3. PICK m \in S : \A y \in S : ~(<<y, m>> \in R)
  BY <1>1, WFMin
<1>4. ASSUME NEW k \in S PROVE m <= k
  <2>1. m \in Nat /\ k \in Nat
    OBVIOUS
  <2>2. ~(k < m)
    BY <1>2, <1>3, <2>1, Zenon
  <2> QED
    BY <2>1, <2>2
<1> QED
  BY <1>4

\* The parent and the children of a node.
LEMMA Family ==
    /\ \A i \in Nat : i > 1 => /\ i \div 2 \in Nat /\ i \div 2 > 0 /\ i \div 2 < i
                               /\ i % 2 \in Versions
    /\ \A i \in Nat \ {0}, j \in Nat : j \div 2 = i <=> j \in {2 * i, 2 * i + 1}
    /\ \A i, j \in Nat : (i \div 2 = j \div 2 /\ i % 2 = j % 2) => i = j
<1>1. ASSUME NEW i \in Nat, i > 1
      PROVE  i \div 2 \in Nat /\ i \div 2 > 0 /\ i \div 2 < i /\ i % 2 \in Versions
  BY <1>1 DEF Versions
<1>2. ASSUME NEW i \in Nat \ {0}, NEW j \in Nat PROVE j \div 2 = i <=> j \in {2 * i, 2 * i + 1}
  OBVIOUS
<1>3. ASSUME NEW i \in Nat, NEW j \in Nat, i \div 2 = j \div 2, i % 2 = j % 2 PROVE i = j
  BY <1>3
<1> QED
  BY <1>1, <1>2, <1>3

\* The equation that init_tree_from_data() solves.
IsTree(T, n, nd, v) ==
    T = [i \in 1 .. n |-> IF i = 1 THEN nd[1][v] ELSE nd[i][T[i \div 2].kid[i % 2]]]

\* The equation has at most one solution.
LEMMA TreeUnique ==
    ASSUME NEW n \in Nat, NEW nd, NEW v, NEW T, NEW U,
           IsTree(T, n, nd, v), IsTree(U, n, nd, v)
    PROVE  T = U
<1> DEFINE S == {i \in 1 .. n : T[i] # U[i]}
<1>0. ASSUME S # {} PROVE FALSE
  <2>1. S \subseteq Nat
    OBVIOUS
  <2> HIDE DEF S
  <2>2. PICK m \in S : \A k \in S : m <= k
    BY <1>0, <2>1, Least, Zenon
  <2> USE DEF S
  <2>3. m \in 1 .. n /\ T[m] # U[m]
    OBVIOUS
  <2>4. /\ T[m] = IF m = 1 THEN nd[1][v] ELSE nd[m][T[m \div 2].kid[m % 2]]
        /\ U[m] = IF m = 1 THEN nd[1][v] ELSE nd[m][U[m \div 2].kid[m % 2]]
    BY <2>3 DEF IsTree
  <2>5. m > 1
    BY <2>3, <2>4
  <2>6. m \div 2 \in 1 .. n /\ m \div 2 < m
    BY <2>3, <2>5
  <2>7. T[m \div 2] = U[m \div 2]
    BY <2>2, <2>6
  <2> QED
    BY <2>3, <2>4, <2>5, <2>7
<1>1. \A i \in 1 .. n : T[i] = U[i]
  BY <1>0
<1>2. T = [i \in 1 .. n |-> T[i]] /\ U = [i \in 1 .. n |-> U[i]]
  BY DEF IsTree
<1> QED
  BY <1>1, <1>2

\* The tree of a good header is what init_tree_from_data() reads.
LEMMA TreeRead ==
    ASSUME NEW v, NEW T, Good(v, T), head[v].max \in Nat
    PROVE  init_tree_from_data(v) = T
<1> DEFINE n == Nodes(head[v].max)
<1> DEFINE C == CHOOSE U : IsTree(U, n, node, v)
<1>1. init_tree_from_data(v) = C
  BY DEF init_tree_from_data, Nodes, IsTree
<1>2. IsTree(T, n, node, v)
  <2>1. ASSUME NEW i \in 1 .. n
        PROVE  T[i] = IF i = 1 THEN node[1][v] ELSE node[i][T[i \div 2].kid[i % 2]]
    BY DEF Good, Version
  <2>2. T = [i \in 1 .. n |-> T[i]]
    BY DEF Good
  <2> HIDE DEF n
  <2> QED
    BY <2>1, <2>2 DEF IsTree
<1>3. n \in Nat
  BY DEF Nodes
<1>4. IsTree(C, n, node, v)
  BY <1>2, Zenon
<1> HIDE DEF C, n
<1>5. C = T
  BY <1>2, <1>3, <1>4, TreeUnique
<1> QED
  BY <1>1, <1>5

\* The visit order of a sync is well defined: the next node is left to visit
\* and its children are not.
LEMMA NextNodeLeft ==
    ASSUME ConstantsAssumption, todo \subseteq Ids, 1 \in todo
    PROVE  /\ NextNode \in todo
           /\ 2 * NextNode \notin todo /\ 2 * NextNode + 1 \notin todo
<1> USE DEF ConstantsAssumption
<1> DEFINE Step(f, i) == IF 2 * i \in todo THEN f[2 * i]
                         ELSE IF 2 * i + 1 \in todo THEN f[2 * i + 1] ELSE i
           P(k) == \E f : /\ f = [i \in k .. MaxBlocks |-> f[i]]
                          /\ \A i \in k .. MaxBlocks : f[i] = Step(f, i)
           S == {k \in 1 .. MaxBlocks + 1 : P(k)}
<1>1. S # {}
  <2>1. P(MaxBlocks + 1)
    <3> DEFINE f == [i \in (MaxBlocks + 1) .. MaxBlocks |-> i]
    <3>1. f = [i \in (MaxBlocks + 1) .. MaxBlocks |-> f[i]]
      OBVIOUS
    <3>2. ~ \E i : i \in (MaxBlocks + 1) .. MaxBlocks
      OBVIOUS
    <3> HIDE DEF f
    <3> QED
      BY <3>1, <3>2, Zenon
  <2> HIDE DEF P
  <2> QED
    BY <2>1
<1>2. S \subseteq Nat
  <2> HIDE DEF P
  <2> QED
    OBVIOUS
<1>3. PICK m \in S : \A k \in S : m <= k
  <2> HIDE DEF S
  <2> QED
    BY <1>1, <1>2, Least, Zenon
<1>4. m \in 1 .. MaxBlocks + 1 /\ P(m)
  <2> HIDE DEF P
  <2> QED
    OBVIOUS
<1>5. m = 1
  <2> SUFFICES ASSUME m # 1 PROVE FALSE
    OBVIOUS
  <2>1. PICK f : /\ f = [i \in m .. MaxBlocks |-> f[i]]
                 /\ \A i \in m .. MaxBlocks : f[i] = Step(f, i)
    BY <1>4
  <2> DEFINE k == m - 1
             g == [i \in k .. MaxBlocks |-> IF i = k THEN Step(f, k) ELSE f[i]]
  <2>2. k \in 1 .. MaxBlocks
    BY <1>4
  <2>3. ASSUME NEW i \in k .. MaxBlocks PROVE g[i] = Step(g, i)
    <3>0. ASSUME NEW j \in Ids, j > k PROVE g[j] = f[j]
      BY <3>0, <2>2 DEF Ids
    <3>1. g[i] = Step(f, i)
      <4>1. CASE i = k
        BY <2>2, <4>1
      <4>2. CASE i # k
        <5>1. i \in m .. MaxBlocks
          BY <1>4, <4>2
        <5>2. f[i] = Step(f, i)
          BY <2>1, <5>1
        <5>3. g[i] = f[i]
          BY <4>2
        <5> HIDE DEF g
        <5> QED
          BY <5>2, <5>3
      <4> QED
        BY <4>1, <4>2
    <3>2. i \in Nat /\ 2 * i > k /\ 2 * i + 1 > k
      BY <2>2
    <3>3. 2 * i \in todo => g[2 * i] = f[2 * i]
      BY <3>0, <3>2
    <3>4. 2 * i + 1 \in todo => g[2 * i + 1] = f[2 * i + 1]
      BY <3>0, <3>2
    <3> HIDE DEF g
    <3> QED
      BY <3>1, <3>3, <3>4
  <2>4. g = [i \in k .. MaxBlocks |-> g[i]]
    OBVIOUS
  <2>5. P(k)
    <3> HIDE DEF g, k
    <3> QED
      BY <2>3, <2>4
  <2> HIDE DEF P
  <2>6. k \in S
    BY <2>2, <2>5
  <2> QED
    BY <1>3, <1>4, <2>6
<1>6. PICK g : /\ g = [i \in Ids |-> g[i]]
               /\ \A i \in Ids : g[i] = Step(g, i)
  BY <1>4, <1>5 DEF Ids
<1> DEFINE Eq(f) == f = [i \in Ids |-> IF 2 * i \in todo THEN f[2 * i]
                                       ELSE IF 2 * i + 1 \in todo THEN f[2 * i + 1]
                                       ELSE i]
           leaf == CHOOSE f : Eq(f)
<1>7. Eq(g)
  BY <1>6
<1>8. Eq(leaf)
  BY <1>7, Zenon
<1>9. NextNode = leaf[1]
  BY DEF NextNode
<1> HIDE DEF leaf
<1>10. ASSUME NEW i \in Ids
       PROVE  leaf[i] = IF 2 * i \in todo THEN leaf[2 * i]
                        ELSE IF 2 * i + 1 \in todo THEN leaf[2 * i + 1] ELSE i
  BY <1>8
<1> DEFINE Q(i) == leaf[i] \in todo /\ 2 * leaf[i] \notin todo /\ 2 * leaf[i] + 1 \notin todo
           B == {d \in 0 .. MaxBlocks : MaxBlocks - d \in todo /\ ~Q(MaxBlocks - d)}
<1>11. ASSUME B # {} PROVE FALSE
  <2>1. B \subseteq Nat
    OBVIOUS
  <2>2. PICK d \in B : \A k \in B : d <= k
    <3> HIDE DEF B
    <3> QED
      BY <1>11, <2>1, Least, Zenon
  <2> DEFINE i == MaxBlocks - d
  <2>3. d \in 0 .. MaxBlocks /\ i \in todo /\ ~Q(i)
    BY <2>2
  <2>4. ASSUME NEW j \in todo, j > i PROVE Q(j)
    <3>1. MaxBlocks - j \in 0 .. MaxBlocks /\ MaxBlocks - (MaxBlocks - j) = j
      BY <2>3 DEF Ids
    <3>2. ~(d <= MaxBlocks - j)
      BY <2>3, <2>4 DEF Ids
    <3> HIDE DEF Q
    <3> QED
      BY <2>2, <3>1, <3>2
  <2>5. i \in Ids /\ i > 0 /\ i \in Nat
    BY <2>3 DEF Ids
  <2> HIDE DEF i
  <2>6. CASE 2 * i \in todo
    <3>1. 2 * i > i
      BY <2>5
    <3>2. leaf[i] = leaf[2 * i] /\ Q(2 * i)
      BY <1>10, <2>4, <2>5, <2>6, <3>1
    <3> QED
      BY <2>3, <3>2
  <2>7. CASE 2 * i \notin todo /\ 2 * i + 1 \in todo
    <3>1. 2 * i + 1 > i
      BY <2>5
    <3>2. leaf[i] = leaf[2 * i + 1] /\ Q(2 * i + 1)
      BY <1>10, <2>4, <2>5, <2>7, <3>1
    <3> QED
      BY <2>3, <3>2
  <2>8. CASE 2 * i \notin todo /\ 2 * i + 1 \notin todo
    BY <1>10, <2>3, <2>5, <2>8
  <2> QED
    BY <2>6, <2>7, <2>8
<1>12. Q(1)
  <2>1. MaxBlocks - 1 \in 0 .. MaxBlocks /\ MaxBlocks - (MaxBlocks - 1) = 1
    OBVIOUS
  <2> HIDE DEF Q
  <2> QED
    BY <1>11, <2>1
<1> QED
  BY <1>9, <1>12

\* When the root is visited nothing else is left.
LEMMA RootIsLast ==
    ASSUME todo \subseteq Nat \ {0}, \A i \in todo : i > 1 => i \div 2 \in todo,
           2 \notin todo, 3 \notin todo
    PROVE  todo \subseteq {1}
<1> DEFINE S == todo \ {1}
<1>1. ASSUME S # {} PROVE FALSE
  <2>1. S \subseteq Nat
    OBVIOUS
  <2>2. PICK m \in S : \A k \in S : m <= k
    <3> HIDE DEF S
    <3> QED
      BY <1>1, <2>1, Least, Zenon
  <2>3. m \in Nat /\ m > 3 /\ m \div 2 \in todo /\ m \div 2 < m /\ m \div 2 # 1
    OBVIOUS
  <2> QED
    BY <2>2, <2>3
<1> QED
  BY <1>1

-----------------------------------------------------------------------------
(* What the invariant says of opening the file and of reading a handle.    *)

\* A write that misses the images and the blocks of a good tree keeps it good.
LEMMA GoodFrame ==
    ASSUME NEW v, NEW T, Good(v, T), head'[v] = head[v],
           stamp \in Nat, stamp' \in Nat, stamp <= stamp',
           \A i \in DOMAIN T :
              node'[i][Version(T, v, i)] = node[i][Version(T, v, i)],
           \A i \in DOMAIN T :
              T[i].tag # 0 => block'[i - 1][T[i].blk] = block[i - 1][T[i].blk]
    PROVE  Good(v, T)'
<1>1. ASSUME NEW i \in DOMAIN T
      PROVE  /\ IsImage(T[i])
             /\ T[i] = node'[i][Version(T, v, i)]
             /\ T[i].hash = calc_node_hash(T, i, head'[v].meta)
             /\ T[i].tag <= stamp'
             /\ T[i].tag = 0 \/ block'[i - 1][T[i].blk] = T[i].tag
  <2>1. /\ IsImage(T[i])
        /\ T[i] = node[i][Version(T, v, i)]
        /\ T[i].hash = calc_node_hash(T, i, head[v].meta)
        /\ T[i].tag <= stamp
        /\ T[i].tag = 0 \/ block[i - 1][T[i].blk] = T[i].tag
    BY DEF Good, Readable
  <2>2. T[i].tag \in 0 .. MaxStamp
    BY <2>1 DEF IsImage, ImageOK
  <2>3. T[i].tag <= stamp'
    BY <2>1, <2>2
  <2> QED
    BY <2>1, <2>3
<1>2. /\ T = [i \in 1 .. Nodes(head'[v].max) |-> T[i]]
      /\ head'[v].root = T[1].hash
      /\ head'[v].meta \in 0 .. stamp'
      /\ head'[v].counter \in 1 .. MaxCounter
      /\ head'[v].counter % 2 = v
  BY DEF Good
<1> QED
  BY <1>1, <1>2 DEF Good, Readable, Version, IsImage, ImageOK, calc_node_hash, Nodes

Tags(T) == [b \in {i - 1 : i \in DOMAIN T} |-> T[b + 1].tag]

\* A digest is not the hash of an image of zeros.
LEMMA HashReal ==
    ASSUME NEW T, NEW i, NEW m
    PROVE  calc_node_hash(T, i, m) # NoHash
BY DEF calc_node_hash, NoHash

\* What can be read of a tree is its tags.
LEMMA ContentIs ==
    ASSUME NEW t, t # Null, DOMAIN t.node \subseteq Nat,
           \A i \in DOMAIN t.node : Readable(t.node, i)
    PROVE  Content(t) = [meta |-> t.meta, block |-> Tags(t.node)]
<1>1. ASSUME NEW b \in {i - 1 : i \in DOMAIN t.node}
      PROVE  read_block(t, b) = t.node[b + 1].tag
  <2>1. PICK i \in DOMAIN t.node : b = i - 1
    OBVIOUS
  <2>2. b + 1 = i /\ b = i - 1
    BY <2>1
  <2> QED
    BY <2>2 DEF read_block, Readable
<1>2. [b \in {i - 1 : i \in DOMAIN t.node} |-> read_block(t, b)] = Tags(t.node)
  BY <1>1 DEF Tags
<1> QED
  BY <1>2 DEF Content

\* A good header that is found opens.
LEMMA GoodOpens ==
    ASSUME NEW v \in Versions, NEW T, Good(v, T), HeadIndex = v,
           head[v].max \in Nat, head[v].counter >= MinCounter
    PROVE  /\ Opened = [node |-> T, dirtyNodes |-> {}, updated |-> {},
                        counter |-> head[v].counter, max |-> head[v].max,
                        meta |-> head[v].meta, dirty |-> FALSE]
           /\ Content(Opened) = [meta |-> head[v].meta, block |-> Tags(T)]
<1>1. init_tree_from_data(v) = T
  BY TreeRead
<1>2. DOMAIN T = 1 .. Nodes(head[v].max) /\ 1 \in DOMAIN T /\ DOMAIN T \subseteq Nat
  BY DEF Good, Nodes
<1>3. verify_tree(T, head[v].meta)
  BY DEF Good, verify_tree
<1>4. verify_root(v)
  <2>1. T[1] = node[1][v] /\ head[v].root = T[1].hash
    BY <1>2 DEF Good, Version
  <2>2. T[1].hash = calc_node_hash(T, 1, head[v].meta)
    BY <1>2 DEF Good
  <2>3. T[1].hash # NoHash
    BY <2>2, HashReal
  <2> QED
    BY <2>1, <2>3 DEF verify_root
<1>5. v # -1
  BY DEF Versions
<1> DEFINE r == [node |-> T, dirtyNodes |-> {}, updated |-> {},
                 counter |-> head[v].counter, max |-> head[v].max,
                 meta |-> head[v].meta, dirty |-> FALSE]
<1>6. Opened = r
  BY <1>1, <1>3, <1>4, <1>5, Zenon DEF Opened
<1>7. r # Null /\ r.node = T /\ r.meta = head[v].meta
  BY DEF Null
<1>8. \A i \in DOMAIN T : Readable(T, i)
  BY DEF Good
<1> HIDE DEF r
<1>9. Content(r) = [meta |-> head[v].meta, block |-> Tags(T)]
  BY <1>2, <1>7, <1>8, ContentIs
<1> QED
  BY <1>6, <1>9 DEF r

Commit(v, T) == [meta |-> head[v].meta, block |-> Tags(T)]

StoredFact ==
    /\ \A v \in Versions : \A T :
          Inv /\ Committed /\ HeadIndex = v /\ Good(v, T)
              => Stored = Commit(v, T) /\ Stored # Null
    /\ Inv /\ ~Committed => Stored = Null /\ (MayOpen => Opened = Null)

\* What opening the file finds: the content of the committed tree; before the
\* first commit there is nothing to open.
LEMMA StoredIs == StoredFact
<1> USE ConstantsAssumption
<1>0. Inv => mode \in {"hash", "counter"}
  BY DEF Inv, TypeOK, ConstantsAssumption
<1>1. ASSUME NEW v \in Versions, NEW T, Good(v, T), HeadIndex = v, Inv, Committed
      PROVE  Stored = Commit(v, T) /\ Stored # Null
  <2>1. head[v].max \in Nat
    BY <1>1 DEF Inv, TypeOK, ConstantsAssumption
  <2>2. head[v].counter >= MinCounter
    BY <1>1 DEF Inv, DiskOK
  <2>3. IF mode = "hash" THEN rec.set ELSE exists
    <3>1. mode = "counter" => exists
      BY <1>1 DEF Inv, DiskOK
    <3>2. mode = "hash" => rec.set
      BY <1>1 DEF Committed
    <3> QED
      BY <1>0, <1>1, <3>1, <3>2, Zenon
  <2>4. Content(Opened) = Commit(v, T)
    BY <1>1, <2>1, <2>2, GoodOpens DEF Commit
  <2> QED
    BY <2>3, <2>4 DEF Stored, Commit, Null
<1>2. ASSUME Inv, ~Committed
      PROVE  Stored = Null /\ (MayOpen => Opened = Null)
  <2>1. CASE mode = "hash"
    BY <1>2, <2>1 DEF Committed, Stored, MayOpen
  <2>2. CASE mode = "counter"
    <3>1. head[0] = ZeroHead(0) /\ head[1] = ZeroHead(0)
      BY <1>2, <2>2 DEF Inv, DiskOK, Blank, Versions
    <3>2. HeadIndex = 0
      BY <2>2, <3>1 DEF HeadIndex, get_idx_from_counter, ZeroHead
    <3>3. ~verify_root(0)
      BY <3>1 DEF verify_root, ZeroHead
    <3>4. Opened = Null
      BY <3>2, <3>3 DEF Opened
    <3> QED
      BY <3>4 DEF Stored, Content
  <2> QED
    BY <1>0, <1>2, <2>1, <2>2
<1> QED
  BY <1>1, <1>2 DEF StoredFact

\* The same after a step.
LEMMA StoredIsNext == StoredFact'
BY StoredIs, PTL

HandleFact ==
    Inv /\ pc # "closed" => Content(ht) = [meta |-> ht.meta, block |-> Tags(ht.node)]

\* What reading the open handle finds.
LEMMA HandleIs == HandleFact
<1> SUFFICES ASSUME Inv, pc # "closed"
             PROVE  Content(ht) = [meta |-> ht.meta, block |-> Tags(ht.node)]
  BY DEF HandleFact
<1>1. ht # Null
  BY DEF Inv, TypeOK
<1>2. DOMAIN ht.node \subseteq Nat
  BY <1>1, ConstantsAssumption DEF Inv, TypeOK, Shape, ConstantsAssumption
<1>3. \A i \in DOMAIN ht.node : Readable(ht.node, i)
  <2>1. CASE pc \in {"idle", "nodes", "head"}
    BY <2>1 DEF Inv, UpdateOK, Update, ContentOK
  <2>2. CASE pc \in {"dummy", "record"}
    BY <2>2 DEF Inv, WrittenOK, Written, Good
  <2> QED
    BY <2>1, <2>2 DEF Inv, TypeOK
<1> QED
  BY <1>1, <1>2, <1>3, ContentIs

\* The same after a step.
LEMMA HandleIsNext == HandleFact'
BY HandleIs, PTL

-----------------------------------------------------------------------------
(* What a step leaves alone.                                               *)

\* The step neither makes nor undoes a commit, and the tree of the commit is
\* the same.
Kept ==
    /\ Committed' <=> Committed
    /\ Committed => \E v \in Versions : \E T :
          /\ HeadIndex = v /\ Good(v, T) /\ HeadIndex' = v /\ Good(v, T)'
          /\ head'[v] = head[v]

\* Such a step leaves what opening the file finds.
LEMMA StoredKept ==
    ASSUME Inv, Inv', Kept
    PROVE  Stored' = Stored
<1>1. CASE Committed
  <2>1. PICK v, T :
                                 /\ v \in Versions
                                 /\ HeadIndex = v /\ Good(v, T)
                                 /\ HeadIndex' = v /\ Good(v, T)'
                                 /\ head'[v] = head[v]
    BY <1>1 DEF Kept
  <2> v \in Versions
    BY <2>1
  <2>2. Stored = Commit(v, T)
    BY <1>1, <2>1, StoredIs DEF StoredFact
  <2>3. Committed'
    BY <1>1 DEF Kept
  <2>4. Stored' = Commit(v, T)'
    BY <2>1, <2>3, StoredIsNext DEF StoredFact, Versions
  <2>5. Commit(v, T)' = Commit(v, T)
    BY <2>1 DEF Commit, Tags
  <2> QED
    BY <2>2, <2>4, <2>5
<1>2. CASE ~Committed
  BY <1>2, StoredIs, StoredIsNext DEF StoredFact, Kept
<1> QED
  BY <1>1, <1>2

\* Such a step of an open file keeps the disk in order.
LEMMA DiskKept ==
    ASSUME Inv, Kept, UNCHANGED <<mode, exists, head, rec>>,
           mode = "counter" /\ pc' # "closed" => exists
    PROVE  DiskOK'
<1>1. ASSUME Committed'
      PROVE  \E v \in Versions : \E T :
                (HeadIndex = v /\ head[v].counter >= MinCounter /\ Good(v, T))'
  <2>1. PICK v, T : v \in Versions /\ HeadIndex = v /\ HeadIndex' = v /\ Good(v, T)'
    BY <1>1 DEF Kept
  <2> v \in Versions
    BY <2>1
  <2>2. head[v].counter >= MinCounter
    BY <1>1, <2>1 DEF Inv, DiskOK, Kept
  <2>3. MinCounter' = MinCounter
    BY DEF MinCounter
  <2> QED
    BY <2>1, <2>2, <2>3
<1>2. (rec.set => Committed)'
  BY DEF Inv, DiskOK, Kept
<1>3. Blank' <=> Blank
  BY DEF Blank, ZeroHead
<1>4. (mode = "counter" =>
          /\ ~Committed => Blank
          /\ Committed => /\ exists
                          /\ head[0].counter % 2 = 0 /\ head[1].counter % 2 = 1
                          /\ \/ head[0].counter = head[1].counter + 1
                             \/ head[1].counter = head[0].counter + 1
          /\ ~rec.set => rec.nv = 0
          /\ pc # "closed" => exists)'
  BY <1>3 DEF Inv, DiskOK, Kept
<1> QED
  BY <1>1, <1>2, <1>4 DEF DiskOK, Versions

\* A step that does not touch the disk.
LEMMA DiskSame ==
    ASSUME Inv, UNCHANGED <<mode, disk, rec>>, stamp' \in Nat, stamp <= stamp'
    PROVE  Kept
<1>1. HeadIndex' = HeadIndex /\ (Committed' <=> Committed)
  BY DEF HeadIndex, Committed, disk
<1>2. ASSUME Committed
      PROVE  \E v \in Versions : \E T : /\ HeadIndex = v /\ Good(v, T) /\ HeadIndex' = v
                                    /\ Good(v, T)' /\ head'[v] = head[v]
  <2>1. PICK v, T : v \in Versions /\ HeadIndex = v /\ Good(v, T)
    BY <1>2 DEF Inv, DiskOK
  <2> v \in Versions
    BY <2>1
  <2>2. stamp \in Nat
    BY ConstantsAssumption DEF Inv, TypeOK, ConstantsAssumption
  <2>3. Good(v, T)'
    BY <2>1, <2>2, GoodFrame DEF disk
  <2> QED
    BY <1>1, <2>1, <2>3 DEF disk
<1> QED
  BY <1>1, <1>2 DEF Kept

\* A closed file has only the disk to keep in order.
LEMMA ClosedInv ==
    ASSUME pc' = "closed", TypeOK', Shape', DiskOK'
    PROVE  Inv'
BY DEF Inv, UpdateOK, WrittenOK

\* The types of the disk when there is no file.
LEMMA NoFileShape ==
    ASSUME NoFile
    PROVE  /\ head' = [v \in Versions |-> head'[v]]
           /\ \A v \in Versions : head'[v].counter \in Nat /\ head'[v].max = 0
           /\ node' = [i \in Ids |-> [v \in Versions |-> node'[i][v]]]
           /\ \A i \in Ids, v \in Versions : IsImage(node'[i][v])
           /\ block' \in [Blocks -> [Versions -> 0 .. MaxStamp]]
           /\ Blank'
<1> USE ConstantsAssumption DEF ConstantsAssumption
<1>1. IsImage(ZeroNode)
  BY DEF IsImage, ImageOK, ZeroNode, Versions
<1>2. \A v \in Versions : head'[v] = ZeroHead(0)
  BY DEF NoFile
<1>3. \A v \in Versions : head'[v].counter \in Nat /\ head'[v].max = 0
  BY <1>2 DEF ZeroHead
<1>4. \A i \in Ids, v \in Versions : node'[i][v] = ZeroNode
  BY DEF NoFile
<1>5. \A i \in Ids, v \in Versions : IsImage(node'[i][v])
  BY <1>1, <1>4 DEF IsImage, ImageOK
<1>6. /\ head' = [v \in Versions |-> head'[v]]
      /\ node' = [i \in Ids |-> [v \in Versions |-> node'[i][v]]]
  BY DEF NoFile
<1>7. block' \in [Blocks -> [Versions -> 0 .. MaxStamp]]
  BY DEF NoFile
<1>8. Blank'
  BY <1>2 DEF Blank, ZeroHead
<1> QED
  BY <1>3, <1>5, <1>6, <1>7, <1>8

\* The invariant holds of the first state.
LEMMA InitInv ==
    ASSUME Init, FreshCounter
    PROVE  Inv
<1> USE ConstantsAssumption DEF ConstantsAssumption
<1>1. IsImage(ZeroNode) /\ ImageOK(ZeroNode)
  BY DEF IsImage, ImageOK, ZeroNode, Versions
<1>2. \A v \in Versions : head[v] = ZeroHead(0)
  BY DEF Init
<1>3. \A v \in Versions : head[v].counter \in Nat /\ head[v].max \in 0 .. MaxBlocks
  BY <1>2 DEF ZeroHead
<1>4. \A i \in Ids, v \in Versions : node[i][v] = ZeroNode
  BY DEF Init
<1>5. \A i \in Ids, v \in Versions : IsImage(node[i][v]) /\ ImageOK(node[i][v])
  BY <1>1, <1>4
<1>6. /\ head = [v \in Versions |-> head[v]]
      /\ node = [i \in Ids |-> [v \in Versions |-> node[i][v]]]
  BY DEF Init
<1>7. block \in [Blocks -> [Versions -> 0 .. MaxStamp]]
  BY DEF Init
<1>8. pc = "closed" /\ ht = Null /\ todo = {} /\ stamp = 0 /\ exists = FALSE
  BY DEF Init
<1>9. ~rec.set /\ rec.nv = NvStart /\ mode \in Modes
  BY DEF Init
<1>10. TypeOK
  <2>1. exists \in BOOLEAN
    BY <1>8
  <2>2. /\ stamp \in 0 .. MaxStamp /\ todo \subseteq Ids
        /\ (pc = "closed" <=> ht = Null) /\ (todo # {} <=> pc = "nodes")
        /\ pc \in {"closed", "idle", "nodes", "head", "dummy", "record"}
    BY <1>8
  <2> QED
    BY <1>3, <1>5, <1>7, <1>8, <1>9, <2>1, <2>2 DEF TypeOK
<1>11. Shape
  BY <1>3, <1>5, <1>6, <1>8, <1>9 DEF Shape
<1>12. head[1].root = NoHash
  BY <1>2 DEF ZeroHead, Versions
<1>13. ~Committed
  BY <1>9, <1>12 DEF Committed
<1>14. DiskOK
  BY <1>2, <1>8, <1>9, <1>13 DEF DiskOK, Blank, FreshCounter
<1> QED
  BY <1>8, <1>10, <1>11, <1>14 DEF Inv, UpdateOK, WrittenOK

\* Closing, or a power cut.
LEMMA LoseStep ==
    ASSUME Inv, Lose
    PROVE  Inv' /\ Kept
<1>1. stamp' = stamp /\ stamp \in Nat
  BY ConstantsAssumption DEF Lose, Inv, TypeOK, ConstantsAssumption
<1>2. Kept
  BY <1>1, DiskSame DEF Lose
<1>3. DiskOK'
  BY <1>2, DiskKept DEF Lose, disk
<1>4. TypeOK'
  <2>1. (pc = "closed" <=> ht = Null)' /\ (todo # {} <=> pc = "nodes")'
    BY DEF Lose
  <2> QED
    BY <2>1 DEF Inv, TypeOK, Lose, disk, ImageOK
<1>5. Shape'
  BY DEF Inv, Shape, Lose, disk, IsImage, ImageOK
<1> QED
  BY <1>2, <1>3, <1>4, <1>5, ClosedInv DEF Lose

\* Nothing was ever committed to a file whose creation fails.
LEMMA CreateFailsStep ==
    ASSUME Inv, CreateFails
    PROVE  /\ Inv' /\ ~Committed'
           /\ ht.meta = 0 /\ ht.max = 0 /\ ht.node[1].tag = 0 /\ ~rec.set
           /\ pc # "closed"
<1>1. pc \in {"dummy", "nodes", "head"} /\ EmptyFile
  <2>1. CASE pc = "dummy"
    BY <2>1 DEF Inv, WrittenOK, Written
  <2>2. CASE pc \in {"nodes", "head"} /\ ht.counter = 0
    BY <2>2 DEF Inv, UpdateOK, Update
  <2> QED
    BY <2>1, <2>2 DEF CreateFails, Creating
<1>2. NoFile /\ ht' = Null /\ pc' = "closed" /\ todo' = {} /\ exists' = FALSE
      /\ UNCHANGED <<mode, rec, stamp>>
  BY DEF CreateFails
<1>3. TypeOK'
  <2>1. exists' \in BOOLEAN
    BY <1>2
  <2>2. /\ todo' \subseteq Ids
        /\ (pc = "closed" <=> ht = Null)' /\ (todo # {} <=> pc = "nodes")'
        /\ pc' \in {"closed", "idle", "nodes", "head", "dummy", "record"}
    BY <1>2
  <2>3. \A v \in Versions : head'[v].max \in 0 .. MaxBlocks
    BY <1>2, NoFileShape, ConstantsAssumption DEF ConstantsAssumption
  <2> QED
    BY <1>2, <2>1, <2>2, <2>3, NoFileShape DEF Inv, TypeOK, IsImage, ImageOK
<1>4. Shape'
  BY <1>2, NoFileShape DEF Inv, Shape, IsImage, ImageOK
<1>5. ~Committed'
  BY <1>1, <1>2, NoFileShape DEF Committed, EmptyFile, Blank, ZeroHead, Versions
<1>6. Blank'
  BY <1>2, NoFileShape
<1>7. DiskOK'
  BY <1>1, <1>2, <1>5, <1>6 DEF Inv, DiskOK, EmptyFile
<1> QED
  BY <1>1, <1>2, <1>3, <1>4, <1>5, <1>7, ClosedInv DEF EmptyFile

-----------------------------------------------------------------------------
(* Steps that open a file, end its creation or record a commit.            *)

\* An unchanged handle of a committed tree.
LEMMA Settled ==
    ASSUME NEW c \in Versions, NEW T, pc' = "idle", c = ht'.counter % 2, ht'.node = T,
           ht'.dirtyNodes = {}, ht'.updated = {}, ~ht'.dirty, ht'.meta = head'[c].meta,
           Good(c, T)', head'[c].counter = ht'.counter, head'[c].max \in Nat,
           Committed' => HeadIndex' = c, mode' = "counter" => Committed'
    PROVE  Update(c, T)'
<1> USE ConstantsAssumption DEF ConstantsAssumption
<1>1. Left' = DOMAIN T /\ Synced' = {}
  BY DEF Left, Synced
<1>2. DOMAIN T \subseteq Nat \ {0} /\ \A i \in DOMAIN T : i > 1 => i \div 2 \in DOMAIN T
  <2>1. DOMAIN T = 1 .. Nodes(head'[c].max)
    BY DEF Good
  <2>2. PICK n \in Nat : n = Nodes(head'[c].max)
    BY DEF Nodes
  <2>3. DOMAIN T = 1 .. n
    BY <2>1, <2>2
  <2> QED
    BY <2>3
<1>3. LeftOK(T)'
  BY <1>1, <1>2 DEF LeftOK
<1>4. SyncedOK(c, T)'
  BY <1>1 DEF SyncedOK
<1>5. ContentOK'
  BY DEF ContentOK, Good, Readable
<1>6. RootOK(c, T)'
  BY <1>1 DEF RootOK
<1>7. ht'.counter # 0
  BY DEF Good
<1> QED
  BY <1>3, <1>4, <1>5, <1>6, <1>7 DEF Update

\* Both headers, all nodes and the root of a new file are blank.
LEMMA CreateStep ==
    ASSUME Inv, Create
    PROVE  /\ Inv' /\ ~Committed /\ ~Committed'
           /\ pc' # "closed" /\ ht'.meta = 0 /\ DOMAIN ht'.node = {1}
           /\ ht'.node[1].tag = 0
<1> USE ConstantsAssumption DEF ConstantsAssumption
<1>1. /\ pc = "closed" /\ exists' = TRUE /\ NoFile /\ pc' = "nodes" /\ todo' = {1}
      /\ UNCHANGED <<mode, rec, stamp>>
  BY DEF Create
<1> DEFINE h == calc_node_hash([j \in {1} |-> ZeroNode], 1, 0)
           z == [ZeroNode EXCEPT !.hash = h]
<1>2. /\ ht' = [node |-> [i \in {1} |-> z], dirtyNodes |-> {1}, updated |-> {},
                counter |-> 0, max |-> 0, meta |-> 0, dirty |-> TRUE]
  BY DEF Create
<1> HIDE DEF h
<1>3. /\ z = [blk |-> 0, kid |-> [k \in Versions |-> 0], tag |-> 0, hash |-> h]
  BY DEF ZeroNode
<1>4. IsImage(z) /\ z.tag = 0
  BY <1>3 DEF IsImage, ImageOK, Versions
<1> HIDE DEF z
<1>5. /\ ht'.node = [i \in {1} |-> z] /\ ht'.dirtyNodes = {1} /\ ht'.updated = {}
      /\ ht'.counter = 0 /\ ht'.max = 0 /\ ht'.meta = 0
      /\ ht' # Null
  BY <1>2 DEF Null
<1>6. ht' = [f \in Fields |-> ht'[f]]
  BY <1>2 DEF Fields
<1>7. DOMAIN ht'.node = {1} /\ ht'.node[1] = z
  BY <1>5
<1>8. mode \in {"hash", "counter"}
  BY DEF Inv, TypeOK
<1>9. ~rec.set
  <2>1. mode = "hash" => ~rec.set
    BY DEF Create
  <2>2. mode = "counter" => ~exists
    BY DEF Create
  <2>3. mode = "counter" => ~Committed
    BY <2>2 DEF Inv, DiskOK
  <2>4. mode = "counter" => ~rec.set
    BY <2>3 DEF Inv, DiskOK
  <2> QED
    BY <1>8, <2>1, <2>4
<1>10. ~Committed
  <2>1. mode = "counter" => ~exists
    BY DEF Create
  <2>2. mode = "counter" => ~Committed
    BY <2>1 DEF Inv, DiskOK
  <2>3. mode = "hash" => ~Committed
    BY <1>9 DEF Committed
  <2> QED
    BY <1>8, <2>2, <2>3
<1>11. Blank'
  BY <1>1, NoFileShape
<1>12. ~Committed'
  BY <1>1, <1>9, <1>11 DEF Committed, Blank, ZeroHead, Versions
<1>13. TypeOK'
  <2>1. exists' \in BOOLEAN
    BY <1>1
  <2>2. /\ todo' \subseteq Ids
        /\ (pc = "closed" <=> ht = Null)' /\ (todo # {} <=> pc = "nodes")'
        /\ pc' \in {"closed", "idle", "nodes", "head", "dummy", "record"}
    BY <1>1, <1>5 DEF Ids
  <2>3. \A v \in Versions : head'[v].max \in 0 .. MaxBlocks
    BY <1>1, NoFileShape
  <2>4. DOMAIN ht'.node = 1 .. (IF ht'.max = 0 THEN 1 ELSE ht'.max)
    BY <1>5
  <2>5. \A i \in DOMAIN ht'.node : ImageOK(ht'.node[i])
    BY <1>4, <1>7 DEF IsImage
  <2>6. ht'.counter \in 0 .. MaxCounter
    BY <1>5
  <2> QED
    BY <1>1, <1>5, <1>7, <2>1, <2>2, <2>3, <2>4, <2>5, <2>6, NoFileShape
       DEF Inv, TypeOK, IsImage, ImageOK
<1>14. Shape'
  BY <1>1, <1>4, <1>5, <1>6, <1>7, NoFileShape DEF Inv, Shape, IsImage, ImageOK
<1>15. DiskOK'
  BY <1>1, <1>9, <1>11, <1>12 DEF Inv, DiskOK
<1>16. Update(0, <<>>)'
  <2>1. Left' = {1} /\ Synced' = {}
    BY <1>1, <1>7 DEF Left, Synced
  <2>2. DOMAIN <<>> = {}
    OBVIOUS
  <2>3. PICK T : T = <<>>
    OBVIOUS
  <2>4. LeftOK(T)'
    BY <1>5, <2>1, <2>2, <2>3 DEF LeftOK
  <2>5. SyncedOK(0, T)'
    BY <2>1 DEF SyncedOK
  <2>6. ContentOK'
    <3>1. stamp' \in Nat
      BY <1>1 DEF Inv, TypeOK
    <3> QED
      BY <1>4, <1>5, <1>7, <3>1 DEF ContentOK, Readable
  <2>7. RootOK(0, T)'
    BY <2>2, <2>3 DEF RootOK
  <2>8. EmptyFile'
    BY <1>1, <1>4, <1>5, <1>7, <1>9 DEF EmptyFile
  <2>9. Update(0, T)'
    BY <1>1, <1>5, <1>11, <2>3, <2>4, <2>5, <2>6, <2>7, <2>8 DEF Update
  <2> QED
    BY <2>3, <2>9
<1>17. UpdateOK'
  BY <1>1, <1>16 DEF UpdateOK, Versions
<1>18. WrittenOK'
  BY <1>1 DEF WrittenOK
<1> QED
  BY <1>1, <1>4, <1>5, <1>7, <1>10, <1>12, <1>13, <1>14, <1>15, <1>17, <1>18 DEF Inv

\* A file that opens is opened with the tree of its last commit.
LEMMA OpenStep ==
    ASSUME Inv, Open
    PROVE  /\ Inv' /\ Kept /\ Committed /\ Stored # Null /\ pc' # "closed"
           /\ [meta |-> ht'.meta, block |-> Tags(ht'.node)] = Stored
<1> USE ConstantsAssumption DEF ConstantsAssumption
<1>1. /\ MayOpen /\ pc = "closed" /\ Opened # Null /\ ht' = Opened /\ pc' = "idle"
      /\ UNCHANGED <<mode, disk, todo, rec, stamp>>
  BY DEF Open, MayOpen
<1>2. Committed
  BY <1>1, StoredIs DEF StoredFact
<1>3. PICK v, T : v \in Versions /\ HeadIndex = v /\ head[v].counter >= MinCounter /\ Good(v, T)
  BY <1>2 DEF Inv, DiskOK
<1> v \in Versions
  BY <1>3
<1>4. stamp' = stamp /\ stamp \in Nat
  BY <1>1 DEF Inv, TypeOK
<1>5. Kept
  BY <1>1, <1>4, DiskSame
<1>6. head[v].max \in 0 .. MaxBlocks
  BY DEF Inv, TypeOK
<1>7. ht' = [node |-> T, dirtyNodes |-> {}, updated |-> {},
             counter |-> head[v].counter, max |-> head[v].max,
             meta |-> head[v].meta, dirty |-> FALSE]
  BY <1>1, <1>3, <1>6, GoodOpens
<1>8. ~ht'.dirty
  BY <1>7
<1>9. /\ ht'.node = T /\ ht'.dirtyNodes = {} /\ ht'.updated = {}
      /\ ht'.counter = head[v].counter /\ ht'.max = head[v].max
      /\ ht'.meta = head[v].meta /\ ht' # Null
  BY <1>7 DEF Null
<1>10. ht' = [f \in Fields |-> ht'[f]]
  BY <1>7 DEF Fields
<1>11. /\ head' = head /\ node' = node /\ block' = block /\ exists' = exists
       /\ mode' = mode /\ rec' = rec
  BY <1>1 DEF disk
<1>12. Good(v, T)'
  BY <1>3, <1>4, <1>11, GoodFrame
<1>13. HeadIndex' = v /\ Committed'
  BY <1>2, <1>3, <1>11 DEF HeadIndex, Committed
<1>14. Update(v, T)'
  <2>1. v = head[v].counter % 2
    BY <1>3 DEF Good
  <2> QED
    BY <1>1, <1>6, <1>8, <1>9, <1>11, <1>12, <1>13, <2>1, Settled
<1>15. DOMAIN T = 1 .. (IF head[v].max = 0 THEN 1 ELSE head[v].max)
  BY <1>3, <1>6 DEF Good, Nodes
<1>16. \A i \in DOMAIN T : IsImage(T[i])
  BY <1>3 DEF Good
<1>17. TypeOK'
  <2>1. /\ (pc = "closed" <=> ht = Null)' /\ (todo # {} <=> pc = "nodes")'
        /\ todo' \subseteq Ids
        /\ pc' \in {"closed", "idle", "nodes", "head", "dummy", "record"}
    BY <1>1, <1>9 DEF Inv, TypeOK
  <2>2. /\ DOMAIN ht'.node = 1 .. (IF ht'.max = 0 THEN 1 ELSE ht'.max)
        /\ ht'.updated \subseteq ht'.dirtyNodes
        /\ ht'.dirtyNodes \subseteq DOMAIN ht'.node
    BY <1>9, <1>15
  <2>3. ht'.counter \in 0 .. MaxCounter
    BY <1>3, <1>9 DEF Good
  <2>4. \A i \in DOMAIN ht'.node : ImageOK(ht'.node[i])
    BY <1>9, <1>16 DEF IsImage
  <2> QED
    BY <1>4, <1>11, <2>1, <2>2, <2>3, <2>4 DEF Inv, TypeOK, ImageOK
<1>18. Shape'
  <2>1. T = [i \in DOMAIN T |-> T[i]]
    BY <1>3 DEF Good
  <2> QED
    BY <1>6, <1>9, <1>10, <1>11, <1>16, <2>1 DEF Inv, Shape, IsImage, ImageOK
<1>19. DiskOK'
  <2>1. mode = "counter" => exists
    BY <1>2 DEF Inv, DiskOK
  <2> QED
    BY <1>5, <1>11, <2>1, DiskKept
<1>20. UpdateOK' /\ WrittenOK'
  BY <1>1, <1>14 DEF UpdateOK, WrittenOK, Versions
<1>21. Stored = Commit(v, T) /\ Stored # Null
  BY <1>2, <1>3, StoredIs DEF StoredFact
<1> QED
  BY <1>1, <1>2, <1>5, <1>9, <1>17, <1>18, <1>19, <1>20, <1>21 DEF Inv, Commit

\* The last step of a creation: the dummy header is there already.
LEMMA WriteDummyHeadStep ==
    ASSUME Inv, WriteDummyHead
    PROVE  Inv' /\ Kept /\ pc # "closed" /\ pc' # "closed" /\ ht' = ht
<1> USE ConstantsAssumption DEF ConstantsAssumption
<1>1. /\ pc = "dummy" /\ head' = [head EXCEPT ![0] = ZeroHead(MinCounter)] /\ pc' = "idle"
      /\ UNCHANGED <<mode, exists, node, block, ht, todo, rec, stamp>>
  BY DEF WriteDummyHead
<1>2. PICK c, T : c \in Versions /\ Written(c, T)
  BY <1>1 DEF Inv, WrittenOK
<1> c \in Versions
  BY <1>2
<1>3. head' = head
  <2>1. ~rec.set /\ head[0] = ZeroHead(0)
    BY <1>1, <1>2 DEF Written, EmptyFile
  <2>2. MinCounter = 0
    BY <2>1 DEF Inv, TypeOK, DiskOK, MinCounter
  <2> QED
    BY <1>1, <2>1, <2>2 DEF Inv, Shape, Versions
<1>4. stamp' = stamp /\ stamp \in Nat /\ UNCHANGED <<mode, disk, rec>>
  BY <1>1, <1>3 DEF Inv, TypeOK, disk
<1>5. Kept
  BY <1>4, DiskSame
<1>6. DiskOK'
  BY <1>1, <1>3, <1>5, DiskKept DEF Inv, DiskOK
<1>7. Good(c, T)'
  BY <1>1, <1>2, <1>3, <1>4, GoodFrame DEF Written
<1>8. HeadIndex' = HeadIndex /\ (Committed' <=> Committed)
  BY <1>1, <1>3 DEF HeadIndex, Committed
<1>9. Update(c, T)'
  <2>1. ht # Null /\ ht.updated = {}
    BY <1>1, <1>2 DEF Inv, TypeOK, Written
  <2>2. ~ht'.dirty
    BY <1>1, <1>2 DEF Written
  <2>3. ~Committed \/ mode = "counter"
    BY <1>1, <1>2 DEF Written, EmptyFile, Committed, Inv, TypeOK
  <2>4. head'[c].max \in Nat
    BY <1>3 DEF Inv, TypeOK
  <2>5. mode = "counter" => Committed /\ HeadIndex = c
    BY <1>2 DEF Written
  <2>6. /\ c = ht'.counter % 2 /\ ht'.node = T /\ ht'.dirtyNodes = {}
        /\ ht'.meta = head'[c].meta /\ head'[c].counter = ht'.counter
    BY <1>1, <1>2, <1>3 DEF Written
  <2> QED
    BY <1>1, <1>7, <1>8, <2>1, <2>2, <2>3, <2>4, <2>5, <2>6, Settled
<1>10. TypeOK'
  <2>1. /\ (pc = "closed" <=> ht = Null)' /\ (todo # {} <=> pc = "nodes")'
        /\ pc' \in {"closed", "idle", "nodes", "head", "dummy", "record"}
    BY <1>1 DEF Inv, TypeOK
  <2> QED
    BY <1>1, <1>3, <2>1 DEF Inv, TypeOK, ImageOK
<1>11. Shape'
  <2>1. pc # "closed" /\ rec' = rec /\ ht' = ht /\ node' = node
    BY <1>1
  <2> QED
    BY <1>3, <2>1 DEF Inv, Shape, IsImage, ImageOK
<1>12. UpdateOK' /\ WrittenOK'
  BY <1>1, <1>9 DEF UpdateOK, WrittenOK, Versions
<1> QED
  BY <1>1, <1>5, <1>6, <1>10, <1>11, <1>12 DEF Inv

\* The caller records the commit: from here on the new tree is the one that
\* is found, and in counter mode it was before.
LEMMA RecordStep ==
    ASSUME Inv, Record
    PROVE  /\ Inv' /\ pc # "closed" /\ pc' # "closed" /\ ht' = ht
           /\ Stored' = [meta |-> ht.meta, block |-> Tags(ht.node)]
<1> USE ConstantsAssumption DEF ConstantsAssumption
<1>1. /\ pc = "record" /\ pc' = "idle"
      /\ rec' = [set |-> TRUE, hash |-> ht.node[1].hash,
                 nv |-> IF ht.counter > rec.nv THEN ht.counter ELSE rec.nv]
      /\ UNCHANGED <<mode, exists, head, node, block, ht, todo, stamp>>
  BY DEF Record, disk
<1>2. PICK c, T : c \in Versions /\ Written(c, T)
  BY <1>1 DEF Inv, WrittenOK
<1> c \in Versions
  BY <1>2
<1>3. rec'.set
  BY <1>1
<1>4. /\ rec'.hash = ht.node[1].hash
      /\ rec'.nv = IF ht.counter > rec.nv THEN ht.counter ELSE rec.nv
  BY <1>1
<1>5. stamp' = stamp /\ stamp \in Nat /\ rec.nv \in Nat /\ ht.counter \in Nat /\ ht # Null
  BY <1>1 DEF Inv, TypeOK, Shape
<1>6. mode \in {"hash", "counter"} /\ mode' = mode
  BY <1>1 DEF Inv, TypeOK
<1>7. Good(c, T)'
  BY <1>1, <1>2, <1>5, GoodFrame DEF Written
<1>8. 1 \in DOMAIN T /\ T[1] = node[1][c] /\ T = ht.node
  <2>1. head[c].max \in Nat
    BY DEF Inv, TypeOK
  <2>2. Good(c, T) /\ T = ht.node
    BY <1>2 DEF Written
  <2>3. DOMAIN T = 1 .. Nodes(head[c].max)
    BY <2>2 DEF Good
  <2>4. 1 \in DOMAIN T
    BY <2>1, <2>3 DEF Nodes
  <2>5. T[1] = node[1][Version(T, c, 1)]
    BY <2>2, <2>4 DEF Good
  <2> QED
    BY <2>2, <2>4, <2>5 DEF Version
<1>9. Committed' /\ HeadIndex' = c
  <2>1. CASE mode = "hash"
    <3>1. node[1][0].hash # node[1][1].hash
      BY <1>1, <1>2 DEF Written
    <3> QED
      BY <1>1, <1>3, <1>4, <1>6, <1>8, <2>1, <3>1 DEF Committed, HeadIndex, Versions
  <2>2. CASE mode = "counter"
    BY <1>1, <1>2, <2>2 DEF Written, Committed, HeadIndex
  <2> QED
    BY <1>6, <2>1, <2>2
<1>10. head'[c].counter >= MinCounter'
  <2>1. CASE mode = "hash"
    BY <1>1, <1>2, <1>5, <2>1 DEF MinCounter, Written
  <2>2. CASE mode = "counter"
    <3>1. head[c].counter = ht.counter /\ Committed /\ HeadIndex = c
      BY <1>2, <2>2 DEF Written
    <3>2. head[c].counter >= rec.nv
      BY <2>2, <3>1 DEF Inv, DiskOK, MinCounter
    <3> QED
      BY <1>1, <1>4, <1>5, <2>2, <3>1, <3>2 DEF MinCounter
  <2> QED
    BY <1>6, <2>1, <2>2
<1>11. DiskOK'
  <2>1. \E v \in Versions : \E U :
           (HeadIndex = v /\ head[v].counter >= MinCounter /\ Good(v, U))'
    BY <1>7, <1>9, <1>10
  <2>2. mode = "counter" =>
          /\ Committed
          /\ exists
          /\ head[0].counter % 2 = 0 /\ head[1].counter % 2 = 1
          /\ \/ head[0].counter = head[1].counter + 1
             \/ head[1].counter = head[0].counter + 1
    BY <1>2 DEF Inv, DiskOK, Written
  <2> QED
    BY <1>1, <1>3, <1>9, <2>1, <2>2 DEF DiskOK, Versions
<1>12. Update(c, T)'
  <2>1. ht.updated = {}
    BY <1>2, <1>5 DEF Inv, TypeOK, Written
  <2>2. ~ht'.dirty
    BY <1>1, <1>2 DEF Written
  <2>3. head'[c].max \in Nat
    BY <1>1 DEF Inv, TypeOK
  <2>4. /\ c = ht'.counter % 2 /\ ht'.node = T /\ ht'.dirtyNodes = {}
        /\ ht'.meta = head'[c].meta /\ head'[c].counter = ht'.counter
    BY <1>1, <1>2 DEF Written
  <2> QED
    BY <1>1, <1>7, <1>9, <2>1, <2>2, <2>3, <2>4, Settled
<1>13. TypeOK'
  <2>1. /\ (pc = "closed" <=> ht = Null)' /\ (todo # {} <=> pc = "nodes")'
        /\ pc' \in {"closed", "idle", "nodes", "head", "dummy", "record"}
    BY <1>1 DEF Inv, TypeOK
  <2> QED
    BY <1>1, <2>1 DEF Inv, TypeOK, ImageOK
<1>14. Shape'
  <2>1. rec'.nv \in Nat
    BY <1>4, <1>5
  <2> QED
    BY <1>1, <2>1 DEF Inv, Shape, IsImage, ImageOK
<1>15. Inv'
  BY <1>1, <1>11, <1>12, <1>13, <1>14 DEF Inv, UpdateOK, WrittenOK, Versions
<1>16. Stored' = Commit(c, T)'
  BY <1>7, <1>9, <1>15, StoredIsNext DEF StoredFact, Versions
<1>17. Commit(c, T)' = [meta |-> ht.meta, block |-> Tags(ht.node)]
  BY <1>1, <1>2 DEF Commit, Written, Tags
<1> QED
  BY <1>1, <1>15, <1>16, <1>17

-----------------------------------------------------------------------------
(* Steps of an update.                                                     *)

\* The committed tree that an update starts from is the one that is found.
LEMMA UpdateKept ==
    ASSUME Inv, NEW c \in Versions, NEW T, Update(c, T), UNCHANGED <<mode, head, rec>>,
           ht.counter # 0 => Good(c, T)',
           Committed => HeadIndex' = HeadIndex
    PROVE  Kept
<1>1. Committed' <=> Committed
  BY DEF Committed
<1>2. ASSUME Committed
      PROVE  \E v \in Versions : \E U : /\ HeadIndex = v /\ Good(v, U) /\ HeadIndex' = v
                                    /\ Good(v, U)' /\ head'[v] = head[v]
  <2>1. ht.counter # 0
    BY <1>2 DEF Update, EmptyFile, Blank, ZeroHead, Committed, Versions
  <2>2. Good(c, T) /\ HeadIndex = c
    BY <1>2, <2>1 DEF Update
  <2> QED
    BY <1>2, <2>1, <2>2
<1> QED
  BY <1>1, <1>2 DEF Kept

\* The handle of an update.
LEMMA Handle ==
    ASSUME Inv, pc # "closed"
    PROVE  /\ ht # Null /\ ht = [f \in Fields |-> ht[f]]
           /\ ht.max \in 0 .. MaxBlocks
           /\ DOMAIN ht.node = 1 .. (IF ht.max = 0 THEN 1 ELSE ht.max)
           /\ DOMAIN ht.node \subseteq Ids /\ 1 \in DOMAIN ht.node
           /\ ht.node = [i \in DOMAIN ht.node |-> ht.node[i]]
           /\ \A i \in DOMAIN ht.node : IsImage(ht.node[i])
           /\ ht.updated \subseteq ht.dirtyNodes
           /\ ht.dirtyNodes \subseteq DOMAIN ht.node
           /\ ht.counter \in 0 .. MaxCounter
           /\ mode = "counter" => exists
           /\ stamp \in 0 .. MaxStamp /\ MaxStamp \in Nat /\ MaxCounter \in Nat
<1> USE ConstantsAssumption DEF ConstantsAssumption
<1>1. /\ ht # Null /\ DOMAIN ht.node = 1 .. (IF ht.max = 0 THEN 1 ELSE ht.max)
      /\ ht.updated \subseteq ht.dirtyNodes
      /\ ht.dirtyNodes \subseteq DOMAIN ht.node
      /\ ht.counter \in 0 .. MaxCounter
      /\ stamp \in 0 .. MaxStamp
  BY DEF Inv, TypeOK
<1>2. /\ ht = [f \in Fields |-> ht[f]]
      /\ ht.max \in 0 .. MaxBlocks
      /\ ht.node = [i \in DOMAIN ht.node |-> ht.node[i]]
      /\ \A i \in DOMAIN ht.node : IsImage(ht.node[i])
  BY DEF Inv, Shape
<1>3. DOMAIN ht.node \subseteq Ids /\ 1 \in DOMAIN ht.node
  BY <1>1, <1>2 DEF Ids
<1>4. mode = "counter" => exists
  BY DEF Inv, DiskOK
<1> QED
  BY <1>1, <1>2, <1>3, <1>4

\* What a step that only works on the handle must show of its types.
LEMMA HandleShape ==
    ASSUME Inv, pc # "closed", pc' \in {"idle", "nodes", "head", "dummy", "record"},
           UNCHANGED <<mode, exists, rec>>, stamp' \in 0 .. MaxStamp,
           head' = [v \in Versions |-> head'[v]],
           \A v \in Versions : head'[v].counter \in Nat /\ head'[v].max \in 0 .. MaxBlocks,
           node' = [i \in Ids |-> [v \in Versions |-> node'[i][v]]],
           \A i \in Ids, v \in Versions : IsImage(node'[i][v]),
           block' \in [Blocks -> [Versions -> 0 .. MaxStamp]],
           todo' \subseteq Ids, todo' # {} <=> pc' = "nodes",
           ht' = [f \in Fields |-> ht'[f]],
           ht'.max \in 0 .. MaxBlocks,
           DOMAIN ht'.node = 1 .. (IF ht'.max = 0 THEN 1 ELSE ht'.max),
           ht'.node = [i \in DOMAIN ht'.node |-> ht'.node[i]],
           \A i \in DOMAIN ht'.node : IsImage(ht'.node[i]),
           ht'.updated \subseteq ht'.dirtyNodes,
           ht'.dirtyNodes \subseteq DOMAIN ht'.node,
           ht'.counter \in 0 .. MaxCounter
    PROVE  TypeOK' /\ Shape'
<1>1. ht' # Null
  <2>1. DOMAIN ht' = Fields /\ "node" \in Fields
    BY DEF Fields
  <2> QED
    BY <2>1 DEF Null
<1>2. /\ pc' # "closed"
      /\ pc' \in {"closed", "idle", "nodes", "head", "dummy", "record"}
  OBVIOUS
<1>3. mode' \in Modes /\ exists' \in BOOLEAN /\ rec'.nv \in Nat
  BY DEF Inv, TypeOK, Shape
<1>4. /\ \A i \in Ids, v \in Versions : ImageOK(node[i][v])'
      /\ \A i \in DOMAIN ht'.node : ImageOK(ht.node[i])'
  BY DEF IsImage, ImageOK
<1>5. TypeOK'
  BY <1>1, <1>2, <1>3, <1>4 DEF TypeOK
<1>6. Shape'
  BY <1>2, <1>3 DEF Shape, IsImage, ImageOK
<1> QED
  BY <1>5, <1>6

\* Nothing was visited before a sync starts.
LEMMA IdleUpdate ==
    ASSUME Inv, pc = "idle"
    PROVE  \E c \in Versions : \E T :
              /\ Update(c, T) /\ ht.counter # 0 /\ Good(c, T)
              /\ Left = DOMAIN ht.node /\ Synced = {}
<1>1. PICK c, T : c \in Versions /\ Update(c, T)
  BY DEF Inv, UpdateOK
<1> c \in Versions
  BY <1>1
<1>2. ht.counter # 0 /\ Good(c, T)
  BY <1>1 DEF Update
<1>3. Left = DOMAIN ht.node /\ Synced = {}
  BY DEF Left, Synced
<1> QED
  BY <1>1, <1>2, <1>3

\* New meta data differs from what is committed.
LEMMA SetMetaStep ==
    ASSUME Inv, SetMeta
    PROVE  /\ Inv' /\ Kept /\ pc # "closed" /\ pc' # "closed"
           /\ ht'.meta = stamp' /\ ht'.node = ht.node /\ stamp' \in 0 .. MaxStamp
<1>1. /\ pc = "idle" /\ stamp < MaxStamp /\ stamp' = stamp + 1
      /\ ht' = [ht EXCEPT !.meta = stamp', !.dirtyNodes = @ \cup {1}, !.dirty = TRUE]
      /\ UNCHANGED <<mode, exists, head, node, block, pc, todo, rec>>
  BY DEF SetMeta, meta_set_dirty, disk
<1>2. PICK c, T :
                               /\ c \in Versions
                               /\ Update(c, T) /\ ht.counter # 0 /\ Good(c, T)
                               /\ Left = DOMAIN ht.node /\ Synced = {}
  BY <1>1, IdleUpdate
<1> c \in Versions
  BY <1>2
<1>3. pc # "closed" /\ pc' # "closed"
  BY <1>1
<1>4. /\ stamp \in Nat /\ stamp' \in 0 .. MaxStamp /\ stamp' \in Nat /\ stamp <= stamp'
  BY <1>1, <1>3, Handle
<1>5. /\ ht'.node = ht.node /\ ht'.dirtyNodes = ht.dirtyNodes \cup {1}
      /\ ht'.updated = ht.updated /\ ht'.counter = ht.counter /\ ht'.max = ht.max
      /\ ht'.meta = stamp'
      /\ ht' = [f \in Fields |-> ht'[f]]
  BY <1>1, <1>3, Handle DEF Fields
<1>6. Kept
  BY <1>1, <1>4, DiskSame DEF disk
<1>7. DiskOK'
  BY <1>1, <1>3, <1>6, Handle, DiskKept
<1>8. TypeOK' /\ Shape'
  <2>1. /\ head' = [v \in Versions |-> head'[v]]
        /\ \A v \in Versions : head'[v].counter \in Nat /\ head'[v].max \in 0 .. MaxBlocks
        /\ node' = [i \in Ids |-> [v \in Versions |-> node'[i][v]]]
        /\ \A i \in Ids, v \in Versions : IsImage(node'[i][v])
        /\ block' \in [Blocks -> [Versions -> 0 .. MaxStamp]]
        /\ todo' \subseteq Ids
        /\ todo' # {} <=> pc' = "nodes"
    BY <1>1 DEF Inv, TypeOK, Shape
  <2>2. pc' \in {"idle", "nodes", "head", "dummy", "record"}
    BY <1>1
  <2> QED
    BY <1>1, <1>3, <1>4, <1>5, <2>1, <2>2, Handle, HandleShape
<1>9. Left' = Left /\ Synced' = Synced
  BY <1>1, <1>5 DEF Left, Synced
<1>10. Good(c, T)'
  BY <1>1, <1>2, <1>4, GoodFrame
<1>11. LeftOK(T)'
  BY <1>2, <1>3, <1>5, <1>9, Handle DEF Update, LeftOK
<1>12. SyncedOK(c, T)'
  BY <1>2, <1>9 DEF SyncedOK
<1>13. ContentOK'
  <2>1. ASSUME NEW i \in DOMAIN ht.node
        PROVE  ht.node[i].tag <= stamp' /\ (Readable(ht.node, i))'
    <3>1. IsImage(ht.node[i]) /\ ht.node[i].tag <= stamp /\ Readable(ht.node, i)
      BY <1>2, <1>3, Handle DEF Update, ContentOK
    <3>2. ht.node[i].tag \in Int
      BY <3>1 DEF IsImage, ImageOK
    <3> QED
      BY <1>1, <1>4, <1>5, <3>1, <3>2 DEF Readable
  <2> QED
    BY <1>4, <1>5, <2>1 DEF ContentOK
<1>14. RootOK(c, T)'
  <2>1. head[c].meta \in 0 .. stamp
    BY <1>2 DEF Good
  <2>2. RootChanged(c, T)'
    BY <1>1, <1>4, <1>5, <2>1 DEF RootChanged
  <2> QED
    BY <1>2, <1>5, <1>9, <2>2 DEF RootOK
<1>15. Update(c, T)'
  <2>1. HeadIndex' = HeadIndex /\ (Committed' <=> Committed)
    BY <1>1 DEF HeadIndex, Committed
  <2> QED
    BY <1>1, <1>2, <1>5, <1>10, <1>11, <1>12, <1>13, <1>14, <2>1 DEF Update
<1>16. UpdateOK' /\ WrittenOK'
  BY <1>1, <1>15 DEF UpdateOK, WrittenOK, Versions
<1> QED
  BY <1>3, <1>4, <1>5, <1>6, <1>7, <1>8, <1>16 DEF Inv

\* The start of a sync.
LEMMA SyncStep ==
    ASSUME Inv, Sync
    PROVE  Inv' /\ Kept /\ pc # "closed" /\ pc' # "closed" /\ ht' = ht
<1>1. /\ pc = "idle" /\ ht.dirty /\ ht.counter < MaxCounter
      /\ pc' = "nodes" /\ todo' = DOMAIN ht.node
      /\ UNCHANGED <<mode, exists, head, node, block, ht, rec, stamp>>
  BY DEF Sync, disk
<1>2. PICK c, T :
                               /\ c \in Versions
                               /\ Update(c, T) /\ ht.counter # 0 /\ Good(c, T)
                               /\ Left = DOMAIN ht.node /\ Synced = {}
  BY <1>1, IdleUpdate
<1> c \in Versions
  BY <1>2
<1>3. pc # "closed" /\ pc' # "closed"
  BY <1>1
<1>4. stamp \in Nat /\ stamp' = stamp
  BY <1>1, <1>3, Handle
<1>6. Kept
  BY <1>1, <1>4, DiskSame DEF disk
<1>7. DiskOK'
  BY <1>1, <1>3, <1>6, Handle, DiskKept
<1>8. TypeOK' /\ Shape'
  <2>1. /\ head' = [v \in Versions |-> head'[v]]
        /\ \A v \in Versions : head'[v].counter \in Nat /\ head'[v].max \in 0 .. MaxBlocks
        /\ node' = [i \in Ids |-> [v \in Versions |-> node'[i][v]]]
        /\ \A i \in Ids, v \in Versions : IsImage(node'[i][v])
        /\ block' \in [Blocks -> [Versions -> 0 .. MaxStamp]]
    BY <1>1 DEF Inv, TypeOK, Shape
  <2>2. pc' \in {"idle", "nodes", "head", "dummy", "record"}
    BY <1>1
  <2>3. todo' \subseteq Ids /\ (todo' # {} <=> pc' = "nodes")
    BY <1>1, <1>3, Handle
  <2> QED
    BY <1>1, <1>3, <1>4, <2>1, <2>2, <2>3, Handle, HandleShape
<1>9. Left' = Left /\ Synced' = Synced
  BY <1>1, <1>2 DEF Left, Synced
<1>10. Good(c, T)'
  BY <1>1, <1>2, <1>4, GoodFrame
<1>11. LeftOK(T)'
  BY <1>1, <1>2, <1>9 DEF Update, LeftOK
<1>12. SyncedOK(c, T)'
  BY <1>2, <1>9 DEF SyncedOK
<1>13. ContentOK'
  BY <1>1, <1>2 DEF Update, ContentOK, Readable
<1>14. RootOK(c, T)'
  BY <1>1, <1>2, <1>9 DEF Update, RootOK, RootChanged
<1>15. Update(c, T)'
  <2>1. HeadIndex' = HeadIndex /\ (Committed' <=> Committed)
    BY <1>1 DEF HeadIndex, Committed
  <2>2. ht.dirtyNodes # {} /\ 1 \in todo'
    BY <1>1, <1>2, <1>3, Handle DEF Update
  <2> QED
    BY <1>1, <1>2, <1>10, <1>11, <1>12, <1>13, <1>14, <2>1, <2>2 DEF Update
<1>16. UpdateOK' /\ WrittenOK'
  BY <1>1, <1>15 DEF UpdateOK, WrittenOK, Versions
<1> QED
  BY <1>1, <1>3, <1>6, <1>7, <1>8, <1>16 DEF Inv

\* A block and its tag replaced in an image.
LEMMA ImageEdit ==
    ASSUME NEW n, IsImage(n), NEW w, NEW t
    PROVE  [n EXCEPT !.blk = w, !.tag = t]
              = [blk |-> w, kid |-> n.kid, tag |-> t, hash |-> n.hash]
<1>1. n = [f \in {"blk", "kid", "tag", "hash"} |-> n[f]]
  BY DEF IsImage
<1>2. [n EXCEPT !.blk = w, !.tag = t]
         = [f \in {"blk", "kid", "tag", "hash"} |->
              IF f = "blk" THEN w ELSE IF f = "tag" THEN t ELSE n[f]]
  BY <1>1
<1> QED
  BY <1>2

\* A block goes where the committed tree does not have it.
LEMMA WriteBlockStep ==
    ASSUME Inv, NEW b \in Blocks, WriteBlock(b)
    PROVE  /\ Inv' /\ Kept /\ pc # "closed" /\ pc' # "closed" /\ stamp' \in 0 .. MaxStamp
           /\ DOMAIN ht'.node = DOMAIN ht.node \cup {b + 1} /\ ht'.node[b + 1].tag = stamp'
           /\ \A j \in DOMAIN ht.node \ {b + 1} : ht'.node[j] = ht.node[j]
           /\ ht'.meta = ht.meta
<1> USE ConstantsAssumption DEF ConstantsAssumption
<1> DEFINE old == get_node(b + 1)
           w == BlockVersion(b + 1, old)
<1>0. PICK i : i = b + 1
  OBVIOUS
<1>1. /\ pc = "idle" /\ stamp < MaxStamp /\ i <= Cardinality(DOMAIN ht.node) + 1
      /\ stamp' = stamp + 1
      /\ block' = [block EXCEPT ![b][w] = stamp']
      /\ ht' = [ht EXCEPT
                    !.node = [j \in DOMAIN ht.node \cup {i} |->
                                IF j = i
                                THEN [old EXCEPT !.blk = w, !.tag = stamp']
                                ELSE ht.node[j]],
                    !.max = IF i \in DOMAIN ht.node THEN @ ELSE i,
                    !.dirtyNodes = @ \cup {i}, !.updated = @ \cup {i},
                    !.dirty = TRUE]
      /\ UNCHANGED <<mode, exists, head, node, pc, todo, rec>>
  BY <1>0 DEF WriteBlock
<1>2. PICK c, T :
                               /\ c \in Versions
                               /\ Update(c, T) /\ ht.counter # 0 /\ Good(c, T)
                               /\ Left = DOMAIN ht.node /\ Synced = {}
  BY <1>1, IdleUpdate
<1> c \in Versions
  BY <1>2
<1>3. pc # "closed" /\ pc' # "closed"
  BY <1>1
<1>4. stamp \in Nat /\ stamp' \in 0 .. MaxStamp /\ stamp' \in Nat /\ stamp <= stamp'
  BY <1>1, <1>3, Handle
<1>5. PICK n \in Nat : n > 0 /\ DOMAIN ht.node = 1 .. n
                       /\ n = (IF ht.max = 0 THEN 1 ELSE ht.max)
  BY <1>3, Handle
<1>6. i \in Ids /\ i \in 1 .. n + 1 /\ i - 1 = b /\ b \in Nat
  <2>1. Cardinality(1 .. n) = n
    BY <1>5, FS_Interval
  <2> QED
    BY <1>0, <1>1, <1>5, <2>1 DEF Blocks, Ids
<1>7. /\ IsImage(old) /\ (i \in DOMAIN ht.node => old = ht.node[i])
      /\ (i \notin DOMAIN ht.node => old = ZeroNode)
  <2>1. IsImage(ZeroNode)
    BY DEF IsImage, ImageOK, ZeroNode, Versions
  <2> QED
    BY <1>0, <1>3, <2>1, Handle DEF get_node
<1>8. w \in Versions /\ w = IF i \in ht.updated THEN old.blk ELSE 1 - old.blk
  BY <1>0, <1>7 DEF BlockVersion, IsImage, ImageOK, Versions
<1> HIDE DEF old, w
<1>9. PICK new : /\ new = [old EXCEPT !.blk = w, !.tag = stamp']
                 /\ new = [blk |-> w, kid |-> old.kid, tag |-> stamp', hash |-> old.hash]
  <2>1. [old EXCEPT !.blk = w, !.tag = stamp']
           = [blk |-> w, kid |-> old.kid, tag |-> stamp', hash |-> old.hash]
    BY <1>7, ImageEdit
  <2> QED
    BY <2>1
<1>10. IsImage(new) /\ new.blk = w /\ new.tag = stamp' /\ new.kid = old.kid
  BY <1>4, <1>7, <1>8, <1>9 DEF IsImage, ImageOK
<1>11. /\ ht'.node = [j \in DOMAIN ht.node \cup {i} |-> IF j = i THEN new ELSE ht.node[j]]
       /\ ht'.dirtyNodes = ht.dirtyNodes \cup {i} /\ ht'.updated = ht.updated \cup {i}
       /\ ht'.counter = ht.counter /\ ht'.meta = ht.meta
       /\ ht'.max = IF i \in DOMAIN ht.node THEN ht.max ELSE i
       /\ ht' = [f \in Fields |-> ht'[f]]
  <2> DEFINE N == [j \in DOMAIN ht.node \cup {i} |-> IF j = i THEN new ELSE ht.node[j]]
  <2>1. ht' = [ht EXCEPT !.node = N,
                         !.max = IF i \in DOMAIN ht.node THEN @ ELSE i,
                         !.dirtyNodes = @ \cup {i}, !.updated = @ \cup {i},
                         !.dirty = TRUE]
    BY <1>1, <1>9
  <2>2. ht = [f \in Fields |-> ht[f]]
    BY <1>3, Handle
  <2> HIDE DEF N
  <2>3. /\ ht'.node = N
        /\ ht'.dirtyNodes = ht.dirtyNodes \cup {i} /\ ht'.updated = ht.updated \cup {i}
        /\ ht'.counter = ht.counter /\ ht'.meta = ht.meta
        /\ ht'.max = IF i \in DOMAIN ht.node THEN ht.max ELSE i
        /\ ht' = [f \in Fields |-> ht'[f]]
    BY <2>1, <2>2 DEF Fields
  <2> QED
    BY <2>3 DEF N
<1>12. /\ DOMAIN ht'.node = DOMAIN ht.node \cup {i} /\ ht'.node[i] = new
       /\ \A j \in DOMAIN ht.node \ {i} : ht'.node[j] = ht.node[j]
  BY <1>11
<1>13. /\ block'[b][w] = stamp' /\ block'[b][1 - w] = block[b][1 - w]
       /\ \A d \in Blocks \ {b} : block'[d] = block[d]
       /\ block' \in [Blocks -> [Versions -> 0 .. MaxStamp]]
  <2>1. block \in [Blocks -> [Versions -> 0 .. MaxStamp]]
    BY DEF Inv, TypeOK
  <2> QED
    BY <1>1, <1>4, <1>8, <2>1 DEF Versions
<1>14. TypeOK' /\ Shape'
  <2>1. /\ head' = [v \in Versions |-> head'[v]]
        /\ \A v \in Versions : head'[v].counter \in Nat /\ head'[v].max \in 0 .. MaxBlocks
        /\ node' = [j \in Ids |-> [v \in Versions |-> node'[j][v]]]
        /\ \A j \in Ids, v \in Versions : IsImage(node'[j][v])
        /\ todo' \subseteq Ids
        /\ todo' # {} <=> pc' = "nodes"
    BY <1>1 DEF Inv, TypeOK, Shape
  <2>2. pc' \in {"idle", "nodes", "head", "dummy", "record"}
    BY <1>1
  <2>3. /\ ht'.max \in 0 .. MaxBlocks
        /\ DOMAIN ht'.node = 1 .. (IF ht'.max = 0 THEN 1 ELSE ht'.max)
    BY <1>3, <1>5, <1>6, <1>11, <1>12, Handle DEF Ids
  <2>4. /\ \A j \in DOMAIN ht'.node : IsImage(ht'.node[j])
        /\ ht'.node = [j \in DOMAIN ht'.node |-> ht'.node[j]]
    BY <1>3, <1>10, <1>11, <1>12, Handle
  <2>5. /\ ht'.updated \subseteq ht'.dirtyNodes
        /\ ht'.dirtyNodes \subseteq DOMAIN ht'.node
        /\ ht'.counter \in 0 .. MaxCounter
    BY <1>3, <1>11, <1>12, Handle
  <2> QED
    BY <1>1, <1>3, <1>4, <1>11, <1>13, <2>1, <2>2, <2>3, <2>4, <2>5, HandleShape
<1>15. DOMAIN T \subseteq DOMAIN ht.node
  BY <1>2 DEF Update, LeftOK
<1>16. ASSUME i \in DOMAIN T PROVE w = 1 - T[i].blk /\ T[i].blk \in Versions
  <2>1. i \in DOMAIN ht.node /\ IsImage(T[i]) /\ old = ht.node[i]
    BY <1>2, <1>7, <1>15, <1>16 DEF Good
  <2>2. ht.node[i].blk = IF i \in ht.updated THEN 1 - T[i].blk ELSE T[i].blk
    BY <1>2, <1>16, <2>1 DEF Update, LeftOK
  <2> QED
    BY <1>8, <2>1, <2>2 DEF IsImage, ImageOK, Versions
<1>17. Good(c, T)'
  <2>1. ASSUME NEW j \in DOMAIN T PROVE block'[j - 1][T[j].blk] = block[j - 1][T[j].blk]
    <3>1. CASE j = i
      <4>1. w = 1 - T[i].blk /\ T[i].blk \in Versions
        BY <1>16, <3>1
      <4>2. T[i].blk = 1 - w
        BY <4>1 DEF Versions
      <4> QED
        BY <1>6, <1>13, <3>1, <4>2
    <3>2. CASE j # i
      <4>0. j \in Ids
        BY <1>3, <1>15, Handle
      <4>1. j - 1 \in Blocks \ {b}
        BY <1>6, <3>2, <4>0 DEF Ids, Blocks
      <4> QED
        BY <1>13, <4>1
    <3> QED
      BY <3>1, <3>2
  <2> QED
    BY <1>1, <1>2, <1>4, <2>1, GoodFrame
<1>18. HeadIndex' = HeadIndex /\ (Committed' <=> Committed)
  BY <1>1 DEF HeadIndex, Committed
<1>19. Kept
  BY <1>1, <1>2, <1>17, <1>18, UpdateKept
<1>20. DiskOK'
  BY <1>1, <1>3, <1>19, Handle, DiskKept
<1>21. Left' = DOMAIN ht'.node /\ Synced' = {}
  BY <1>1 DEF Left, Synced
<1>22. LeftOK(T)'
  <2>1. \A j \in DOMAIN ht'.node : j > 1 => j \div 2 \in DOMAIN ht'.node
    BY <1>5, <1>6, <1>12
  <2>2. \A j \in DOMAIN ht'.node \ ht'.dirtyNodes : j \in DOMAIN T /\ ht'.node[j] = T[j]
    BY <1>2, <1>11, <1>12 DEF Update, LeftOK
  <2>3. ASSUME NEW j \in DOMAIN T
        PROVE  ht'.node[j].blk = IF j \in ht'.updated THEN 1 - T[j].blk ELSE T[j].blk
    <3>1. CASE j = i
      BY <1>10, <1>11, <1>12, <1>16, <3>1
    <3>2. CASE j # i
      BY <1>2, <1>11, <1>12, <1>15, <3>2 DEF Update, LeftOK
    <3> QED
      BY <3>1, <3>2
  <2>4. \A j \in DOMAIN T : ht'.node[j].kid = ht.node[j].kid
    BY <1>7, <1>10, <1>12, <1>15
  <2>5. ASSUME NEW j \in Ids, j > 1, j \div 2 \in DOMAIN T
        PROVE  ht'.node[j \div 2].kid[j % 2] = T[j \div 2].kid[j % 2]
    BY <1>2, <2>4, <2>5 DEF Update, LeftOK
  <2>6. ht'.dirtyNodes \subseteq DOMAIN ht'.node
    BY <1>3, <1>11, <1>12, Handle
  <2> QED
    BY <1>12, <1>15, <1>21, <2>1, <2>2, <2>3, <2>5, <2>6 DEF LeftOK
<1>23. SyncedOK(c, T)'
  BY <1>21 DEF SyncedOK
<1>24. ContentOK'
  <2>1. ASSUME NEW j \in DOMAIN ht'.node
        PROVE  ht'.node[j].tag <= stamp' /\ (Readable(ht.node, j))'
    <3>1. CASE j = i
      BY <1>4, <1>6, <1>10, <1>12, <1>13, <3>1 DEF Readable
    <3>2. CASE j # i
      <4>0. j \in DOMAIN ht.node /\ j \in Ids
        BY <1>3, <1>12, <3>2, Handle
      <4>1. j \in DOMAIN ht.node /\ ht'.node[j] = ht.node[j] /\ j - 1 \in Blocks \ {b}
        BY <1>6, <1>12, <3>2, <4>0 DEF Ids, Blocks
      <4>2. IsImage(ht.node[j]) /\ ht.node[j].tag <= stamp /\ Readable(ht.node, j)
        BY <1>2, <1>3, <4>1, Handle DEF Update, ContentOK
      <4>3. ht.node[j].tag \in Int
        BY <4>2 DEF IsImage, ImageOK
      <4> QED
        BY <1>4, <1>13, <4>1, <4>2, <4>3 DEF Readable
    <3> QED
      BY <3>1, <3>2
  <2>2. ht'.meta \in 0 .. stamp'
    BY <1>2, <1>4, <1>11 DEF Update, ContentOK
  <2> QED
    BY <2>1, <2>2 DEF ContentOK
<1>25. RootOK(c, T)'
  <2> SUFFICES ASSUME 1 \in DOMAIN T
               PROVE  IF 1 \in ht'.dirtyNodes THEN RootChanged(c, T)'
                      ELSE ht'.meta = head'[c].meta
    BY <1>21 DEF RootOK
  <2>1. CASE i = 1
    <3>1. IsImage(T[1]) /\ T[1].tag <= stamp
      BY <1>2 DEF Good
    <3>2. ht'.node[1].tag # T[1].tag
      BY <1>1, <1>4, <1>10, <1>12, <2>1, <3>1 DEF IsImage, ImageOK
    <3> QED
      BY <1>11, <2>1, <3>2 DEF RootChanged
  <2>2. CASE i # 1
    <3>1. ht'.node[1] = ht.node[1]
      BY <1>3, <1>12, <2>2, Handle
    <3>2. IF 1 \in ht.dirtyNodes THEN RootChanged(c, T) ELSE ht.meta = head[c].meta
      BY <1>2 DEF Update, RootOK
    <3>3. 1 \in ht'.dirtyNodes <=> 1 \in ht.dirtyNodes
      BY <1>11, <2>2
    <3> QED
      BY <1>1, <1>11, <3>1, <3>2, <3>3 DEF RootChanged
  <2> QED
    BY <2>1, <2>2
<1>26. Update(c, T)'
  <2>1. ht'.dirtyNodes # {}
    BY <1>11
  <2> QED
    BY <1>1, <1>2, <1>11, <1>17, <1>18, <1>22, <1>23, <1>24, <1>25, <2>1 DEF Update
<1>27. UpdateOK' /\ WrittenOK'
  BY <1>1, <1>26 DEF UpdateOK, WrittenOK, Versions
<1> QED
  BY <1>0, <1>3, <1>4, <1>10, <1>11, <1>12, <1>14, <1>19, <1>20, <1>27 DEF Inv

\* The header makes the new tree complete.  It is the one that is found from
\* here on in counter mode; with a hash the old one is still found.
LEMMA WriteHeadStep ==
    ASSUME Inv, WriteHead
    PROVE  /\ Inv' /\ pc # "closed" /\ pc' # "closed"
           /\ ht'.node = ht.node /\ ht'.meta = ht.meta
           /\ mode = "hash" => Kept
           /\ mode = "counter" => Stored' = [meta |-> ht.meta, block |-> Tags(ht.node)]
<1> USE ConstantsAssumption DEF ConstantsAssumption
<1>1. /\ pc = "head" /\ ht' = [update_root(ht) EXCEPT !.dirty = FALSE]
      /\ head' = [head EXCEPT ![ht'.counter % 2] = SealedHead(ht')]
      /\ pc' = IF Creating THEN "dummy" ELSE "record"
      /\ UNCHANGED <<mode, exists, node, block, todo, rec, stamp>>
  BY DEF WriteHead
<1>2. PICK c, T : c \in Versions /\ Update(c, T)
  BY <1>1 DEF Inv, UpdateOK
<1> c \in Versions
  BY <1>2
<1>3. pc # "closed" /\ pc' \in {"dummy", "record"} /\ pc' # "closed"
  BY <1>1
<1>4. /\ c = ht.counter % 2 /\ ht.counter \in Nat /\ ht.counter < MaxCounter
      /\ stamp \in Nat /\ stamp' = stamp
  BY <1>1, <1>2, <1>3, Handle DEF Update
<1>5. /\ ht'.node = ht.node /\ ht'.dirtyNodes = ht.dirtyNodes /\ ht'.updated = ht.updated
      /\ ht'.counter = ht.counter + 1 /\ ht'.max = ht.max /\ ht'.meta = ht.meta
      /\ ht' = [f \in Fields |-> ht'[f]]
  BY <1>1, <1>3, Handle DEF Fields, update_root
<1>6. ~ht'.dirty
  <2>1. update_root(ht) = [f \in Fields |-> update_root(ht)[f]]
    BY <1>3, Handle DEF update_root
  <2>2. ht'.dirty = FALSE
    BY <1>1, <2>1 DEF Fields
  <2> QED
    BY <2>2
<1>7. PICK v \in Versions : v = 1 - c
  BY DEF Versions
<1>8. v = ht'.counter % 2 /\ v # c
  BY <1>4, <1>5, <1>7 DEF Versions
<1>9. PICK N : N = ht.node
  OBVIOUS
<1>10. /\ head'[c] = head[c]
       /\ head'[v] = [counter |-> ht.counter + 1, max |-> ht.max, meta |-> ht.meta,
                      root |-> N[1].hash]
       /\ head' = [u \in Versions |-> head'[u]]
  <2>1. head = [u \in Versions |-> head[u]]
    BY DEF Inv, Shape
  <2>2. SealedHead(ht') = [counter |-> ht.counter + 1, max |-> ht.max, meta |-> ht.meta,
                           root |-> N[1].hash]
    BY <1>5, <1>9 DEF SealedHead
  <2> QED
    BY <1>1, <1>8, <2>1, <2>2
<1>11. /\ head'[v].counter = ht.counter + 1 /\ head'[v].max = ht.max
       /\ head'[v].meta = ht.meta /\ head'[v].root = N[1].hash
  BY <1>10
<1>12. todo = {} /\ Left = {} /\ Synced = DOMAIN ht.node
  BY <1>1 DEF Inv, TypeOK, Left, Synced
<1>13. ht.dirtyNodes = {}
  BY <1>2, <1>12 DEF Update, LeftOK
<1>14. Good(v, N)'
  <2>1. DOMAIN N = 1 .. Nodes(ht.max) /\ N = [i \in DOMAIN N |-> N[i]] /\ 1 \in DOMAIN N
    BY <1>3, <1>9, Handle DEF Nodes
  <2>2. ASSUME NEW i \in DOMAIN N
        PROVE  /\ IsImage(N[i])
               /\ N[i] = node[i][Version(N, v, i)]
               /\ N[i].hash = calc_node_hash(N, i, ht.meta)
               /\ N[i].tag <= stamp
               /\ Readable(N, i)
    <3>1. IsImage(N[i])
      BY <1>3, <1>9, Handle
    <3>2. /\ N[i] = node[i][Version(N, v, i)]
          /\ N[i].hash = calc_node_hash(N, i, ht.meta)
      BY <1>2, <1>7, <1>9, <1>12 DEF Update, SyncedOK
    <3>3. N[i].tag <= stamp /\ Readable(N, i)
      BY <1>2, <1>9 DEF Update, ContentOK
    <3> QED
      BY <3>1, <3>2, <3>3
  <2>3. ht.meta \in 0 .. stamp
    BY <1>2 DEF Update, ContentOK
  <2>4. ht.counter + 1 \in 1 .. MaxCounter /\ (ht.counter + 1) % 2 = v
    BY <1>4, <1>5, <1>8
  <2>5. N = [i \in 1 .. Nodes(ht.max) |-> N[i]]
    BY <2>1
  <2>6. ASSUME NEW i \in DOMAIN N
        PROVE  /\ IsImage(N[i])
               /\ N[i] = node'[i][Version(N, v, i)]
               /\ N[i].hash = calc_node_hash(N, i, head'[v].meta)
               /\ N[i].tag <= stamp'
               /\ N[i].tag = 0 \/ block'[i - 1][N[i].blk] = N[i].tag
    BY <1>1, <1>11, <2>2 DEF Readable
  <2>7. /\ N = [i \in 1 .. Nodes(head'[v].max) |-> N[i]]
        /\ head'[v].root = N[1].hash
        /\ head'[v].meta \in 0 .. stamp'
        /\ head'[v].counter \in 1 .. MaxCounter
        /\ head'[v].counter % 2 = v
    BY <1>1, <1>11, <2>3, <2>4, <2>5
  <2> QED
    BY <2>6, <2>7 DEF Good, Readable, Version, IsImage, ImageOK, calc_node_hash, Nodes
<1>15. ASSUME ht.counter # 0
       PROVE  Good(c, T) /\ Good(c, T)'
  <2>1. Good(c, T)
    BY <1>2, <1>15 DEF Update
  <2>2. node' = node /\ block' = block /\ head'[c] = head[c]
    BY <1>1, <1>10
  <2> QED
    BY <1>4, <2>1, <2>2, GoodFrame
<1>16. mode \in {"hash", "counter"} /\ mode' = mode /\ rec' = rec
  BY <1>1 DEF Inv, TypeOK
<1>17. ASSUME Committed PROVE ht.counter # 0 /\ HeadIndex = c
  BY <1>2, <1>17 DEF Update, EmptyFile, Blank, ZeroHead, Committed, Versions
<1>18. ASSUME mode = "hash"
       PROVE  Kept /\ DiskOK'
  <2>1. (Committed' <=> Committed) /\ HeadIndex' = HeadIndex /\ MinCounter' = MinCounter
    BY <1>1, <1>18 DEF Committed, HeadIndex, MinCounter
  <2>2. Kept
    BY <1>10, <1>15, <1>17, <2>1 DEF Kept
  <2>3. ASSUME Committed
        PROVE  \E u \in Versions : \E U :
                  (HeadIndex = u /\ head[u].counter >= MinCounter /\ Good(u, U))'
    <3>1. head[c].counter >= MinCounter
      BY <1>17, <2>3 DEF Inv, DiskOK
    <3> QED
      BY <1>10, <1>15, <1>17, <2>1, <2>3, <3>1
  <2> QED
    BY <1>16, <1>18, <2>1, <2>2, <2>3 DEF Inv, DiskOK
<1>19. ASSUME mode = "counter"
       PROVE  Committed' /\ HeadIndex' = v /\ DiskOK'
  <2>1. /\ head'[0].counter % 2 = 0 /\ head'[1].counter % 2 = 1
        /\ \/ head'[0].counter = head'[1].counter + 1
           \/ head'[1].counter = head'[0].counter + 1
        /\ head'[v].counter > head'[c].counter
        /\ head'[0].counter \in Nat /\ head'[1].counter \in Nat
    <3>1. head[c].counter = ht.counter
      BY <1>2, <1>4 DEF Update, Blank, ZeroHead
    <3>2. head'[c].counter = ht.counter /\ head'[v].counter = ht.counter + 1
      BY <1>10, <1>11, <3>1
    <3> QED
      BY <1>4, <1>7, <1>8, <3>2 DEF Versions
  <2>2. Committed'
    <3>1. N[1].hash # NoHash
      <4>1. 1 \in DOMAIN ht.node
        BY <1>3, Handle
      <4>2. N[1].hash = calc_node_hash(N, 1, ht.meta)
        BY <1>2, <1>9, <1>12, <4>1 DEF Update, SyncedOK
      <4> QED
        BY <4>2, HashReal
    <3>2. CASE v = 1
      BY <1>11, <1>16, <1>19, <3>1, <3>2 DEF Committed
    <3>3. CASE v = 0
      <4>1. c = 1 /\ ht.counter # 0
        BY <1>4, <1>7, <3>3 DEF Versions
      <4>2. Committed
        BY <1>2, <1>19, <4>1 DEF Update
      <4> QED
        BY <1>10, <1>16, <1>19, <4>1, <4>2 DEF Committed
    <3> QED
      BY <3>2, <3>3 DEF Versions
  <2>3. HeadIndex' = v
    <3>1. CASE v = 1
      BY <1>7, <1>16, <1>19, <2>1, <3>1 DEF HeadIndex, get_idx_from_counter, Versions
    <3>2. CASE v = 0
      BY <1>7, <1>16, <1>19, <2>1, <3>2 DEF HeadIndex, get_idx_from_counter, Versions
    <3> QED
      BY <3>1, <3>2 DEF Versions
  <2>4. head'[v].counter >= MinCounter'
    <3>1. MinCounter' = rec.nv /\ MinCounter = rec.nv /\ rec.nv \in Nat
      BY <1>16, <1>19 DEF MinCounter, Inv, Shape
    <3>2. CASE ht.counter = 0
      <4>1. ~rec.set
        BY <1>2, <3>2 DEF Update, EmptyFile
      <4>2. rec.nv = 0
        BY <1>19, <4>1 DEF Inv, DiskOK
      <4> QED
        BY <1>4, <1>11, <3>1, <4>2
    <3>3. CASE ht.counter # 0
      <4>1. Committed /\ head[c].counter = ht.counter /\ HeadIndex = c
        BY <1>2, <1>19, <3>3 DEF Update
      <4>2. head[c].counter >= rec.nv
        BY <3>1, <4>1 DEF Inv, DiskOK
      <4> QED
        BY <1>4, <1>11, <3>1, <4>1, <4>2
    <3> QED
      BY <3>2, <3>3
  <2>5. exists' /\ (~rec'.set => rec'.nv = 0)
    BY <1>1, <1>3, <1>16, <1>19, Handle DEF Inv, DiskOK
  <2>6. \E u \in Versions : \E U :
           (HeadIndex = u /\ head[u].counter >= MinCounter /\ Good(u, U))'
    BY <1>14, <2>3, <2>4
  <2> QED
    BY <2>1, <2>2, <2>3, <2>5, <2>6 DEF DiskOK, Versions
<1>20. TypeOK' /\ Shape'
  <2>1. /\ node' = [i \in Ids |-> [u \in Versions |-> node'[i][u]]]
        /\ \A i \in Ids, u \in Versions : IsImage(node'[i][u])
        /\ block' \in [Blocks -> [Versions -> 0 .. MaxStamp]]
    BY <1>1 DEF Inv, TypeOK, Shape
  <2>2. pc' \in {"idle", "nodes", "head", "dummy", "record"}
    BY <1>3
  <2>3. todo' \subseteq Ids /\ (todo' # {} <=> pc' = "nodes")
    BY <1>1, <1>3, <1>12
  <2>4. ASSUME NEW u \in Versions
        PROVE  head'[u].counter \in Nat /\ head'[u].max \in 0 .. MaxBlocks
    <3>1. CASE u = v
      BY <1>3, <1>4, <1>11, <3>1, Handle
    <3>2. CASE u = c
      BY <1>10, <3>2 DEF Inv, TypeOK, Shape
    <3> QED
      BY <1>7, <3>1, <3>2 DEF Versions
  <2>5. ht'.counter \in 0 .. MaxCounter
    BY <1>4, <1>5
  <2> QED
    <3>1. /\ ht.max \in 0 .. MaxBlocks
          /\ DOMAIN ht.node = 1 .. (IF ht.max = 0 THEN 1 ELSE ht.max)
          /\ ht.node = [i \in DOMAIN ht.node |-> ht.node[i]]
          /\ \A i \in DOMAIN ht.node : IsImage(ht.node[i])
          /\ ht.updated \subseteq ht.dirtyNodes
          /\ ht.dirtyNodes \subseteq DOMAIN ht.node
          /\ stamp' \in 0 .. MaxStamp
      BY <1>3, <1>4, Handle
    <3>2. /\ ht'.max \in 0 .. MaxBlocks
          /\ DOMAIN ht'.node = 1 .. (IF ht'.max = 0 THEN 1 ELSE ht'.max)
          /\ ht'.node = [i \in DOMAIN ht'.node |-> ht'.node[i]]
          /\ \A i \in DOMAIN ht'.node : IsImage(ht'.node[i])
          /\ ht'.updated \subseteq ht'.dirtyNodes
          /\ ht'.dirtyNodes \subseteq DOMAIN ht'.node
      BY <1>5, <3>1
    <3>3. UNCHANGED <<mode, exists, rec>>
      BY <1>1
    <3> QED
      BY <1>3, <1>5, <1>10, <2>1, <2>2, <2>3, <2>4, <2>5, <3>1, <3>2, <3>3, HandleShape, Zenon
<1>21. Written(v, N)'
  <2>1. pc' = "dummy" => (EmptyFile /\ ht.counter = 1 /\ head[0] = ZeroHead(0))'
    <3> SUFFICES ASSUME pc' = "dummy"
                 PROVE  (EmptyFile /\ ht.counter = 1 /\ head[0] = ZeroHead(0))'
      OBVIOUS
    <3>1. ht.counter = 0
      BY <1>1 DEF Creating
    <3>2. EmptyFile /\ c = 0 /\ head[0] = ZeroHead(0)
      BY <1>2, <1>4, <3>1 DEF Update, Blank, Versions
    <3> QED
      BY <1>5, <1>10, <1>16, <3>1, <3>2 DEF EmptyFile, ZeroHead
  <2>2. pc' = "record" => node'[1][0].hash # node'[1][1].hash
    <3> SUFFICES ASSUME pc' = "record"
                 PROVE  node'[1][0].hash # node'[1][1].hash
      OBVIOUS
    <3>1. ht.counter # 0
      BY <1>1 DEF Creating
    <3>2. DOMAIN T = 1 .. Nodes(head[c].max) /\ head[c].max \in Nat
      BY <1>15, <3>1 DEF Good, Inv, TypeOK
    <3>3. 1 \in DOMAIN T
      BY <3>2 DEF Nodes
    <3>4. T[1] = node[1][c]
      BY <1>15, <3>1, <3>3 DEF Good, Version
    <3>5. 1 \in Synced
      BY <1>3, <1>12, Handle
    <3>6. N[1] = node[1][v]
      BY <1>2, <1>7, <1>9, <3>5 DEF Update, SyncedOK, Version
    <3>7. N[1].hash # T[1].hash
      BY <1>2, <1>9, <3>3, <3>5 DEF Update, RootOK
    <3> QED
      BY <1>1, <1>7, <3>4, <3>6, <3>7 DEF Versions
  <2> QED
    BY <1>5, <1>6, <1>8, <1>9, <1>11, <1>13, <1>14, <1>16, <1>19, <2>1, <2>2 DEF Written
<1>22. Inv'
  <2>1. DiskOK'
    BY <1>16, <1>18, <1>19
  <2>2. UpdateOK' /\ WrittenOK'
    BY <1>3, <1>21 DEF UpdateOK, WrittenOK, Versions
  <2> QED
    BY <1>20, <2>1, <2>2 DEF Inv
<1>23. ASSUME mode = "counter"
       PROVE  Stored' = [meta |-> ht.meta, block |-> Tags(ht.node)]
  <2>1. Stored' = Commit(v, N)'
    BY <1>14, <1>19, <1>22, <1>23, StoredIsNext DEF StoredFact, Versions
  <2> QED
    BY <1>9, <1>11, <2>1 DEF Commit, Tags
<1> QED
  BY <1>3, <1>5, <1>18, <1>22, <1>23

-----------------------------------------------------------------------------
(* The visit of one node.                                                  *)

\* Two trees that agree on a node and on the hashes of its children.
LEMMA CalcSame ==
    ASSUME NEW A, NEW B, NEW i \in Nat \ {0}, NEW m1, NEW m2,
           A[i].blk = B[i].blk, A[i].kid = B[i].kid, A[i].tag = B[i].tag,
           \A j \in {2 * i, 2 * i + 1} : j \in DOMAIN A <=> j \in DOMAIN B,
           \A j \in {2 * i, 2 * i + 1} : j \in DOMAIN A => A[j].hash = B[j].hash,
           i = 1 => m1 = m2
    PROVE  calc_node_hash(A, i, m1) = calc_node_hash(B, i, m2)
<1>1. {2 * i, 2 * i + 1} \cap DOMAIN A = {2 * i, 2 * i + 1} \cap DOMAIN B
  OBVIOUS
<1>2. [j \in {2 * i, 2 * i + 1} \cap DOMAIN A |-> A[j].hash]
         = [j \in {2 * i, 2 * i + 1} \cap DOMAIN B |-> B[j].hash]
  BY <1>1
<1>3. (IF i = 1 THEN m1 ELSE 0) = (IF i = 1 THEN m2 ELSE 0)
  OBVIOUS
<1> QED
  BY <1>2, <1>3 DEF calc_node_hash

\* N is tree H with a new hash in node i and the flag of i in its parent
\* flipped; t has the flag flipped only.
EditedTree(H, t, i, m, N) ==
    /\ DOMAIN N = DOMAIN H /\ N = [j \in DOMAIN N |-> N[j]]
    /\ \A j \in DOMAIN N : IsImage(N[j])
    /\ N[i] = [t[i] EXCEPT !.hash = calc_node_hash(t, i, m)]
    /\ N[i].blk = H[i].blk /\ N[i].kid = H[i].kid /\ N[i].tag = H[i].tag
    /\ N[i].hash = calc_node_hash(N, i, m)
    /\ \A j \in DOMAIN H : j # i => N[j] = t[j]
    /\ \A j \in DOMAIN H : j # i /\ (i > 1 => j # i \div 2) => N[j] = H[j]
    /\ \A j \in DOMAIN H : /\ N[j].blk = H[j].blk /\ N[j].tag = H[j].tag
                           /\ j # i => N[j].hash = H[j].hash
    /\ i > 1 => /\ N[i \div 2].kid[i % 2] = 1 - H[i \div 2].kid[i % 2]
                /\ \A k \in Versions \ {i % 2} :
                      N[i \div 2].kid[k] = H[i \div 2].kid[k]

\* The tree that SyncDirtyNode(i) leaves in memory: node i has its new hash,
\* and the flag of i in its parent is flipped.
LEMMA Edited ==
    ASSUME NEW H, H = ht.node, H = [j \in DOMAIN H |-> H[j]], NEW i \in DOMAIN H,
           DOMAIN H \subseteq Nat \ {0}, \A j \in DOMAIN H : IsImage(H[j]),
           i > 1 => i \div 2 \in DOMAIN H,
           NEW t, t = Flipped(i), NEW m, NEW N,
           N = [t EXCEPT ![i] = [t[i] EXCEPT !.hash = calc_node_hash(t, i, m)]]
    PROVE  EditedTree(H, t, i, m, N)
<1>1. i \in Nat /\ i > 0 /\ (i > 1 => i \div 2 # i /\ i % 2 \in Versions)
  BY Family
<1>2. /\ DOMAIN t = DOMAIN H /\ t = [j \in DOMAIN H |-> t[j]]
      /\ \A j \in DOMAIN H : (i > 1 => j # i \div 2) => t[j] = H[j]
  BY <1>1 DEF Flipped
<1>3. ASSUME i > 1
      PROVE  /\ t[i \div 2].kid[i % 2] = 1 - H[i \div 2].kid[i % 2]
             /\ \A k \in Versions \ {i % 2} : t[i \div 2].kid[k] = H[i \div 2].kid[k]
             /\ t[i \div 2].blk = H[i \div 2].blk /\ t[i \div 2].tag = H[i \div 2].tag
             /\ t[i \div 2].hash = H[i \div 2].hash
             /\ IsImage(t[i \div 2])
  <2>1. PICK p \in DOMAIN H, k \in Versions : p = i \div 2 /\ k = i % 2
    BY <1>1, <1>3
  <2>2. t = [H EXCEPT ![p].kid[k] = 1 - @]
    BY <1>1, <1>3, <2>1 DEF Flipped
  <2>3. PICK P : P = H[p]
    OBVIOUS
  <2>4. t[p] = [P EXCEPT !.kid = [P.kid EXCEPT ![k] = 1 - P.kid[k]]]
    BY <2>1, <2>2, <2>3
  <2>5. IsImage(P)
    BY <2>1, <2>3
  <2>6. PICK K : K = [P.kid EXCEPT ![k] = 1 - P.kid[k]]
    OBVIOUS
  <2>7. /\ K \in [Versions -> Versions] /\ K[k] = 1 - P.kid[k]
        /\ \A l \in Versions \ {k} : K[l] = P.kid[l]
    BY <2>1, <2>5, <2>6 DEF IsImage, ImageOK, Versions
  <2>8. t[p] = [blk |-> P.blk, kid |-> K, tag |-> P.tag, hash |-> P.hash]
    <3>1. P = [f \in {"blk", "kid", "tag", "hash"} |-> P[f]]
      BY <2>5 DEF IsImage
    <3>2. t[p] = [f \in {"blk", "kid", "tag", "hash"} |-> IF f = "kid" THEN K ELSE P[f]]
      BY <2>4, <2>6, <3>1
    <3> QED
      BY <3>2
  <2>9. IsImage(t[p])
    BY <2>5, <2>7, <2>8 DEF IsImage, ImageOK
  <2> QED
    BY <2>1, <2>3, <2>7, <2>8, <2>9
<1>4. t[i] = H[i]
  BY <1>1, <1>2
<1>5. PICK h : h = calc_node_hash(t, i, m)
  OBVIOUS
<1>6. PICK I : I = [t[i] EXCEPT !.hash = h]
  OBVIOUS
<1>7. /\ I.blk = H[i].blk /\ I.kid = H[i].kid /\ I.tag = H[i].tag /\ I.hash = h
      /\ IsImage(I)
  <2>1. PICK P : P = H[i] /\ IsImage(P)
    OBVIOUS
  <2>2. P = [f \in {"blk", "kid", "tag", "hash"} |-> P[f]]
    BY <2>1 DEF IsImage
  <2>3. I = [f \in {"blk", "kid", "tag", "hash"} |-> IF f = "hash" THEN h ELSE P[f]]
    BY <1>4, <1>6, <2>1, <2>2
  <2>4. I = [blk |-> P.blk, kid |-> P.kid, tag |-> P.tag, hash |-> h]
    BY <2>3
  <2> QED
    BY <2>1, <2>4 DEF IsImage, ImageOK
<1>8. /\ DOMAIN N = DOMAIN H /\ N[i] = I /\ N = [j \in DOMAIN N |-> N[j]]
      /\ \A j \in DOMAIN H : j # i => N[j] = t[j]
  BY <1>2, <1>5, <1>6
<1>9. calc_node_hash(N, i, m) = h
  <2>1. \A j \in {2 * i, 2 * i + 1} : j # i
    BY <1>1
  <2>2. calc_node_hash(N, i, m) = calc_node_hash(t, i, m)
    <3>1. N[i].blk = t[i].blk /\ N[i].kid = t[i].kid /\ N[i].tag = t[i].tag
      BY <1>4, <1>7, <1>8
    <3>2. /\ \A j \in {2 * i, 2 * i + 1} : j \in DOMAIN N <=> j \in DOMAIN t
          /\ \A j \in {2 * i, 2 * i + 1} : j \in DOMAIN N => N[j].hash = t[j].hash
      BY <1>2, <1>8, <2>1
    <3>3. {2 * i, 2 * i + 1} \cap DOMAIN N = {2 * i, 2 * i + 1} \cap DOMAIN t
      BY <1>2, <1>8
    <3>4. [j \in {2 * i, 2 * i + 1} \cap DOMAIN N |-> N[j].hash]
             = [j \in {2 * i, 2 * i + 1} \cap DOMAIN t |-> t[j].hash]
      BY <3>2, <3>3
    <3> QED
      BY <3>1, <3>4, Zenon DEF calc_node_hash
  <2> QED
    BY <1>5, <2>2
<1>10. \A j \in DOMAIN N : IsImage(N[j])
  <2> SUFFICES ASSUME NEW j \in DOMAIN N PROVE IsImage(N[j])
    OBVIOUS
  <2>1. CASE j = i
    BY <1>7, <1>8, <2>1
  <2>2. CASE j # i /\ i > 1 /\ j = i \div 2
    BY <1>3, <1>8, <2>2
  <2>3. CASE j # i /\ (i > 1 => j # i \div 2)
    <3>1. N[j] = H[j] /\ j \in DOMAIN H
      BY <1>2, <1>8, <2>3
    <3> QED
      BY <3>1
  <2> QED
    BY <2>1, <2>2, <2>3
<1>11. \A j \in DOMAIN H : j # i /\ (i > 1 => j # i \div 2) => N[j] = H[j]
  BY <1>2, <1>8
<1>12. \A j \in DOMAIN H : /\ N[j].blk = H[j].blk /\ N[j].tag = H[j].tag
                           /\ j # i => N[j].hash = H[j].hash
  BY <1>2, <1>3, <1>7, <1>8
<1>13. i > 1 => /\ N[i \div 2].kid[i % 2] = 1 - H[i \div 2].kid[i % 2]
                /\ \A k \in Versions \ {i % 2} :
                      N[i \div 2].kid[k] = H[i \div 2].kid[k]
  BY <1>1, <1>3, <1>8
<1> QED
  BY <1>5, <1>6, <1>7, <1>8, <1>9, <1>10, <1>11, <1>12, <1>13 DEF EditedTree

\* The node to visit, its parent and what is left.
LEMMA Visit ==
    ASSUME Inv, pc = "nodes", NEW c \in Versions, NEW T, Update(c, T)
    PROVE  /\ NextNode \in todo /\ NextNode \in Nat \ {0}
           /\ Left = todo /\ todo \subseteq DOMAIN ht.node /\ todo \subseteq Ids
           /\ \A j \in todo : j > 1 => j \div 2 \in todo /\ j \div 2 # NextNode
           /\ NextNode = 1 => todo = {1} /\ 1 \in ht.dirtyNodes
           /\ NextNode > 1 => 1 \in todo \ {NextNode}
<1> USE ConstantsAssumption DEF ConstantsAssumption
<1>1. todo \subseteq Ids /\ 1 \in todo /\ Left = todo /\ ht.dirtyNodes # {}
  BY DEF Inv, TypeOK, Update, Left
<1>2. /\ NextNode \in todo
      /\ 2 * NextNode \notin todo /\ 2 * NextNode + 1 \notin todo
  BY <1>1, NextNodeLeft
<1>3. PICK i : i = NextNode
  OBVIOUS
<1>4. i \in Nat \ {0} /\ i \in todo
  BY <1>1, <1>2, <1>3 DEF Ids
<1>5. todo \subseteq DOMAIN ht.node
  BY <1>1 DEF Update, LeftOK, Inv, TypeOK
<1>6. ASSUME NEW j \in todo, j > 1 PROVE j \div 2 \in todo /\ j \div 2 # i
  <2>1. j \div 2 \in todo
    BY <1>1, <1>6 DEF Update, LeftOK
  <2>2. j \in Nat
    BY <1>1 DEF Ids
  <2>3. j \div 2 = i => j \in {2 * i, 2 * i + 1}
    BY <1>4, <2>2, Family
  <2> QED
    BY <1>2, <1>3, <2>1, <2>3
<1>7. ASSUME i = 1 PROVE todo = {1} /\ 1 \in ht.dirtyNodes
  <2>1. todo \subseteq Nat \ {0} /\ 2 \notin todo /\ 3 \notin todo
    BY <1>1, <1>2, <1>3, <1>7 DEF Ids
  <2>2. todo \subseteq {1}
    BY <1>6, <2>1, RootIsLast
  <2>3. ht.dirtyNodes \subseteq todo
    BY <1>1 DEF Update, LeftOK
  <2> QED
    BY <1>1, <2>2, <2>3
<1> QED
  BY <1>1, <1>3, <1>4, <1>5, <1>6, <1>7

\* A clean node is on disk already, where the flag in its parent says.
LEMMA CleanVisit ==
    ASSUME Inv, pc = "nodes", NEW c \in Versions, NEW T, Update(c, T),
           NEW i, i = NextNode, i \notin ht.dirtyNodes,
           UNCHANGED <<mode, exists, head, node, block, ht, rec, stamp>>,
           todo' = todo \ {i}, pc' = IF todo' = {} THEN "head" ELSE "nodes"
    PROVE  Update(c, T)' /\ Kept
<1>1. /\ i \in todo /\ i \in Nat \ {0} /\ i # 1
      /\ Left = todo /\ todo \subseteq DOMAIN ht.node /\ todo \subseteq Ids
      /\ \A j \in todo : j > 1 => j \div 2 \in todo /\ j \div 2 # i
      /\ 1 \in todo \ {i}
  BY Visit
<1>2. i > 1 /\ pc' = "nodes"
  BY <1>1
<1>3. Left' = todo \ {i} /\ Synced' = Synced \cup {i}
  BY <1>1, <1>2 DEF Left, Synced
<1>4. pc # "closed" /\ stamp \in Nat
  BY Handle
<1>5. i \in DOMAIN T /\ ht.node[i] = T[i] /\ DOMAIN T \subseteq DOMAIN ht.node
  BY <1>1 DEF Update, LeftOK
<1>6. T # <<>>
  BY <1>5
<1>7. Good(c, T)
  BY <1>6 DEF Update
<1>8. Good(c, T)'
  BY <1>4, <1>7, GoodFrame
<1>9. LeftOK(T)'
  BY <1>1, <1>3 DEF Update, LeftOK
<1>10. /\ ht.node[i] = node[i][Version(ht.node, 1 - c, i)]
       /\ ht.node[i].hash = calc_node_hash(ht.node, i, ht.meta)
  <2>1. T[i] = node[i][Version(T, c, i)] /\ T[i].hash = calc_node_hash(T, i, head[c].meta)
    BY <1>5, <1>7 DEF Good
  <2>2. i \div 2 \in DOMAIN T
    <3>1. DOMAIN T = 1 .. Nodes(head[c].max) /\ Nodes(head[c].max) \in Nat
      BY <1>7 DEF Good, Inv, TypeOK, Nodes
    <3> QED
      BY <1>2, <1>5, <3>1
  <2>3. ht.node[i \div 2].kid[i % 2] = T[i \div 2].kid[i % 2]
    <3>1. i \in Ids \ Synced
      BY <1>1 DEF Synced
    <3> QED
      BY <1>2, <2>2, <3>1 DEF Update, LeftOK
  <2>4. ASSUME NEW j \in {2 * i, 2 * i + 1}
        PROVE  /\ j \in DOMAIN ht.node <=> j \in DOMAIN T
               /\ j \in DOMAIN ht.node => ht.node[j].hash = T[j].hash
    <3>1. j \in Nat /\ j > 1 /\ j \div 2 = i
      BY <1>1
    <3>2. ASSUME j \in DOMAIN ht.node PROVE j \in DOMAIN T /\ ht.node[j] = T[j]
      <4>1. j \in Synced
        BY <1>1, <3>1, <3>2 DEF Synced
      <4>2. i \notin ht.dirtyNodes \cup Synced
        BY <1>1 DEF Synced
      <4> QED
        BY <3>1, <4>1, <4>2 DEF Update, SyncedOK
    <3> QED
      BY <1>5, <3>2
  <2>5. calc_node_hash(ht.node, i, ht.meta) = calc_node_hash(T, i, head[c].meta)
    BY <1>1, <1>5, <2>4, CalcSame
  <2> QED
    BY <1>1, <1>5, <2>1, <2>3, <2>5 DEF Version
<1>11. SyncedOK(c, T)'
  <2>1. ASSUME NEW j \in Synced \cup {i}
        PROVE  /\ ht.node[j] = node[j][Version(ht.node, 1 - c, j)]
               /\ ht.node[j].hash = calc_node_hash(ht.node, j, ht.meta)
               /\ \/ j = 1
                  \/ j \in DOMAIN T /\ ht.node[j] = T[j]
                  \/ j \div 2 \in ht.dirtyNodes \cup Synced
    BY <1>5, <1>10 DEF Update, SyncedOK
  <2>2. ASSUME NEW j \in Synced'
        PROVE  /\ ht'.node[j] = node'[j][Version(ht'.node, 1 - c, j)]
               /\ ht'.node[j].hash = calc_node_hash(ht'.node, j, ht'.meta)
               /\ \/ j = 1
                  \/ j \in DOMAIN T /\ ht'.node[j] = T[j]
                  \/ j \div 2 \in ht'.dirtyNodes \cup Synced'
    BY <1>3, <2>1
  <2> QED
    BY <2>2 DEF SyncedOK, Version, calc_node_hash
<1>12. ContentOK'
  BY DEF Update, ContentOK, Readable
<1>13. RootOK(c, T)'
  <2>1. 1 \in Synced' <=> 1 \in Synced
    BY <1>1, <1>3
  <2> QED
    BY <2>1 DEF Update, RootOK, RootChanged
<1>14. HeadIndex' = HeadIndex /\ (Committed' <=> Committed)
  BY DEF HeadIndex, Committed
<1>15. Kept
  BY <1>8, <1>14, UpdateKept
<1>16. Update(c, T)'
  <2>1. ht.counter # 0
    BY <1>6 DEF Update
  <2> QED
    BY <1>1, <1>2, <1>8, <1>9, <1>11, <1>12, <1>13, <1>14, <2>1 DEF Update
<1> QED
  BY <1>15, <1>16

\* A dirty node goes to the version that the committed tree does not use.
LEMMA DirtyVisit ==
    ASSUME Inv, pc = "nodes", NEW c \in Versions, NEW T, Update(c, T),
           NEW i, i = NextNode, i \in ht.dirtyNodes, SyncDirtyNode(i),
           UNCHANGED <<mode, exists, head, block, rec, stamp>>,
           todo' = todo \ {i}, pc' = IF todo' = {} THEN "head" ELSE "nodes"
    PROVE  /\ Update(c, T)' /\ Kept
           /\ ht'.meta = ht.meta /\ ht'.max = ht.max /\ ht'.counter = ht.counter
           /\ ht' = [f \in Fields |-> ht'[f]]
           /\ ht'.updated \subseteq ht'.dirtyNodes
           /\ ht'.dirtyNodes \subseteq DOMAIN ht.node
           /\ DOMAIN ht'.node = DOMAIN ht.node
           /\ ht'.node = [j \in DOMAIN ht'.node |-> ht'.node[j]]
           /\ \A j \in DOMAIN ht.node : /\ IsImage(ht'.node[j])
                                        /\ ht'.node[j].tag = ht.node[j].tag
           /\ node' = [j \in Ids |-> [v \in Versions |-> node'[j][v]]]
           /\ \A j \in Ids, v \in Versions : IsImage(node'[j][v])
<1>1. /\ i \in todo /\ i \in Nat \ {0}
      /\ Left = todo /\ todo \subseteq DOMAIN ht.node /\ todo \subseteq Ids
      /\ \A j \in todo : j > 1 => j \div 2 \in todo /\ j \div 2 # i
      /\ i = 1 => todo = {1}
      /\ i > 1 => 1 \in todo \ {i}
  BY Visit
<1>2. /\ pc # "closed" /\ stamp \in Nat /\ stamp' = stamp /\ pc' # "idle"
      /\ ht = [f \in Fields |-> ht[f]] /\ DOMAIN ht.node \subseteq Ids
      /\ ht.updated \subseteq ht.dirtyNodes /\ ht.dirtyNodes \subseteq DOMAIN ht.node
      /\ i \in DOMAIN ht.node
  BY <1>1, Handle
<1>3. PICK H : /\ H = ht.node /\ H = [j \in DOMAIN H |-> H[j]]
               /\ \A j \in DOMAIN H : IsImage(H[j])
  BY <1>2, Handle
<1>4. i > 1 => i \div 2 \in todo /\ i \div 2 \in DOMAIN H /\ i \div 2 # i
  BY <1>1, <1>3
<1>5. PICK t : t = Flipped(i)
  OBVIOUS
<1>6. PICK N : N = [t EXCEPT ![i] = [t[i] EXCEPT !.hash = calc_node_hash(t, i, ht.meta)]]
  OBVIOUS
<1>7. PICK m : m = ht.meta
  OBVIOUS
<1>8. /\ DOMAIN N = DOMAIN H /\ N = [j \in DOMAIN N |-> N[j]]
      /\ \A j \in DOMAIN N : IsImage(N[j])
      /\ N[i] = [t[i] EXCEPT !.hash = calc_node_hash(t, i, m)]
      /\ N[i].blk = H[i].blk /\ N[i].kid = H[i].kid /\ N[i].tag = H[i].tag
      /\ N[i].hash = calc_node_hash(N, i, m)
      /\ \A j \in DOMAIN H : j # i => N[j] = t[j]
      /\ \A j \in DOMAIN H : j # i /\ (i > 1 => j # i \div 2) => N[j] = H[j]
      /\ \A j \in DOMAIN H : /\ N[j].blk = H[j].blk /\ N[j].tag = H[j].tag
                             /\ j # i => N[j].hash = H[j].hash
      /\ i > 1 => /\ N[i \div 2].kid[i % 2] = 1 - H[i \div 2].kid[i % 2]
                  /\ \A k \in Versions \ {i % 2} :
                        N[i \div 2].kid[k] = H[i \div 2].kid[k]
  <2>1. DOMAIN H \subseteq Nat \ {0} /\ i \in DOMAIN H
    BY <1>2, <1>3 DEF Ids
  <2>2. N = [t EXCEPT ![i] = [t[i] EXCEPT !.hash = calc_node_hash(t, i, m)]]
    BY <1>6, <1>7
  <2>3. i > 1 => i \div 2 \in DOMAIN H
    BY <1>4
  <2>4. H = ht.node /\ H = [j \in DOMAIN H |-> H[j]] /\ \A j \in DOMAIN H : IsImage(H[j])
    BY <1>3
  <2>5. EditedTree(H, t, i, m, N)
    BY <1>5, <2>1, <2>2, <2>3, <2>4, Edited, Zenon
  <2> QED
    BY <2>5 DEF EditedTree
<1>9. PICK u : u = Version(N, 1 - c, i)
  OBVIOUS
<1>10. /\ ht' = [ht EXCEPT !.node = N, !.dirtyNodes = (@ \ {i}) \cup ({i \div 2} \ {0}),
                           !.updated = @ \ {i}]
       /\ node' = [node EXCEPT ![i][u] = N[i]]
  <2>1. NodeVersion(t, i) = u
    <3>1. i > 1 => t[i \div 2] = N[i \div 2]
      BY <1>4, <1>8
    <3>2. c = ht.counter % 2
      BY DEF Update
    <3> QED
      BY <1>1, <1>9, <3>1, <3>2 DEF NodeVersion, Version
  <2>2. N[i] = [t[i] EXCEPT !.hash = calc_node_hash(t, i, ht.meta)]
    BY <1>7, <1>8
  <2> QED
    BY <1>5, <1>6, <2>1, <2>2, Zenon DEF SyncDirtyNode
<1>11. /\ ht'.node = N /\ ht'.updated = ht.updated \ {i}
       /\ ht'.dirtyNodes = (ht.dirtyNodes \ {i}) \cup ({i \div 2} \ {0})
       /\ ht'.meta = m /\ ht'.meta = ht.meta /\ ht'.max = ht.max /\ ht'.counter = ht.counter
       /\ ht' = [f \in Fields |-> ht'[f]]
  BY <1>2, <1>7, <1>10 DEF Fields
<1>12. /\ i > 1 => ht'.dirtyNodes = (ht.dirtyNodes \ {i}) \cup {i \div 2}
       /\ i = 1 => ht'.dirtyNodes = ht.dirtyNodes \ {i}
  <2>1. i > 1 => i \div 2 # 0
    BY <1>1
  <2>2. i = 1 => i \div 2 = 0
    OBVIOUS
  <2> QED
    BY <1>11, <2>1, <2>2
<1>13. /\ i > 1 => i % 2 \in Versions /\ H[i \div 2].kid[i % 2] \in Versions
       /\ u \in Versions
       /\ i > 1 => u = 1 - H[i \div 2].kid[i % 2]
       /\ i = 1 => u = 1 - c
  <2>1. CASE i = 1
    BY <1>9, <2>1 DEF Version, Versions
  <2>2. CASE i > 1
    <3>1. i % 2 \in Versions /\ IsImage(H[i \div 2])
      BY <1>1, <1>3, <1>4, <2>2, Family
    <3>2. H[i \div 2].kid[i % 2] \in Versions
      BY <3>1 DEF IsImage, ImageOK
    <3>3. u = 1 - H[i \div 2].kid[i % 2]
      BY <1>8, <1>9, <2>2 DEF Version
    <3> QED
      BY <2>2, <3>1, <3>2, <3>3 DEF Versions
  <2> QED
    BY <1>1, <2>1, <2>2
<1>14. /\ node'[i][u] = N[i] /\ node'[i][1 - u] = node[i][1 - u]
       /\ \A j \in Ids : j # i => node'[j] = node[j]
       /\ node' = [j \in Ids |-> [v \in Versions |-> node'[j][v]]]
       /\ \A j \in Ids, v \in Versions : IsImage(node'[j][v])
  <2>1. /\ node = [j \in Ids |-> [v \in Versions |-> node[j][v]]]
        /\ \A j \in Ids, v \in Versions : IsImage(node[j][v])
    BY DEF Inv, Shape
  <2>2. i \in Ids /\ IsImage(N[i])
    BY <1>1, <1>2, <1>3, <1>8
  <2>3. /\ node'[i][u] = N[i] /\ node'[i][1 - u] = node[i][1 - u]
        /\ \A j \in Ids : j # i => node'[j] = node[j]
        /\ \A v \in Versions : v # u => node'[i][v] = node[i][v]
    BY <1>10, <1>13, <2>1, <2>2 DEF Versions
  <2>4. node' = [j \in Ids |-> [v \in Versions |-> node'[j][v]]]
    BY <1>10, <1>13, <2>1, <2>2
  <2>5. ASSUME NEW j \in Ids, NEW v \in Versions PROVE IsImage(node'[j][v])
    <3>1. CASE j = i /\ v = u
      BY <2>2, <2>3, <3>1
    <3>2. CASE ~(j = i /\ v = u)
      <4>1. node'[j][v] = node[j][v]
        BY <2>3, <3>2
      <4> QED
        BY <2>1, <4>1
    <3> QED
      BY <3>1, <3>2
  <2> QED
    BY <2>3, <2>4, <2>5
<1>15. Left' = todo \ {i} /\ Synced' = Synced \cup {i}
  BY <1>1, <1>2, <1>3, <1>8, <1>11 DEF Left, Synced
<1>16. /\ DOMAIN T \subseteq DOMAIN H
       /\ ht.counter = 0 => T = <<>>
       /\ ht.counter # 0 => Good(c, T)
  BY <1>3 DEF Update, LeftOK
<1>17. ASSUME NEW j \in DOMAIN T PROVE ht.counter # 0 /\ j \in Ids /\ IsImage(T[j])
                                      /\ 1 \in DOMAIN T /\ (j > 1 => j \div 2 \in DOMAIN T)
  <2>1. ht.counter # 0 /\ j \in Ids
    BY <1>2, <1>3, <1>16
  <2>2. IsImage(T[j])
    BY <1>16, <2>1 DEF Good
  <2>3. DOMAIN T = 1 .. Nodes(head[c].max) /\ Nodes(head[c].max) \in Nat \ {0}
    BY <1>16, <2>1 DEF Good, Inv, TypeOK, Nodes
  <2> QED
    BY <2>1, <2>2, <2>3
\* The flag of i in the committed tree is the one that was flipped.
<1>18. ASSUME i > 1, i \div 2 \in DOMAIN T
       PROVE  H[i \div 2].kid[i % 2] = T[i \div 2].kid[i % 2]
  <2>1. i \in Ids \ Synced
    BY <1>1 DEF Synced
  <2> QED
    BY <1>3, <1>18, <2>1 DEF Update, LeftOK
<1>19. ASSUME ht.counter # 0 PROVE Good(c, T)'
  <2>1. ASSUME NEW j \in DOMAIN T
        PROVE  node'[j][Version(T, c, j)] = node[j][Version(T, c, j)]
    <3>1. CASE j # i
      BY <1>14, <1>17, <3>1
    <3>2. CASE j = i
      <4>1. Version(T, c, i) = 1 - u
        BY <1>1, <1>13, <1>17, <1>18, <3>2 DEF Version, Versions
      <4> QED
        BY <1>14, <3>2, <4>1
    <3> QED
      BY <3>1, <3>2
  <2>2. Good(c, T)
    BY <1>16, <1>19
  <2> QED
    BY <1>2, <2>1, <2>2, GoodFrame
<1>20. LeftOK(T)'
  <2>1. \A j \in Left' : j > 1 => j \div 2 \in Left'
    BY <1>1, <1>15
  <2>2. ht'.dirtyNodes \subseteq Left'
    <3>1. ht.dirtyNodes \subseteq todo
      BY <1>1 DEF Update, LeftOK
    <3> QED
      BY <1>1, <1>4, <1>12, <1>15, <3>1
  <2>3. ASSUME NEW j \in Left' \ ht'.dirtyNodes PROVE j \in DOMAIN T /\ N[j] = T[j]
    <3>1. j \in Left \ ht.dirtyNodes /\ j # i /\ (i > 1 => j # i \div 2) /\ j \in DOMAIN H
      BY <1>1, <1>3, <1>12, <1>15
    <3>2. j \in DOMAIN T /\ H[j] = T[j]
      BY <1>3, <3>1 DEF Update, LeftOK
    <3> QED
      BY <1>8, <3>1, <3>2
  <2>4. ASSUME NEW j \in Left' \cap DOMAIN T
        PROVE  N[j].blk = IF j \in ht'.updated THEN 1 - T[j].blk ELSE T[j].blk
    <3>1. j \in Left \cap DOMAIN T /\ j # i /\ j \in DOMAIN H
      BY <1>1, <1>15, <1>16
    <3>2. H[j].blk = IF j \in ht.updated THEN 1 - T[j].blk ELSE T[j].blk
      BY <1>3, <3>1 DEF Update, LeftOK
    <3> QED
      BY <1>8, <1>11, <3>1, <3>2
  <2>5. ASSUME NEW j \in Ids \ Synced', j > 1, j \div 2 \in DOMAIN T
        PROVE  N[j \div 2].kid[j % 2] = T[j \div 2].kid[j % 2]
    <3>1. j \in Ids \ Synced /\ j # i /\ j \div 2 \in DOMAIN H /\ j \in Nat
      BY <1>15, <1>16, <2>5 DEF Ids
    <3>2. H[j \div 2].kid[j % 2] = T[j \div 2].kid[j % 2]
      BY <1>3, <2>5, <3>1 DEF Update, LeftOK
    <3>3. j \div 2 = i \div 2 => j % 2 # i % 2
      BY <1>1, <3>1, Family
    <3>4. j % 2 \in Versions
      BY <2>5, <3>1, Family
    <3>5. CASE j \div 2 = i
      BY <1>8, <3>2, <3>5
    <3>6. CASE j \div 2 # i /\ i > 1 /\ j \div 2 = i \div 2
      BY <1>8, <3>2, <3>3, <3>4, <3>6
    <3>7. CASE j \div 2 # i /\ (i > 1 => j \div 2 # i \div 2)
      BY <1>8, <3>1, <3>2, <3>7
    <3> QED
      BY <3>5, <3>6, <3>7
  <2> QED
    BY <1>8, <1>11, <1>16, <2>1, <2>2, <2>3, <2>4, <2>5 DEF LeftOK
<1>21. ASSUME NEW j \in Synced
       PROVE  /\ j \in DOMAIN H /\ j \in Nat \ {0} /\ j # i /\ (i > 1 => j # i \div 2)
              /\ N[j] = H[j]
  <2>1. j \in DOMAIN H /\ j # i /\ (i > 1 => j # i \div 2)
    BY <1>1, <1>3, <1>4 DEF Synced
  <2>2. j \in Nat \ {0}
    BY <1>2, <1>3, <2>1 DEF Ids
  <2>3. N[j] = H[j]
    BY <1>8, <2>1
  <2> QED
    BY <2>1, <2>2, <2>3
<1>22. ASSUME NEW j \in Synced \cup {i}
       PROVE  /\ N[j] = node'[j][Version(N, 1 - c, j)]
              /\ N[j].hash = calc_node_hash(N, j, m)
              /\ \/ j = 1
                 \/ j \in DOMAIN T /\ N[j] = T[j]
                 \/ j \div 2 \in ht'.dirtyNodes \cup (Synced \cup {i})
  <2>1. CASE j = i
    <3>1. N[i] = node'[i][Version(N, 1 - c, i)] /\ N[i].hash = calc_node_hash(N, i, m)
      BY <1>8, <1>9, <1>14
    <3>2. i = 1 \/ i \div 2 \in ht'.dirtyNodes
      BY <1>1, <1>12
    <3> QED
      BY <2>1, <3>1, <3>2
  <2>2. CASE j # i
    <3>1. j \in Synced /\ N[j] = H[j] /\ j \in Nat \ {0} /\ j \in Ids
      BY <1>2, <1>3, <1>21, <2>2
    <3>2. /\ H[j] = node[j][Version(H, 1 - c, j)]
          /\ H[j].hash = calc_node_hash(H, j, m)
          /\ \/ j = 1
             \/ j \in DOMAIN T /\ H[j] = T[j]
             \/ j \div 2 \in ht.dirtyNodes \cup Synced
      BY <1>3, <1>7, <3>1 DEF Update, SyncedOK
    <3>3. Version(N, 1 - c, j) = Version(H, 1 - c, j)
      <4>1. CASE j = 1
        BY <4>1 DEF Version
      <4>2. CASE j # 1
        <5>1. j > 1 /\ j % 2 \in Versions /\ (j \div 2 = i \div 2 => j % 2 # i % 2)
          BY <1>1, <2>2, <3>1, <4>2, Family
        <5>2. j \div 2 \in DOMAIN H
          <6>1. DOMAIN H = 1 .. (IF ht.max = 0 THEN 1 ELSE ht.max) /\ ht.max \in Nat
            BY <1>2, <1>3, Handle
          <6> QED
            BY <1>21, <3>1, <5>1, <6>1
        <5>3. CASE j \div 2 = i
          BY <1>8, <4>2, <5>3 DEF Version
        <5>4. CASE j \div 2 # i /\ i > 1 /\ j \div 2 = i \div 2
          BY <1>8, <4>2, <5>1, <5>4 DEF Version
        <5>5. CASE j \div 2 # i /\ (i > 1 => j \div 2 # i \div 2)
          BY <1>8, <4>2, <5>2, <5>5 DEF Version
        <5> QED
          BY <5>3, <5>4, <5>5
      <4> QED
        BY <4>1, <4>2
    <3>4. calc_node_hash(N, j, m) = calc_node_hash(H, j, m)
      <4>1. ASSUME NEW k \in {2 * j, 2 * j + 1} PROVE k # i
        <5>1. k \div 2 = j /\ k > 1
          BY <3>1
        <5> QED
          BY <1>21, <3>1, <5>1
      <4>2. /\ \A k \in {2 * j, 2 * j + 1} : k \in DOMAIN N <=> k \in DOMAIN H
            /\ \A k \in {2 * j, 2 * j + 1} : k \in DOMAIN N => N[k].hash = H[k].hash
        BY <1>8, <4>1
      <4>3. N[j].blk = H[j].blk /\ N[j].kid = H[j].kid /\ N[j].tag = H[j].tag
        BY <3>1
      <4> QED
        BY <3>1, <4>2, <4>3, CalcSame
    <3>5. node'[j] = node[j]
      BY <1>14, <2>2, <3>1
    <3>6. j \div 2 \in ht.dirtyNodes \cup Synced =>
             j \div 2 \in ht'.dirtyNodes \cup (Synced \cup {i})
      BY <1>11
    <3> QED
      BY <3>1, <3>2, <3>3, <3>4, <3>5, <3>6
  <2> QED
    BY <2>1, <2>2
<1>23. SyncedOK(c, T)'
  <2>1. ASSUME NEW j \in Synced'
        PROVE  /\ ht'.node[j] = node'[j][Version(ht'.node, 1 - c, j)]
               /\ ht'.node[j].hash = calc_node_hash(ht'.node, j, ht'.meta)
               /\ \/ j = 1
                  \/ j \in DOMAIN T /\ ht'.node[j] = T[j]
                  \/ j \div 2 \in ht'.dirtyNodes \cup Synced'
    BY <1>11, <1>15, <1>22
  <2> QED
    BY <2>1 DEF SyncedOK, Version, calc_node_hash
<1>24. ContentOK'
  <2>1. ASSUME NEW j \in DOMAIN N PROVE N[j].tag <= stamp' /\ (Readable(N, j))'
    <3>1. H[j].tag <= stamp /\ Readable(H, j) /\ N[j].tag = H[j].tag /\ N[j].blk = H[j].blk
      BY <1>3, <1>8 DEF Update, ContentOK
    <3> QED
      BY <1>2, <3>1 DEF Readable
  <2>2. ht.meta \in 0 .. stamp
    BY DEF Update, ContentOK
  <2> QED
    BY <1>2, <1>11, <2>1, <2>2 DEF ContentOK, Readable
<1>25. RootOK(c, T)'
  <2> SUFFICES ASSUME 1 \in DOMAIN T
               PROVE  IF 1 \in Synced' THEN N[1].hash # T[1].hash
                      ELSE IF 1 \in ht'.dirtyNodes THEN RootChanged(c, T)'
                      ELSE ht'.meta = head'[c].meta
    BY <1>11 DEF RootOK
  <2>0. Good(c, T) /\ IsImage(T[1])
    BY <1>16, <1>17
  <2>1. CASE i = 1
    <3>1. 1 \notin Synced
      BY <1>1, <2>1 DEF Synced
    <3>2. RootChanged(c, T)
      BY <2>1, <3>1 DEF Update, RootOK
    <3>3. T[1].hash = calc_node_hash(T, 1, head[c].meta)
      BY <2>0 DEF Good
    <3>4. N[1].hash # T[1].hash
      <4>0. N[1].hash = calc_node_hash(N, 1, m)
        BY <1>8, <2>1
      <4>1. PICK f : N[1].hash = <<N[1].blk, N[1].kid, N[1].tag, m, f>>
        BY <4>0 DEF calc_node_hash
      <4>2. PICK g : T[1].hash = <<T[1].blk, T[1].kid, T[1].tag, head[c].meta, g>>
        BY <3>3 DEF calc_node_hash
      <4>3. N[1].tag # T[1].tag \/ N[1].kid # T[1].kid \/ m # head[c].meta
        BY <1>3, <1>7, <1>8, <2>1, <3>2 DEF RootChanged
      <4> QED
        BY <4>1, <4>2, <4>3
    <3> QED
      BY <1>15, <2>1, <3>4
  <2>2. CASE i > 1
    <3>1. 1 \in todo /\ 1 \notin Synced /\ 1 \notin Synced'
      BY <1>1, <1>15, <2>2 DEF Synced
    <3>2. CASE i \div 2 = 1
      <4>1. N[1].kid[i % 2] = 1 - T[1].kid[i % 2] /\ T[1].kid[i % 2] \in Versions
        BY <1>8, <1>13, <1>18, <2>2, <3>2
      <4>2. N[1].kid # T[1].kid
        BY <4>1 DEF Versions
      <4>3. RootChanged(c, T)'
        BY <1>11, <4>2 DEF RootChanged
      <4> QED
        BY <1>12, <2>2, <3>1, <3>2, <4>3
    <3>3. CASE i \div 2 # 1
      <4>1. N[1] = H[1] /\ (1 \in ht'.dirtyNodes <=> 1 \in ht.dirtyNodes)
        BY <1>3, <1>8, <1>12, <1>16, <2>2, <3>3
      <4>2. IF 1 \in ht.dirtyNodes THEN RootChanged(c, T) ELSE ht.meta = head[c].meta
        BY <3>1 DEF Update, RootOK
      <4> QED
        BY <1>3, <1>11, <3>1, <4>1, <4>2 DEF RootChanged
    <3> QED
      BY <3>2, <3>3
  <2> QED
    BY <1>1, <2>1, <2>2
\* A hash that picks the header still picks it.
<1>26. ASSUME Committed PROVE HeadIndex' = HeadIndex
  <2>1. ht.counter # 0 /\ HeadIndex = c
    BY <1>26 DEF Update, EmptyFile, Blank, ZeroHead, Committed, Versions
  <2>2. CASE mode # "hash"
    BY <2>2 DEF HeadIndex
  <2>3. CASE mode = "hash" /\ i # 1
    <3>1. node'[1] = node[1]
      BY <1>14, <1>1, <1>2, <2>3, Handle
    <3> QED
      BY <2>3, <3>1 DEF HeadIndex
  <2>4. CASE mode = "hash" /\ i = 1
    <3>1. 1 \in DOMAIN T
      <4>1. DOMAIN T = 1 .. Nodes(head[c].max) /\ Nodes(head[c].max) \in Nat \ {0}
        BY <1>16, <2>1 DEF Good, Inv, TypeOK, Nodes
      <4> QED
        BY <4>1
    <3>2. T[1] = node[1][c]
      BY <1>16, <2>1, <3>1 DEF Good, Version
    <3>3. node[1][c].hash = rec.hash
      BY <2>1, <2>4 DEF HeadIndex, Versions
    <3>4. 1 \in Synced' /\ N[1].hash # T[1].hash
      BY <1>11, <1>15, <1>25, <2>4, <3>1 DEF RootOK
    <3>5. node'[1][1 - c].hash # rec.hash /\ node'[1][c].hash = rec.hash
      BY <1>13, <1>14, <2>4, <3>2, <3>3, <3>4 DEF Versions
    <3> QED
      BY <2>1, <2>4, <3>5 DEF HeadIndex, Versions
  <2> QED
    BY <2>2, <2>3, <2>4
<1>27. Kept
  BY <1>19, <1>26, UpdateKept
<1>28. Update(c, T)'
  <2>1. (Committed' <=> Committed) /\ c = ht'.counter % 2
    BY <1>11 DEF Committed, Update
  <2>2. ht.counter = 0 => (T = <<>> /\ EmptyFile /\ Blank)'
    <3> SUFFICES ASSUME ht.counter = 0 PROVE (T = <<>> /\ EmptyFile /\ Blank)'
      OBVIOUS
    <3>1. T = <<>> /\ EmptyFile /\ Blank
      BY DEF Update
    <3>2. N[1].tag = H[1].tag
      BY <1>2, <1>3, <1>8, Handle
    <3> QED
      BY <1>3, <1>11, <3>1, <3>2 DEF EmptyFile, Blank, ZeroHead
  <2>3. ht.counter # 0 => (/\ Good(c, T)
                           /\ head[c].counter = ht.counter
                           /\ Committed => HeadIndex = c
                           /\ mode = "counter" => Committed)'
    BY <1>11, <1>19, <1>26, <2>1 DEF Update
  <2>4. ht'.counter < MaxCounter
    BY <1>11 DEF Update
  <2>5. pc' = "nodes" => ht'.dirtyNodes # {} /\ 1 \in todo'
    BY <1>1, <1>12
  <2> QED
    BY <1>2, <1>11, <1>20, <1>23, <1>24, <1>25, <2>1, <2>2, <2>3, <2>4, <2>5 DEF Update
<1>29. ht'.updated \subseteq ht'.dirtyNodes /\ ht'.dirtyNodes \subseteq DOMAIN ht.node
  BY <1>1, <1>2, <1>3, <1>4, <1>11, <1>12
<1> QED
  BY <1>3, <1>8, <1>11, <1>14, <1>27, <1>28, <1>29

\* A visit changes neither the content of the handle nor the committed tree.
LEMMA SyncNodeStep ==
    ASSUME Inv, SyncNode
    PROVE  /\ Inv' /\ Kept /\ pc # "closed" /\ pc' # "closed"
           /\ ht'.meta = ht.meta /\ DOMAIN ht'.node = DOMAIN ht.node
           /\ \A j \in DOMAIN ht.node : ht'.node[j].tag = ht.node[j].tag
<1>1. /\ pc = "nodes" /\ htree_sync_node_to_storage(NextNode)
      /\ UNCHANGED <<mode, exists, head, block, rec, stamp>>
  BY DEF SyncNode
<1>2. PICK i : i = NextNode
  OBVIOUS
<1>3. todo' = todo \ {i} /\ pc' = IF todo' = {} THEN "head" ELSE "nodes"
  BY <1>2 DEF SyncNode
<1>4. PICK c, T : c \in Versions /\ Update(c, T)
  BY <1>1 DEF Inv, UpdateOK
<1> c \in Versions
  BY <1>4
<1>5. /\ pc # "closed" /\ pc' # "closed" /\ pc' \in {"nodes", "head"}
      /\ stamp' \in 0 .. MaxStamp
  BY <1>1, <1>3, Handle
<1>6. /\ Update(c, T)' /\ Kept
      /\ ht'.meta = ht.meta /\ ht'.max = ht.max /\ ht'.counter = ht.counter
      /\ ht' = [f \in Fields |-> ht'[f]]
      /\ ht'.updated \subseteq ht'.dirtyNodes
      /\ ht'.dirtyNodes \subseteq DOMAIN ht.node
      /\ DOMAIN ht'.node = DOMAIN ht.node
      /\ ht'.node = [j \in DOMAIN ht'.node |-> ht'.node[j]]
      /\ \A j \in DOMAIN ht.node : /\ IsImage(ht'.node[j])
                                   /\ ht'.node[j].tag = ht.node[j].tag
      /\ node' = [j \in Ids |-> [v \in Versions |-> node'[j][v]]]
      /\ \A j \in Ids, v \in Versions : IsImage(node'[j][v])
  <2>1. CASE i \in ht.dirtyNodes
    <3>1. SyncDirtyNode(i)
      BY <1>1, <1>2, <2>1 DEF htree_sync_node_to_storage
    <3> QED
      BY <1>1, <1>2, <1>3, <1>4, <2>1, <3>1, DirtyVisit
  <2>2. CASE i \notin ht.dirtyNodes
    <3>1. UNCHANGED <<ht, node>>
      BY <1>1, <1>2, <2>2 DEF htree_sync_node_to_storage
    <3>2. Update(c, T)' /\ Kept
      BY <1>1, <1>2, <1>3, <1>4, <2>2, <3>1, CleanVisit
    <3>3. /\ node = [j \in Ids |-> [v \in Versions |-> node[j][v]]]
          /\ \A j \in Ids, v \in Versions : IsImage(node[j][v])
      BY DEF Inv, Shape
    <3>4. /\ ht = [f \in Fields |-> ht[f]]
          /\ ht.updated \subseteq ht.dirtyNodes
          /\ ht.dirtyNodes \subseteq DOMAIN ht.node
          /\ ht.node = [j \in DOMAIN ht.node |-> ht.node[j]]
          /\ \A j \in DOMAIN ht.node : IsImage(ht.node[j])
      BY <1>5, Handle
    <3> QED
      BY <3>1, <3>2, <3>3, <3>4
  <2> QED
    BY <2>1, <2>2
<1>7. TypeOK' /\ Shape'
  <2>1. /\ head' = [v \in Versions |-> head'[v]]
        /\ \A v \in Versions : head'[v].counter \in Nat /\ head'[v].max \in 0 .. MaxBlocks
        /\ block' \in [Blocks -> [Versions -> 0 .. MaxStamp]]
        /\ todo' \subseteq Ids
    BY <1>1, <1>3 DEF Inv, TypeOK, Shape
  <2>2. todo' # {} <=> pc' = "nodes"
    BY <1>3
  <2>3. pc' \in {"idle", "nodes", "head", "dummy", "record"}
    BY <1>5
  <2>4. /\ ht'.max \in 0 .. MaxBlocks /\ ht'.counter \in 0 .. MaxCounter
        /\ DOMAIN ht'.node = 1 .. (IF ht'.max = 0 THEN 1 ELSE ht'.max)
    BY <1>5, <1>6, Handle
  <2> QED
    BY <1>1, <1>5, <1>6, <2>1, <2>2, <2>3, <2>4, HandleShape
<1>8. DiskOK'
  BY <1>1, <1>5, <1>6, Handle, DiskKept
<1>9. UpdateOK' /\ WrittenOK'
  BY <1>5, <1>6 DEF UpdateOK, WrittenOK, Versions
<1> QED
  BY <1>5, <1>6, <1>7, <1>8, <1>9 DEF Inv

\* A step that changes nothing.
LEMMA StutterStep ==
    ASSUME Inv, UNCHANGED vars
    PROVE  Inv' /\ Kept
<1>1. /\ mode' = mode /\ exists' = exists /\ head' = head /\ node' = node /\ block' = block
      /\ ht' = ht /\ pc' = pc /\ todo' = todo /\ rec' = rec /\ stamp' = stamp
  BY DEF vars
<1>2. stamp \in Nat
  BY ConstantsAssumption DEF Inv, TypeOK, ConstantsAssumption
<1>3. Kept
  BY <1>1, <1>2, DiskSame DEF disk
<1>4. DiskOK'
  BY <1>1, <1>3, DiskKept DEF Inv, DiskOK
<1>5. TypeOK'
  BY <1>1 DEF Inv, TypeOK, ImageOK
<1>6. Shape'
  BY <1>1 DEF Inv, Shape, IsImage, ImageOK
<1>7. HeadIndex' = HeadIndex /\ (Committed' <=> Committed)
  BY <1>1 DEF HeadIndex, Committed
<1>8. Left' = Left /\ Synced' = Synced
  BY <1>1 DEF Left, Synced
<1>9. ASSUME NEW v, NEW T, Good(v, T) PROVE Good(v, T)'
  BY <1>1, <1>2, <1>9, GoodFrame
<1>10. ASSUME NEW c, NEW T, Update(c, T) PROVE Update(c, T)'
  <2>1. LeftOK(T)' /\ RootOK(c, T)' /\ ContentOK'
    BY <1>1, <1>8, <1>10 DEF Update, LeftOK, RootOK, RootChanged, ContentOK, Readable
  <2>2. SyncedOK(c, T)'
    BY <1>1, <1>8, <1>10 DEF Update, SyncedOK, Version, calc_node_hash
  <2>3. (EmptyFile' <=> EmptyFile) /\ (Blank' <=> Blank)
    BY <1>1 DEF EmptyFile, Blank, ZeroHead
  <2> QED
    BY <1>1, <1>7, <1>9, <1>10, <2>1, <2>2, <2>3 DEF Update
<1>11. UpdateOK'
  BY <1>1, <1>10 DEF Inv, UpdateOK, Versions
<1>12. ASSUME NEW c, NEW T, Written(c, T) PROVE Written(c, T)'
  <2>1. (EmptyFile' <=> EmptyFile) /\ head'[0] = head[0]
    BY <1>1 DEF EmptyFile
  <2> QED
    BY <1>1, <1>7, <1>9, <1>12, <2>1 DEF Written, ZeroHead
<1>13. WrittenOK'
  BY <1>1, <1>12 DEF Inv, WrittenOK, Versions
<1> QED
  BY <1>3, <1>4, <1>5, <1>6, <1>11, <1>13 DEF Inv

\* The invariant is inductive.
LEMMA NextInv ==
    ASSUME Inv, [Next]_vars
    PROVE  Inv'
<1>1. CASE Create
  BY <1>1, CreateStep
<1>2. CASE WriteDummyHead
  BY <1>2, WriteDummyHeadStep
<1>3. CASE CreateFails
  BY <1>3, CreateFailsStep
<1>4. CASE Open
  BY <1>4, OpenStep
<1>5. CASE OpenFails
  BY <1>5, StutterStep DEF OpenFails
<1>6. CASE Lose
  BY <1>6, LoseStep
<1>7. CASE \E b \in Blocks : WriteBlock(b)
  BY <1>7, WriteBlockStep
<1>8. CASE SetMeta
  BY <1>8, SetMetaStep
<1>9. CASE Sync
  BY <1>9, SyncStep
<1>10. CASE SyncNode
  BY <1>10, SyncNodeStep
<1>11. CASE WriteHead
  BY <1>11, WriteHeadStep
<1>12. CASE Record
  BY <1>12, RecordStep
<1>13. CASE UNCHANGED vars
  BY <1>13, StutterStep
<1> QED
  BY <1>1, <1>2, <1>3, <1>4, <1>5, <1>6, <1>7, <1>8, <1>9, <1>10, <1>11, <1>12, <1>13 DEF Next

\* Every state of a file system whose counter starts at zero satisfies the
\* invariant.
LEMMA InvHolds ==
    ASSUME FreshCounter
    PROVE  Spec => []Inv
<1>1. Init => Inv
  BY InitInv
<1>2. Inv /\ [Next]_vars => Inv'
  BY NextInv
<1> QED
  BY <1>1, <1>2, PTL DEF Spec

-----------------------------------------------------------------------------
(* The safety properties.                                                  *)

\* The types of the variables.
THEOREM TypeCorrect ==
    ASSUME FreshCounter
    PROVE  Spec => []TypeOK
<1>1. Inv => TypeOK
  BY DEF Inv
<1> QED
  BY <1>1, InvHolds, PTL

\* After a commit that the caller has recorded, tee_fs_htree_open() succeeds in
\* every state, whatever write of a later update was the last one.
THEOREM RecoverableCorrect ==
    ASSUME FreshCounter
    PROVE  Spec => []Recoverable
<1>1. Inv => Recoverable
  <2> SUFFICES ASSUME Inv, rec.set PROVE Stored # Null
    BY DEF Recoverable
  <2>1. Committed
    BY DEF Inv, DiskOK
  <2>2. PICK v, T : v \in Versions /\ HeadIndex = v /\ Good(v, T)
    BY <2>1 DEF Inv, DiskOK
  <2> v \in Versions
    BY <2>2
  <2> QED
    BY <2>1, <2>2, StoredIs DEF StoredFact
<1> QED
  BY <1>1, InvHolds, PTL

\* htree_sync_node_to_storage() may skip the nodes that are not dirty.
THEOREM CleanCorrect ==
    ASSUME FreshCounter
    PROVE  Spec => []CleanNodesStored
<1>1. Inv => CleanNodesStored
  <2> SUFFICES ASSUME Inv, pc = "idle", NEW i \in DOMAIN ht.node \ ht.dirtyNodes
               PROVE  /\ ht.node[i] = node[i][Version(ht.node, ht.counter % 2, i)]
                      /\ {2 * i, 2 * i + 1} \cap ht.dirtyNodes = {} =>
                            ht.node[i].hash = calc_node_hash(ht.node, i, ht.meta)
    BY DEF CleanNodesStored, Version
  <2>1. PICK c, T :
                                 /\ c \in Versions
                                 /\ Update(c, T) /\ ht.counter # 0 /\ Good(c, T)
                                 /\ Left = DOMAIN ht.node /\ Synced = {}
    BY IdleUpdate
  <2> c \in Versions
    BY <2>1
  <2>2. /\ \A j \in DOMAIN ht.node \ ht.dirtyNodes : j \in DOMAIN T /\ ht.node[j] = T[j]
        /\ DOMAIN T \subseteq DOMAIN ht.node
        /\ c = ht.counter % 2
    BY <2>1 DEF Update, LeftOK
  <2>3. i \in DOMAIN T /\ ht.node[i] = T[i] /\ i \in Ids /\ i \in Nat \ {0}
    <3>1. DOMAIN ht.node \subseteq Ids
      BY Handle
    <3> QED
      BY <2>2, <3>1 DEF Ids
  <2>4. T[i] = node[i][Version(T, c, i)] /\ T[i].hash = calc_node_hash(T, i, head[c].meta)
    BY <2>1, <2>3 DEF Good
  <2>5. Version(T, c, i) = Version(ht.node, c, i)
    <3>1. CASE i = 1
      BY <3>1 DEF Version
    <3>2. CASE i > 1
      <4>1. DOMAIN T = 1 .. Nodes(head[c].max) /\ Nodes(head[c].max) \in Nat
        BY <2>1, ConstantsAssumption DEF Good, Inv, TypeOK, Nodes, ConstantsAssumption
      <4>2. i \div 2 \in DOMAIN T
        BY <2>3, <3>2, <4>1
      <4> QED
        BY <2>1, <2>3, <3>2, <4>2 DEF Update, LeftOK, Version
    <3> QED
      BY <2>3, <3>1, <3>2
  <2>6. ASSUME {2 * i, 2 * i + 1} \cap ht.dirtyNodes = {}
        PROVE  calc_node_hash(ht.node, i, ht.meta) = calc_node_hash(T, i, head[c].meta)
    <3>1. /\ \A j \in {2 * i, 2 * i + 1} : j \in DOMAIN ht.node <=> j \in DOMAIN T
          /\ \A j \in {2 * i, 2 * i + 1} : j \in DOMAIN ht.node =>
                ht.node[j].hash = T[j].hash
      BY <2>2, <2>6
    <3>2. i = 1 => ht.meta = head[c].meta
      BY <2>1, <2>3 DEF Update, RootOK
    <3> QED
      BY <2>3, <3>1, <3>2, CalcSame
  <2> QED
    BY <2>2, <2>3, <2>4, <2>5, <2>6
<1> QED
  BY <1>1, InvHolds, PTL

-----------------------------------------------------------------------------
(* The hash tree implements AtomicFile: what opening the file finds is     *)
(* disk, what reading the handle finds is mem.                             *)

\* Trees with the same tags.
LEMMA TagsSame ==
    ASSUME NEW A, NEW B, DOMAIN A = DOMAIN B, DOMAIN A \subseteq Nat,
           \A j \in DOMAIN A : A[j].tag = B[j].tag
    PROVE  Tags(A) = Tags(B)
<1>1. ASSUME NEW b \in {i - 1 : i \in DOMAIN A} PROVE A[b + 1].tag = B[b + 1].tag
  <2>1. PICK i \in DOMAIN A : b = i - 1
    OBVIOUS
  <2>2. b + 1 = i
    BY <2>1
  <2> QED
    BY <2>2
<1> QED
  BY <1>1 DEF Tags

\* The tags of a new file.
LEMMA TagsEmpty ==
    ASSUME NEW A, DOMAIN A = {1}, A[1].tag = 0
    PROVE  [meta |-> 0, block |-> Tags(A)] = Abstract!Empty
<1>1. {i - 1 : i \in DOMAIN A} = {0}
  OBVIOUS
<1>2. Tags(A) = [b \in {0} |-> 0]
  BY <1>1 DEF Tags
<1> QED
  BY <1>2 DEF Abstract!Empty

TagsPlus(A, b, s) == [d \in DOMAIN Tags(A) \cup {b} |-> IF d = b THEN s ELSE Tags(A)[d]]

\* The tags after a block was written.
LEMMA TagsWritten ==
    ASSUME NEW A, NEW B, NEW b \in Nat, DOMAIN A \subseteq Nat,
           DOMAIN B = DOMAIN A \cup {b + 1},
           \A j \in DOMAIN A \ {b + 1} : B[j] = A[j]
    PROVE  Tags(B) = TagsPlus(A, b, B[b + 1].tag)
<1>1. DOMAIN Tags(A) = {i - 1 : i \in DOMAIN A}
  BY DEF Tags
<1>2. {i - 1 : i \in DOMAIN B} = {i - 1 : i \in DOMAIN A} \cup {b}
  OBVIOUS
<1>3. ASSUME NEW d \in {i - 1 : i \in DOMAIN A} \cup {b}
      PROVE  B[d + 1].tag = IF d = b THEN B[b + 1].tag ELSE Tags(A)[d]
  <2>1. CASE d = b
    BY <2>1
  <2>2. CASE d # b
    <3>1. PICK i \in DOMAIN A : d = i - 1
      BY <2>2
    <3>2. d + 1 = i /\ i # b + 1
      BY <2>2, <3>1
    <3>3. Tags(A)[d] = A[d + 1].tag
      BY <3>1 DEF Tags
    <3> QED
      BY <2>2, <3>2, <3>3
  <2> QED
    BY <2>1, <2>2
<1> QED
  BY <1>1, <1>2, <1>3 DEF Tags, TagsPlus

ClosedFact == Inv /\ pc = "closed" => Content(ht) = Null

\* A closed handle has no content.
LEMMA ClosedIs == ClosedFact
BY DEF ClosedFact, Inv, TypeOK, Content

\* The same after a step.
LEMMA ClosedIsNext == ClosedFact'
BY ClosedIs, PTL

\* The file that is being created holds nothing.
LEMMA CreatingIsEmpty ==
    ASSUME Inv, CreateFails
    PROVE  Content(ht) = Abstract!Empty /\ Stored \in {Null, Abstract!Empty}
<1>1. ht.meta = 0 /\ ht.max = 0 /\ ht.node[1].tag = 0 /\ pc # "closed"
  BY CreateFailsStep
<1>2. DOMAIN ht.node = {1}
  BY <1>1, Handle
<1>3. [meta |-> 0, block |-> Tags(ht.node)] = Abstract!Empty
  BY <1>1, <1>2, TagsEmpty
<1>4. Content(ht) = Abstract!Empty
  BY <1>1, <1>3, HandleIs DEF HandleFact
<1>5. CASE Committed
  <2>1. pc = "dummy"
    BY <1>5 DEF CreateFails, Creating, Inv, UpdateOK, Update, Committed, EmptyFile, Blank,
                ZeroHead, Versions
  <2>2. PICK c, T : c \in Versions /\ Written(c, T)
    BY <2>1 DEF Inv, WrittenOK
  <2> c \in Versions
    BY <2>2
  <2>3. HeadIndex = c
    <3>1. ~rec.set
      BY <2>1, <2>2 DEF Written, EmptyFile
    <3>2. mode = "counter"
      BY <1>5, <3>1, ConstantsAssumption DEF Committed, Inv, TypeOK, ConstantsAssumption
    <3> QED
      BY <2>2, <3>2 DEF Written
  <2>4. Stored = Commit(c, T)
    BY <1>5, <2>2, <2>3, StoredIs DEF StoredFact, Written
  <2> QED
    BY <1>1, <1>3, <1>4, <2>2, <2>4 DEF Written, Commit
<1>6. CASE ~Committed
  BY <1>4, <1>6, StoredIs DEF StoredFact
<1> QED
  BY <1>4, <1>5, <1>6

\* Every step of the hash tree is a step of AtomicFile, or none.
LEMMA StepImplements ==
    ASSUME Inv, Inv', [Next]_vars
    PROVE  [Abstract!Next]_<<Stored, Content(ht)>>
<1> USE StoredIs, StoredIsNext, HandleIs, HandleIsNext, ClosedIs, ClosedIsNext
<1>0. ASSUME pc # "closed"
      PROVE  /\ Content(ht) = [meta |-> ht.meta, block |-> Tags(ht.node)]
             /\ Content(ht) # Null
  <2>1. Content(ht) = [meta |-> ht.meta, block |-> Tags(ht.node)]
    BY <1>0 DEF HandleFact
  <2> QED
    BY <2>1 DEF Null
<1>1. ASSUME pc' # "closed"
      PROVE  Content(ht)' = [meta |-> ht'.meta, block |-> Tags(ht'.node)]
  BY <1>1 DEF HandleFact, Tags
<1>2. ASSUME pc # "closed"
      PROVE  DOMAIN ht.node \subseteq Nat
  BY <1>2, Handle DEF Ids
<1>3. CASE Create
  <2>1. /\ ~Committed /\ ~Committed' /\ pc' # "closed" /\ ht'.meta = 0
        /\ DOMAIN ht'.node = {1} /\ ht'.node[1].tag = 0 /\ pc = "closed"
    BY <1>3, CreateStep DEF Create
  <2>2. Stored = Null /\ Stored' = Null /\ Content(ht) = Null
    BY <2>1 DEF StoredFact, ClosedFact
  <2>3. PICK A : A = ht'.node
    OBVIOUS
  <2>4. [meta |-> 0, block |-> Tags(A)] = Abstract!Empty
    BY <2>1, <2>3, TagsEmpty
  <2>5. Content(ht)' = Abstract!Empty
    BY <1>1, <2>1, <2>3, <2>4
  <2>6. Abstract!Create
    BY <2>2, <2>5 DEF Abstract!Create
  <2> QED
    BY <2>6 DEF Abstract!Next
<1>4. CASE WriteDummyHead
  <2>1. Kept /\ ht' = ht /\ pc # "closed" /\ pc' # "closed"
    BY <1>4, WriteDummyHeadStep
  <2>2. Stored' = Stored
    BY <2>1, StoredKept
  <2>3. Content(ht)' = Content(ht)
    BY <1>0, <1>1, <2>1
  <2> QED
    BY <2>2, <2>3
<1>5. CASE CreateFails
  <2>1. ~Committed' /\ pc' = "closed"
    BY <1>5, CreateFailsStep DEF CreateFails
  <2>2. Stored' = Null /\ Content(ht)' = Null
    BY <2>1 DEF StoredFact, ClosedFact
  <2>3. Content(ht) = Abstract!Empty /\ Stored \in {Null, Abstract!Empty}
    BY <1>5, CreatingIsEmpty
  <2>4. Abstract!Discard
    BY <2>2, <2>3 DEF Abstract!Discard
  <2> QED
    BY <2>4 DEF Abstract!Next
<1>6. CASE Open
  <2>1. /\ Kept /\ pc = "closed" /\ pc' # "closed" /\ Stored # Null
        /\ [meta |-> ht'.meta, block |-> Tags(ht'.node)] = Stored
    BY <1>6, OpenStep DEF Open, MayOpen
  <2>2. Stored' = Stored
    BY <2>1, StoredKept
  <2>3. Content(ht) = Null /\ Content(ht)' = Stored
    BY <1>1, <2>1 DEF ClosedFact
  <2>4. Abstract!Open
    BY <2>1, <2>2, <2>3 DEF Abstract!Open
  <2> QED
    BY <2>4 DEF Abstract!Next
<1>7. CASE OpenFails \/ UNCHANGED vars
  <2>1. UNCHANGED vars
    BY <1>7 DEF OpenFails
  <2>2. Kept
    BY <2>1, StutterStep
  <2>3. Stored' = Stored
    BY <2>2, StoredKept
  <2>4. Content(ht)' = Content(ht)
    BY <2>1 DEF vars, Content, read_block
  <2> QED
    BY <2>3, <2>4
<1>8. CASE Lose
  <2>1. Kept /\ pc' = "closed"
    BY <1>8, LoseStep DEF Lose
  <2>2. Stored' = Stored /\ Content(ht)' = Null
    BY <2>1, StoredKept DEF ClosedFact
  <2>3. Abstract!Lose
    BY <2>2 DEF Abstract!Lose
  <2> QED
    BY <2>3 DEF Abstract!Next
<1>9. ASSUME NEW b \in Blocks, WriteBlock(b)
      PROVE  Abstract!Next
  <2>1. /\ Kept /\ pc # "closed" /\ pc' # "closed" /\ stamp' \in 0 .. MaxStamp
        /\ DOMAIN ht'.node = DOMAIN ht.node \cup {b + 1} /\ ht'.node[b + 1].tag = stamp'
        /\ \A j \in DOMAIN ht.node \ {b + 1} : ht'.node[j] = ht.node[j]
        /\ ht'.meta = ht.meta
    BY <1>9, WriteBlockStep
  <2>2. Stored' = Stored
    BY <2>1, StoredKept
  <2>3. PICK A : A = ht.node
    OBVIOUS
  <2>4. PICK B : B = ht'.node
    OBVIOUS
  <2>5. PICK s \in 0 .. MaxStamp : s = stamp'
    BY <2>1
  <2>6. b \in Nat
    BY ConstantsAssumption DEF Blocks, ConstantsAssumption
  <2>7. Tags(B) = [d \in DOMAIN Tags(A) \cup {b} |-> IF d = b THEN s ELSE Tags(A)[d]]
    <3>1. /\ DOMAIN A \subseteq Nat /\ DOMAIN B = DOMAIN A \cup {b + 1}
          /\ B[b + 1].tag = s /\ \A j \in DOMAIN A \ {b + 1} : B[j] = A[j]
      BY <1>2, <2>1, <2>3, <2>4, <2>5
    <3>2. DOMAIN A \subseteq Nat /\ DOMAIN B = DOMAIN A \cup {b + 1}
      BY <3>1
    <3>3. B[b + 1].tag = s
      BY <3>1
    <3>4. \A j \in DOMAIN A \ {b + 1} : B[j] = A[j]
      BY <3>1
    <3>5. Tags(B) = TagsPlus(A, b, B[b + 1].tag)
      BY <2>6, <3>2, <3>4, TagsWritten, Zenon
    <3> QED
      BY <3>3, <3>5 DEF TagsPlus
  <2>8. Content(ht)' = [meta |-> ht.meta, block |-> Tags(B)]
    BY <1>1, <2>1, <2>4
  <2>9. PICK m : m = Content(ht)
    OBVIOUS
  <2>10. m = [meta |-> ht.meta, block |-> Tags(A)]
    BY <1>0, <2>1, <2>3, <2>9
  <2>11. [m EXCEPT !.block = Tags(B)] = [meta |-> ht.meta, block |-> Tags(B)]
    BY <2>10
  <2>12. m.block = Tags(A)
    BY <2>10
  <2>13. Content(ht)' = [m EXCEPT !.block = [d \in DOMAIN m.block \cup {b} |->
                                       IF d = b THEN s ELSE m.block[d]]]
    BY <2>7, <2>8, <2>11, <2>12
  <2>14. Abstract!Write(b, s)
    BY <1>0, <2>1, <2>2, <2>9, <2>13 DEF Abstract!Write
  <2> QED
    BY <2>14 DEF Abstract!Next
<1>10. CASE SetMeta
  <2>1. /\ Kept /\ pc # "closed" /\ pc' # "closed"
        /\ ht'.meta = stamp' /\ ht'.node = ht.node /\ stamp' \in 0 .. MaxStamp
    BY <1>10, SetMetaStep
  <2>2. Stored' = Stored
    BY <2>1, StoredKept
  <2>3. PICK s \in 0 .. MaxStamp : s = stamp'
    BY <2>1
  <2>4. Content(ht)' = [meta |-> s, block |-> Tags(ht.node)]
    BY <1>1, <2>1, <2>3
  <2>5. PICK m : m = Content(ht)
    OBVIOUS
  <2>6. m = [meta |-> ht.meta, block |-> Tags(ht.node)]
    BY <1>0, <2>1, <2>5
  <2>7. Content(ht)' = [m EXCEPT !.meta = s]
    BY <2>4, <2>6
  <2>8. Abstract!SetMeta(s)
    BY <1>0, <2>1, <2>2, <2>5, <2>7 DEF Abstract!SetMeta
  <2> QED
    BY <2>8 DEF Abstract!Next
<1>11. CASE Sync
  <2>1. Kept /\ ht' = ht /\ pc # "closed" /\ pc' # "closed"
    BY <1>11, SyncStep
  <2>2. Stored' = Stored
    BY <2>1, StoredKept
  <2>3. Content(ht)' = Content(ht)
    BY <1>0, <1>1, <2>1
  <2> QED
    BY <2>2, <2>3
<1>12. CASE SyncNode
  <2>1. /\ Kept /\ pc # "closed" /\ pc' # "closed"
        /\ ht'.meta = ht.meta /\ DOMAIN ht'.node = DOMAIN ht.node
        /\ \A j \in DOMAIN ht.node : ht'.node[j].tag = ht.node[j].tag
    BY <1>12, SyncNodeStep
  <2>2. Stored' = Stored
    BY <2>1, StoredKept
  <2>3. PICK A : A = ht.node
    OBVIOUS
  <2>4. PICK B : B = ht'.node
    OBVIOUS
  <2>5. Tags(A) = Tags(B)
    BY <1>2, <2>1, <2>3, <2>4, TagsSame
  <2>6. Content(ht)' = Content(ht)
    BY <1>0, <1>1, <2>1, <2>3, <2>4, <2>5
  <2> QED
    BY <2>2, <2>6
<1>13. CASE WriteHead
  <2>1. /\ pc # "closed" /\ pc' # "closed"
        /\ ht'.node = ht.node /\ ht'.meta = ht.meta
        /\ mode = "hash" => Kept
        /\ mode = "counter" => Stored' = [meta |-> ht.meta, block |-> Tags(ht.node)]
    BY <1>13, WriteHeadStep
  <2>2. Content(ht)' = Content(ht)
    BY <1>0, <1>1, <2>1
  <2>3. CASE mode = "hash"
    BY <2>1, <2>2, <2>3, StoredKept
  <2>4. CASE mode = "counter"
    <3>1. Abstract!Commit
      BY <1>0, <2>1, <2>2, <2>4 DEF Abstract!Commit
    <3> QED
      BY <3>1 DEF Abstract!Next
  <2> QED
    BY <2>3, <2>4, ConstantsAssumption DEF Inv, TypeOK, ConstantsAssumption
<1>14. CASE Record
  <2>1. /\ pc # "closed" /\ pc' # "closed" /\ ht' = ht
        /\ Stored' = [meta |-> ht.meta, block |-> Tags(ht.node)]
    BY <1>14, RecordStep
  <2>2. Content(ht)' = Content(ht)
    BY <1>0, <1>1, <2>1
  <2>3. Abstract!Commit
    BY <1>0, <2>1, <2>2 DEF Abstract!Commit
  <2> QED
    BY <2>3 DEF Abstract!Next
<1> QED
  BY <1>3, <1>4, <1>5, <1>6, <1>7, <1>8, <1>9, <1>10, <1>11, <1>12, <1>13, <1>14 DEF Next

\* The hash tree implements AtomicFile: an update becomes visible as a whole,
\* in one step, or not at all, wherever it is interrupted, and what is read is
\* what was written.
THEOREM HashTreeImplementsAtomicFile ==
    ASSUME FreshCounter
    PROVE  Spec => ImplementsAtomicFile
<1>1. Init => Abstract!Init
  <2> SUFFICES ASSUME Init PROVE Stored = Null /\ Content(ht) = Null
    BY DEF Abstract!Init
  <2>1. ht = Null /\ ~rec.set /\ ~exists
    BY DEF Init
  <2> QED
    BY <2>1 DEF Stored, Content
<1>2. Inv /\ Inv' /\ [Next]_vars => [Abstract!Next]_<<Stored, Content(ht)>>
  BY StepImplements
<1> QED
  BY <1>1, <1>2, InvHolds, PTL DEF Spec, ImplementsAtomicFile, Abstract!Spec

=============================================================================
