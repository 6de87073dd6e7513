---------------------------- MODULE RpmbFsProofs ----------------------------
(***************************************************************************)
(* Proofs about RpmbFs: its type invariant, the soundness of the FAT and   *)
(* the durability of the contents, for every set of names and values,      *)
(* every size of the device and every number of retries, lost requests and *)
(* power cuts.                                                             *)
(*                                                                         *)
(* The invariant has two halves.  One is about the disk: it is blank, or   *)
(* half formatted, or its FAT is a Table; and the block writes that the    *)
(* running operation has left, taken one by one from this disk, keep it    *)
(* one (Moving, CreatingOK, RenamingOK...; lemma Advance).  The other is   *)
(* about requests: normal world can hold back only the request that is     *)
(* being made, but for the time before the dummy write of rpmb_fs_setup(), *)
(* so a late request does what the operation was about to do, or what the  *)
(* operation before the power cut was; the dummy write uses up the counter *)
(* of whatever was held.                                                   *)
(*                                                                         *)
(* For the contents, DurInv adds what the writes that are left do to each  *)
(* object: they give the object of the operation its new content (Gives)   *)
(* by way of contents that are allowed, and are Quiet about the others; a  *)
(* request that is held leaves every object with an allowed content.       *)
(***************************************************************************)
EXTENDS RpmbFs, FiniteSetTheorems, SequenceTheorems, WellFoundedInduction, TLAPS
(* The deviations of the code that Cases switches on are left out, and a   *)
(* device has room for the partition data and the FAT, a file for the data *)
(* of a create.                                                            *)
WellUsed == Cases = {} /\ Blocks > FatStart /\ MaxLen >= 2

----------------------------------------------------------------------------
(* Disks *)

Addrs == 0 .. Blocks - 1
EntrySet == [kind : {"entry"}, active : BOOLEAN, last : BOOLEAN,
             name : FileNames \cup {NoName, Final(NoName)},
             start : 0 .. Blocks, size : 0 .. MaxLen]
EntryIn(b, a) == IF b[a].kind = "entry" THEN b[a] ELSE Cleared
LastIn(b) == Min({a \in FatStart .. Blocks - 1 : EntryIn(b, a).last})

\* Areas that do not touch, and names that differ.
Apart(e, f) == /\ Area(e) \cap Area(f) = {}
               /\ e.active /\ f.active => e.name # f.name

\* The FAT ends at L, and its entries do not get in each other's way.
Ends(b, L) == /\ L \in FatStart .. Blocks - 1
              /\ EntryIn(b, L).last /\ ~EntryIn(b, L).active
              /\ \A a \in FatStart .. L - 1 : ~EntryIn(b, a).last
Table(b, L) ==
    /\ Ends(b, L)
    /\ \A a \in FatStart .. L : Area(EntryIn(b, a)) \subseteq L + 1 .. Blocks - 1
    /\ \A a, c \in FatStart .. L : a # c => Apart(EntryIn(b, a), EntryIn(b, c))

\* A disk that is not formatted, or formatted but for the partition data.
Plain(b) == \A a \in Addrs : b[a] = Blank \/ (a = FatStart /\ b[a] = LastEntry)

IsDisk(b) == b \in [Addrs -> BlockValues]
Formatted(b) == b[0] = Partition /\ Table(b, LastIn(b))
Disk(b) == IsDisk(b) /\ (Plain(b) \/ Formatted(b))

Apply(b, r) == [b EXCEPT ![r.addr] = r.val]

----------------------------------------------------------------------------
(* The block writes of an operation, for a FAT that ends at L *)

Has(b, L, name) == \E a \in FatStart .. L : EntryIn(b, a).active /\ EntryIn(b, a).name = name

\* The FAT can grow, and has grown by an entry that is not yet part of it.
Room(b, L) == L + 1 < Blocks /\ \A a \in FatStart .. L : L + 1 \notin Area(EntryIn(b, a))
Grown(b, L) == Room(b, L) /\ b[L + 1] = LastEntry

\* Entry e may be stored at address a.
Fits(b, L, a, e) ==
    /\ e \in EntrySet /\ ~e.last
    /\ Area(e) \subseteq L + 1 .. Blocks - 1
    /\ \A c \in (FatStart .. L) \ {a} : Apart(e, EntryIn(b, c))
StoreOK(b, L, w) ==
    w.use = "entry" /\ w.addr \in FatStart .. L - 1 /\ Fits(b, L, w.addr, w.val)
DataOK(L, w) == w.use = "data" /\ w.val \in BlockValues /\ w.addr \in L + 1 .. Blocks - 1

\* Data, then the entry.
Storing(b, L, td) ==
    /\ td # <<>>
    /\ \A i \in 1 .. Len(td) - 1 : DataOK(L, td[i])
    /\ StoreOK(b, L, td[Len(td)])
\* One block of a file.
Placing(L, td) == Len(td) = 1 /\ DataOK(L, td[1])
\* The entry in place of the last one, behind which there is a new one.
ExtendOK(b, L, w) ==
    w.use = "entry" /\ w.addr = L /\ Fits(b, L, L, w.val) /\ Area(w.val) = {}
Extending(b, L, td) == Len(td) = 1 /\ Grown(b, L) /\ ExtendOK(b, L, td[1])
\* The new last entry, then the entry in place of the old one.
Growing(b, L, td) ==
    /\ Len(td) = 2 /\ Room(b, L)
    /\ td[1] = [addr |-> L + 1, val |-> LastEntry, use |-> "last"]
    /\ ExtendOK(b, L, td[2])
\* An entry is cleared, and another one takes its name.
Replacing(b, L, td) ==
    /\ Len(td) = 2
    /\ td[1].addr \in FatStart .. L - 1 /\ td[1].val = Cleared /\ td[1].use = "entry"
    /\ td[2].addr \in FatStart .. L - 1 /\ td[2].addr # td[1].addr /\ td[2].use = "entry"
    /\ td[2].val \in EntrySet /\ ~td[2].val.last
    /\ Area(td[2].val) \subseteq L + 1 .. Blocks - 1
    /\ \A c \in (FatStart .. L) \ {td[1].addr, td[2].addr} : Apart(td[2].val, EntryIn(b, c))

----------------------------------------------------------------------------
(* The operations *)

Moving(b, L, td) == td = <<>> \/ Storing(b, L, td) \/ Placing(L, td)
\* The entry that is stored in the end is one of the name.
Makes(td, name) == td # <<>> /\ td[Len(td)].use = "entry" =>
                       td[Len(td)].val.active /\ td[Len(td)].val.name = name

\* What rpmb_fs_remove_internal() will clear.
UndoOK(b, L, h) ==
    \/ Has(b, L, h.name)
    \/ /\ h.addr \in FatStart .. L /\ ~EntryIn(b, h.addr).active
       /\ h.addr = L => Grown(b, L)

UpdateOK(b, L, td, h) == Has(b, L, h.name) /\ Moving(b, L, td) /\ Makes(td, h.name)
SwitchOK(b, L, td, h) == td = <<>> \/ (Has(b, L, h.name) /\ Storing(b, L, td) /\ Len(td) = 1)
CreatingOK(b, L, td, h) ==
    /\ Makes(td, h.name)
    /\ \/ Has(b, L, h.name) /\ Moving(b, L, td)
       \/ /\ h.addr \in FatStart .. L - 1 /\ ~EntryIn(b, h.addr).active
          /\ Storing(b, L, td) /\ Len(td) = 1
       \/ h.addr = L /\ (Extending(b, L, td) \/ Growing(b, L, td))
RenamingOK(b, L, td, h, o) ==
    \/ td = <<>> /\ Has(b, L, Final(o.obj))
    \/ /\ (Storing(b, L, td) /\ Len(td) = 1) \/ Replacing(b, L, td)
       /\ Makes(td, Final(o.obj))
       /\ EntryIn(b, td[Len(td)].addr).active /\ EntryIn(b, td[Len(td)].addr).name = h.name
UndoingOK(b, L, td) == td = <<>> \/ (Storing(b, L, td) /\ Len(td) = 1) \/ Extending(b, L, td)

FileOpOK(b, L, td, h, o) ==
    /\ o.kind \in {"write", "truncate"} => UpdateOK(b, L, td, h)
    /\ o.kind \in {"rename", "remove"} => SwitchOK(b, L, td, h)
    /\ o.kind = "create" =>
          /\ o.stage = "write" => CreatingOK(b, L, td, h)
          /\ o.stage = "rename" => RenamingOK(b, L, td, h, o)
          /\ o.stage = "undo" => td = <<>> /\ UndoOK(b, L, h)
          /\ o.stage = "undoing" => UndoingOK(b, L, td)

FileOps == {"write", "truncate", "rename", "remove", "create"}
\* The handle and the parameters of an operation.
Static(h, o) ==
    /\ h.obj \in Names
    /\ o.kind # "create" => h.name = Final(h.obj)
    /\ o.kind = "create" =>
          /\ o.obj = h.obj /\ h.name = Temporary(h.obj)
          /\ o.data \in DataSeqs(1 .. 2) /\ o.pos \in 0 .. Len(o.data)
          /\ o.stage \in {"write", "rename", "undo", "undoing"}

FormatTodo == <<[addr |-> FatStart, val |-> LastEntry, use |-> "entry"],
                [addr |-> 0, val |-> Partition, use |-> "partition"]>>
FormatOK(b, td) ==
    \/ td = <<>> /\ b[0] = Partition
    \/ td = Tail(FormatTodo) /\ Plain(b) /\ b[FatStart] = LastEntry
    \/ td = FormatTodo /\ Plain(b)

----------------------------------------------------------------------------
(* The state *)

\* The device would take the request.
Fresh == Req.cnt = cnt
Live == todo # <<>> => Fresh
Dummy == op.kind = "setup" /\ op.stage = "dummy"

CountOK ==
    /\ cnt \in 0 .. MaxCnt /\ ram.wr_cnt \in 0 .. cnt
    /\ retry > 0 => ~ram.synced /\ todo # <<>>
    /\ Dummy /\ todo # <<>> /\ retry = 0 => ram.synced
    /\ ram.synced /\ ~ram.dead /\ (ram.par \/ (op.kind = "setup" /\ ~(Dummy /\ todo # <<>>)))
          => ram.wr_cnt = cnt

HeldOK ==
    /\ \A h \in held : /\ h.cnt = cnt /\ h.addr \in Addrs /\ Disk(Apply(blk, h))
                       /\ ram.par => Apply(blk, h)[0] = Partition
    /\ held # {} => \/ retry > 0 \/ ram.dead
                    \/ ~ram.par /\ (op.kind = "idle" \/ (Dummy /\ todo # <<>>))
    /\ retry > 0 /\ ~Dummy => held \subseteq {Req}

IdleOK ==
    /\ op = Idle /\ todo = <<>> /\ retry = 0
    /\ ram.dead \/ ~ram.par => fh = NoHandle
    /\ fh # NoHandle => /\ fh.obj \in Names /\ fh.name = Final(fh.obj)
                        /\ Has(blk, LastIn(blk), fh.name)
SetupOK ==
    /\ ~ram.par /\ ~ram.dead /\ fh = NoHandle
    /\ op.stage \in {"dummy", "format"}
    /\ op.stage = "dummy" /\ todo # <<>> =>
          /\ Len(todo) = 1 /\ todo[1].addr = 0 /\ todo[1].use = "dummy"
          /\ Fresh => todo[1].val = blk[0]
    /\ op.stage = "format" /\ Live => FormatOK(blk, todo)
OpOK ==
    /\ ram.par => blk[0] = Partition
    /\ op.kind \in FileOps \cup {"idle", "setup"}
    /\ op.kind = "idle" => IdleOK
    /\ op.kind = "setup" => SetupOK
    /\ op.kind \in FileOps =>
          /\ ram.par /\ ~ram.dead /\ Static(fh, op)
          /\ Live => FileOpOK(blk, LastIn(blk), todo, fh, op)

Writes == [addr : Addrs, val : BlockValues,
           use : {"dummy", "partition", "last", "data", "entry"}]
HandleSet == [obj : Names \cup {NoName}, name : FileNames \cup {Final(NoName)},
              addr : Addrs, ent : EntrySet]
OpForm(o) ==
    /\ o = [kind |-> o.kind, stage |-> o.stage, obj |-> o.obj, overwrite |-> o.overwrite,
            data |-> o.data, pos |-> o.pos, ent |-> o.ent, new |-> o.new,
            before |-> o.before, mid |-> o.mid]
    /\ o.ent \in EntrySet
\* Every variable has its type.
Types ==
    /\ ram \in [wr_cnt : Nat, synced : BOOLEAN, dead : BOOLEAN, par : BOOLEAN]
    /\ fh \in HandleSet
    /\ todo \in Seq(Writes)
    /\ retry \in 0 .. MaxRetries - 1
    /\ OpForm(op)
    /\ DOMAIN allowed = Names

Inv == Types /\ Disk(blk) /\ CountOK /\ HeldOK /\ OpOK

----------------------------------------------------------------------------
(* Numbers *)

LEMMA Consts ==
    /\ {Blocks, MaxLen, TmpBlocks, MaxRetries, MaxCnt, MaxFaults, MaxCuts} \subseteq Nat
    /\ Blocks \in Nat /\ MaxLen \in Nat /\ TmpBlocks \in Nat \ {0} /\ MaxRetries \in Nat \ {0}
    /\ MaxCnt \in Nat /\ Zero \in Values /\ NoName \notin Names /\ FatStart = 2
BY ConstantsAssumption DEF FatStart

\* A non-empty set of naturals has a least element.
LEMMA Least ==
    ASSUME NEW S, S \subseteq Nat, S # {}
    PROVE  \E m \in S : \A k \in S : m <= k
<1> DEFINE R == OpToRel(<, Nat)
<1>1. IsWellFoundedOn(R, Nat)
  BY NatLessThanWellFounded
<1>2. ASSUME NEW x \in Nat, NEW y \in Nat, x < y PROVE <<x, y>> \in R
  BY <1>2 DEF OpToRel
<1> HIDE DEF R
<1>3. PICK m \in S : \A y \in S : ~(<<y, m>> \in R)
  BY <1>1, WFMin
<1>4. ASSUME NEW k \in S PROVE m <= k
  <2>1. m \in Nat /\ k \in Nat
    OBVIOUS
  <2>2. ~(k < m)
    BY <1>2, <1>3, <2>1, Zenon
  <2> QED
    BY <2>1, <2>2
<1> QED
  BY <1>4

LEMMA MinIs ==
    ASSUME NEW S, S \subseteq Nat, S # {}
    PROVE  Min(S) \in S /\ \A k \in S : Min(S) <= k
BY Least, Zenon DEF Min

\* So does a bounded one a greatest.
LEMMA MaxIs ==
    ASSUME NEW n \in Nat, NEW S, S \subseteq 0 .. n, S # {}
    PROVE  Max(S) \in S
<1> DEFINE T == {n - s : s \in S}
<1>1. T \subseteq Nat /\ T # {}
  <2>1. ASSUME NEW s \in S PROVE n - s \in Nat
    OBVIOUS
  <2>2. T # {}
    OBVIOUS
  <2> QED
    BY <2>1, <2>2
<1> HIDE DEF T
<1>2. PICK m \in T : \A k \in T : m <= k
  BY <1>1, Least
<1>3. PICK s \in S : m = n - s
  BY DEF T
<1>4. ASSUME NEW y \in S PROVE s >= y
  <2>1. n - y \in T
    BY DEF T
  <2> QED
    BY <1>2, <1>3, <2>1
<1>5. \E x \in S : \A y \in S : x >= y
  BY <1>4
<1> QED
  BY <1>5, Zenon DEF Max

----------------------------------------------------------------------------
(* Blocks and entries *)

LEMMA Kinds ==
    /\ EntrySet \subseteq BlockValues
    /\ \A v \in BlockValues : v.kind = "entry" => v \in EntrySet
    /\ Cleared \in EntrySet /\ ~Cleared.active /\ ~Cleared.last /\ Cleared.kind = "entry"
    /\ Area(Cleared) = {}
    /\ LastEntry \in EntrySet /\ ~LastEntry.active /\ LastEntry.last /\ LastEntry.kind = "entry"
    /\ Area(LastEntry) = {}
    /\ Blank \in BlockValues /\ Partition \in BlockValues
    /\ Blank.kind # "entry" /\ Partition.kind # "entry" /\ Blank # Partition
    /\ \A v \in Values : DataBlock(v) \in BlockValues /\ DataBlock(v).kind = "data"
    /\ Blank # LastEntry /\ Partition # LastEntry
<1>1. EntrySet \subseteq BlockValues
  BY DEF EntrySet, BlockValues
<1>2. \A v \in BlockValues : v.kind = "entry" => v \in EntrySet
  BY DEF EntrySet, BlockValues, Blank, Partition, DataBlock
<1>3. /\ Cleared \in EntrySet /\ ~Cleared.active /\ ~Cleared.last /\ Cleared.kind = "entry"
      /\ LastEntry \in EntrySet /\ ~LastEntry.active /\ LastEntry.last /\ LastEntry.kind = "entry"
  <2>1. 0 \in 0 .. Blocks /\ 0 \in 0 .. MaxLen
    BY Consts
  <2>2. Entry(NoName, 0, 0) \in EntrySet /\ ~Entry(NoName, 0, 0).last
    BY <2>1 DEF EntrySet, Entry
  <2>3. Cleared \in EntrySet /\ ~Cleared.active /\ ~Cleared.last
    BY <2>2 DEF EntrySet, Cleared
  <2>4. LastEntry \in EntrySet /\ ~LastEntry.active /\ LastEntry.last
    BY <2>3 DEF EntrySet, LastEntry
  <2> QED
    BY <2>3, <2>4 DEF EntrySet
<1>4. /\ Blank \in BlockValues /\ Partition \in BlockValues
      /\ Blank.kind # "entry" /\ Partition.kind # "entry" /\ Blank # Partition
      /\ \A v \in Values : DataBlock(v) \in BlockValues /\ DataBlock(v).kind = "data"
  BY DEF BlockValues, Blank, Partition, DataBlock
<1> QED
  BY <1>1, <1>2, <1>3, <1>4 DEF Area

LEMMA EntryType ==
    ASSUME NEW b, IsDisk(b), NEW a \in Addrs
    PROVE  EntryIn(b, a) \in EntrySet
BY Kinds DEF IsDisk, EntryIn

LEMMA ApplyIs ==
    ASSUME NEW b, IsDisk(b), NEW r, r.addr \in Addrs, r.val \in BlockValues
    PROVE  /\ IsDisk(Apply(b, r))
           /\ Apply(b, r)[r.addr] = r.val
           /\ \A a \in Addrs \ {r.addr} : Apply(b, r)[a] = b[a]
           /\ \A a \in Addrs \ {r.addr} : EntryIn(Apply(b, r), a) = EntryIn(b, a)
           /\ r.val.kind = "entry" => EntryIn(Apply(b, r), r.addr) = r.val
BY DEF IsDisk, Apply, EntryIn

LEMMA ApartTwo ==
    ASSUME NEW e, NEW f
    PROVE  Apart(e, f) <=> Apart(f, e)
BY DEF Apart

LEMMA ApartIdle ==
    ASSUME NEW e, NEW f \in EntrySet, ~f.active
    PROVE  Apart(e, f) /\ Apart(f, e) /\ Area(f) = {}
BY DEF Apart, Area

----------------------------------------------------------------------------
(* Where the FAT ends *)

LEMMA EndIs ==
    ASSUME NEW b, NEW L, Ends(b, L), WellUsed
    PROVE  LastIn(b) = L
<1> DEFINE S == {a \in FatStart .. Blocks - 1 : EntryIn(b, a).last}
<1>1. L \in S /\ L \in Nat
  BY Consts DEF Ends
<1>2. ASSUME NEW k \in S PROVE L <= k
  BY <1>1, Consts DEF Ends
<1>3. ASSUME NEW x \in S, \A y \in S : x <= y PROVE x = L
  BY <1>1, <1>2, <1>3, Consts
<1>4. Min(S) = L
  <2> HIDE DEF S
  <2>1. \E x \in S : \A y \in S : x <= y
    BY <1>1, <1>2
  <2>2. Min(S) \in S /\ \A y \in S : Min(S) <= y
    BY <2>1, Zenon DEF Min
  <2> QED
    BY <1>3, <2>2
<1> QED
  BY <1>4 DEF LastIn

LEMMA TableEnd ==
    ASSUME NEW b, NEW L, Table(b, L), WellUsed
    PROVE  /\ LastIn(b) = L /\ L \in Addrs /\ L \in FatStart .. Blocks - 1
           /\ FatStart .. L \subseteq Addrs
           /\ EntryIn(b, L).last /\ ~EntryIn(b, L).active
BY EndIs, Consts DEF Table, Ends, Addrs, WellUsed

\* The first and the second block hold no part of the FAT, nor a file.
LEMMA Formats ==
    ASSUME NEW b, IsDisk(b), NEW L, b[0] = Partition, Table(b, L), WellUsed
    PROVE  Formatted(b) /\ Disk(b)
BY TableEnd DEF Formatted, Disk

LEMMA DiskTable ==
    ASSUME NEW b, Disk(b), b[0] = Partition, WellUsed
    PROVE  Table(b, LastIn(b)) /\ IsDisk(b) /\ Formatted(b)
<1>1. 0 \in Addrs /\ 0 # FatStart
  BY Consts DEF Addrs, WellUsed
<1> QED
  BY <1>1, Kinds DEF Disk, Plain, Formatted

----------------------------------------------------------------------------
(* A block is written *)

\* Outside of the FAT.
LEMMA DataStore ==
    ASSUME WellUsed, NEW b, IsDisk(b), NEW L, Table(b, L), NEW r,
           r.addr \in L + 1 .. Blocks - 1, r.val \in BlockValues
    PROVE  /\ IsDisk(Apply(b, r)) /\ Table(Apply(b, r), L) /\ Apply(b, r)[0] = b[0]
           /\ \A a \in FatStart .. L : EntryIn(Apply(b, r), a) = EntryIn(b, a)
<1>1. L \in Nat /\ L \in FatStart .. Blocks - 1 /\ FatStart .. L \subseteq Addrs \ {r.addr}
      /\ r.addr \in Addrs /\ r.addr # 0 /\ 0 \in Addrs
  BY TableEnd, Consts DEF Addrs
<1>2. IsDisk(Apply(b, r)) /\ Apply(b, r)[0] = b[0]
  BY <1>1, ApplyIs
<1>3. \A a \in FatStart .. L : EntryIn(Apply(b, r), a) = EntryIn(b, a)
  BY <1>1, ApplyIs
<1>4. Table(Apply(b, r), L)
  <2>1. L \in FatStart .. L /\ FatStart .. L - 1 \subseteq FatStart .. L
    BY <1>1, Consts
  <2> QED
    BY <1>3, <2>1 DEF Table, Ends
<1> QED
  BY <1>2, <1>3, <1>4

\* An entry before the last one.
LEMMA EntryStore ==
    ASSUME WellUsed, NEW b, IsDisk(b), NEW L, Table(b, L), NEW r,
           r.addr \in FatStart .. L - 1, Fits(b, L, r.addr, r.val)
    PROVE  /\ IsDisk(Apply(b, r)) /\ Table(Apply(b, r), L) /\ Apply(b, r)[0] = b[0]
           /\ EntryIn(Apply(b, r), r.addr) = r.val
           /\ \A a \in FatStart .. L : a # r.addr => EntryIn(Apply(b, r), a) = EntryIn(b, a)
<1> DEFINE c == Apply(b, r)
<1>1. /\ L \in Nat /\ L \in FatStart .. Blocks - 1 /\ FatStart .. L \subseteq Addrs
      /\ r.addr \in Addrs /\ r.addr # 0 /\ 0 \in Addrs /\ r.addr # L /\ r.addr \in FatStart .. L
      /\ L \in FatStart .. L
  BY TableEnd, Consts DEF Addrs
<1>2. r.val \in BlockValues /\ r.val \in EntrySet /\ r.val.kind = "entry"
  BY Kinds DEF Fits, EntrySet
<1>3. IsDisk(c) /\ c[0] = b[0] /\ EntryIn(c, r.addr) = r.val
  BY <1>1, <1>2, ApplyIs
<1>4. \A a \in FatStart .. L : a # r.addr => EntryIn(c, a) = EntryIn(b, a)
  BY <1>1, <1>2, ApplyIs
<1> HIDE DEF c
<1>5. Ends(c, L)
  <2>1. EntryIn(c, L).last /\ ~EntryIn(c, L).active
    BY <1>1, <1>4 DEF Table, Ends
  <2>2. ASSUME NEW a \in FatStart .. L - 1 PROVE ~EntryIn(c, a).last
    <3>1. a \in FatStart .. L
      BY <1>1, Consts
    <3>2. CASE a = r.addr
      BY <3>2, <1>3 DEF Fits
    <3>3. CASE a # r.addr
      BY <3>1, <3>3, <1>4 DEF Table, Ends
    <3> QED
      BY <3>2, <3>3
  <2> QED
    BY <1>1, <2>1, <2>2 DEF Ends
<1>6. ASSUME NEW a \in FatStart .. L PROVE Area(EntryIn(c, a)) \subseteq L + 1 .. Blocks - 1
  BY <1>3, <1>4 DEF Table, Fits
<1>7. ASSUME NEW a \in FatStart .. L, NEW d \in FatStart .. L, a # d
      PROVE  Apart(EntryIn(c, a), EntryIn(c, d))
  <2>1. CASE a = r.addr
    BY <2>1, <1>7, <1>3, <1>4, Zenon DEF Fits
  <2>2. CASE d = r.addr
    BY <2>2, <1>7, <1>3, <1>4, ApartTwo, Zenon DEF Fits
  <2>3. CASE a # r.addr /\ d # r.addr
    BY <2>3, <1>7, <1>4 DEF Table
  <2> QED
    BY <2>1, <2>2, <2>3
<1>8. Table(c, L)
  BY <1>5, <1>6, <1>7 DEF Table
<1> QED
  BY <1>3, <1>4, <1>8 DEF c

\* The last one, when the next one is marked.
LEMMA ExtendStore ==
    ASSUME WellUsed, NEW b, IsDisk(b), NEW L, Table(b, L), Grown(b, L), NEW r,
           ExtendOK(b, L, r)
    PROVE  /\ IsDisk(Apply(b, r)) /\ Table(Apply(b, r), L + 1) /\ Apply(b, r)[0] = b[0]
           /\ EntryIn(Apply(b, r), L) = r.val /\ ~EntryIn(Apply(b, r), L + 1).active
           /\ \A a \in FatStart .. L : a # L => EntryIn(Apply(b, r), a) = EntryIn(b, a)
<1> DEFINE c == Apply(b, r)
<1>1. /\ L \in Nat /\ L \in FatStart .. Blocks - 1 /\ FatStart .. L \subseteq Addrs
      /\ r.addr \in Addrs /\ r.addr # 0 /\ 0 \in Addrs /\ r.addr = L /\ L \in FatStart .. L
      /\ L + 1 \in FatStart .. Blocks - 1 /\ L + 1 \in Addrs /\ L + 1 # r.addr
  BY TableEnd, Consts DEF Addrs, ExtendOK, Grown, Room
<1>2. r.val \in BlockValues /\ r.val \in EntrySet /\ r.val.kind = "entry" /\ ~r.val.last
  BY Kinds DEF ExtendOK, Fits, EntrySet
<1>3. IsDisk(c) /\ c[0] = b[0] /\ EntryIn(c, L) = r.val
  BY <1>1, <1>2, ApplyIs
<1>4. \A a \in FatStart .. L : a # L => EntryIn(c, a) = EntryIn(b, a)
  BY <1>1, <1>2, ApplyIs
<1>5. EntryIn(c, L + 1) = LastEntry
  BY <1>1, <1>2, ApplyIs, Kinds DEF Grown, EntryIn
<1> HIDE DEF c
<1>6. Ends(c, L + 1)
  <2>1. ASSUME NEW a \in FatStart .. L + 1 - 1 PROVE ~EntryIn(c, a).last
    <3>1. a \in FatStart .. L /\ (a # L => a \in FatStart .. L - 1)
      BY <1>1, Consts
    <3>2. CASE a = L
      BY <3>2, <1>3, <1>2
    <3>3. CASE a # L
      BY <3>1, <3>3, <1>4 DEF Table, Ends
    <3> QED
      BY <3>2, <3>3
  <2> QED
    BY <1>1, <1>5, <2>1, Kinds DEF Ends
<1>7. ASSUME NEW a \in FatStart .. L + 1 PROVE Area(EntryIn(c, a)) \subseteq L + 1 + 1 .. Blocks - 1
  <2>1. CASE a = L + 1
    BY <2>1, <1>5, Kinds
  <2>2. CASE a = L
    BY <2>2, <1>3 DEF ExtendOK
  <2>3. CASE a # L + 1 /\ a # L
    <3>1. a \in FatStart .. L
      BY <1>1, <2>3, Consts
    <3>2. EntryIn(c, a) = EntryIn(b, a)
      BY <3>1, <2>3, <1>4
    <3>3. Area(EntryIn(b, a)) \subseteq L + 1 .. Blocks - 1 /\ L + 1 \notin Area(EntryIn(b, a))
      BY <3>1 DEF Table, Grown, Room
    <3> HIDE DEF Area
    <3> QED
      BY <3>2, <3>3, <1>1, Consts
  <2> QED
    BY <2>1, <2>2, <2>3
<1>8. ASSUME NEW a \in FatStart .. L + 1, NEW d \in FatStart .. L + 1, a # d
      PROVE  Apart(EntryIn(c, a), EntryIn(c, d))
  <2>0. \A x \in FatStart .. L + 1 : x # L + 1 => x \in FatStart .. L
    BY <1>1, Consts
  <2>1. CASE a = L + 1 \/ d = L + 1
    BY <2>1, <1>5, ApartIdle, Kinds
  <2>2. CASE a = L /\ d # L + 1
    BY <2>0, <2>2, <1>8, <1>3, <1>4, Zenon DEF Fits, ExtendOK
  <2>3. CASE d = L /\ a # L + 1
    BY <2>0, <2>3, <1>8, <1>3, <1>4, ApartTwo, Zenon DEF Fits, ExtendOK
  <2>4. CASE a \notin {L, L + 1} /\ d \notin {L, L + 1}
    BY <2>0, <2>4, <1>8, <1>4 DEF Table
  <2> QED
    BY <2>1, <2>2, <2>3, <2>4
<1>9. Table(c, L + 1)
  BY <1>6, <1>7, <1>8 DEF Table
<1> QED
  BY <1>3, <1>4, <1>5, <1>9, Kinds DEF c

----------------------------------------------------------------------------
(* The next block write of an operation *)

Same(b, c, L) == \A a \in FatStart .. L : EntryIn(c, a) = EntryIn(b, a)
SameBut(b, c, L, x) == \A a \in FatStart .. L : a # x => EntryIn(c, a) = EntryIn(b, a)

LEMMA Filled ==
    ASSUME NEW td \in Seq(Writes)
    PROVE  Len(td) \in Nat /\ (td = <<>> <=> Len(td) = 0)
<1>1. Len(<<>>) = 0
  OBVIOUS
<1>2. Len(td) \in Nat /\ (Len(td) = 0 => td = <<>>)
  OBVIOUS
<1> QED
  BY <1>1, <1>2

LEMMA TailIs ==
    ASSUME NEW td \in Seq(Writes), td # <<>>
    PROVE  /\ Head(td) = td[1] /\ td[1] \in Writes /\ Len(td) \in Nat \ {0}
           /\ Tail(td) \in Seq(Writes)
           /\ Len(Tail(td)) = Len(td) - 1
           /\ \A i \in 1 .. Len(td) - 1 : Tail(td)[i] = td[i + 1]
           /\ Len(td) = 1 <=> Tail(td) = <<>>
           /\ Len(td) # 1 => Tail(td)[Len(Tail(td))] = td[Len(td)]
<1>1. Head(td) = td[1] /\ Len(td) \in Nat \ {0} /\ td[1] \in Writes
  OBVIOUS
<1>2. /\ Tail(td) \in Seq(Writes) /\ Len(Tail(td)) = Len(td) - 1
      /\ \A i \in 1 .. Len(td) - 1 : Tail(td)[i] = td[i + 1]
  OBVIOUS
<1>3. Len(td) = 1 <=> Tail(td) = <<>>
  <2> HIDE DEF Writes
  <2>1. Tail(td) = <<>> <=> Len(Tail(td)) = 0
    BY <1>2, Filled
  <2> QED
    BY <1>1, <1>2, <2>1
<1> QED
  BY <1>1, <1>2, <1>3

LEMMA WriteType ==
    ASSUME NEW w \in Writes
    PROVE  w.addr \in Addrs /\ w.val \in BlockValues
BY DEF Writes

LEMMA SameHas ==
    ASSUME NEW b, NEW c, NEW L, Same(b, c, L)
    PROVE  /\ \A name : Has(c, L, name) <=> Has(b, L, name)
           /\ \A a, e : Fits(c, L, a, e) <=> Fits(b, L, a, e)
<1>1. \A name : Has(c, L, name) <=> Has(b, L, name)
  BY DEF Has, Same
<1>2. ASSUME NEW a, NEW e PROVE Fits(c, L, a, e) <=> Fits(b, L, a, e)
  BY DEF Fits, Same
<1> QED
  BY <1>1, <1>2

LEMMA StoringStep ==
    ASSUME WellUsed, NEW b, IsDisk(b), NEW L, Table(b, L), NEW td \in Seq(Writes), Storing(b, L, td)
    PROVE  LET c == Apply(b, Head(td))
               r == td[Len(td)]
           IN  /\ IsDisk(c) /\ Table(c, L) /\ c[0] = b[0] /\ r.addr \in FatStart .. L - 1
               /\ Len(td) # 1 => /\ Same(b, c, L) /\ Storing(c, L, Tail(td)) /\ Tail(td) # <<>>
                                 /\ Tail(td)[Len(Tail(td))] = r
               /\ Len(td) = 1 => /\ Tail(td) = <<>> /\ EntryIn(c, r.addr) = r.val
                                 /\ SameBut(b, c, L, r.addr) /\ Head(td) = r
<1> DEFINE c == Apply(b, Head(td))
           r == td[Len(td)]
<1>1. /\ td # <<>> /\ r.addr \in FatStart .. L - 1 /\ Fits(b, L, r.addr, r.val) /\ r.use = "entry"
  BY DEF Storing, StoreOK
<1>2. CASE Len(td) = 1
  <2>1. Head(td) = r /\ Tail(td) = <<>>
    BY <1>1, <1>2, TailIs
  <2> QED
    BY <1>1, <1>2, <2>1, EntryStore DEF SameBut
<1>3. CASE Len(td) # 1
  <2>1. /\ Head(td) = td[1] /\ Len(td) - 1 \in Nat \ {0} /\ Tail(td) # <<>> /\ Len(td) \in Nat
        /\ Tail(td)[Len(Tail(td))] = r /\ Len(Tail(td)) = Len(td) - 1
    BY <1>1, <1>3, TailIs
  <2>2. DataOK(L, td[1])
    BY <2>1 DEF Storing
  <2>3. /\ IsDisk(c) /\ Table(c, L) /\ c[0] = b[0] /\ Same(b, c, L)
    BY <2>1, <2>2, DataStore DEF Same, DataOK
  <2> HIDE DEF c
  <2>4. ASSUME NEW i \in 1 .. Len(Tail(td)) - 1 PROVE DataOK(L, Tail(td)[i])
    <3>1. i + 1 \in 1 .. Len(td) - 1 /\ Tail(td)[i] = td[i + 1]
      BY <1>1, <2>1, TailIs
    <3> QED
      BY <3>1 DEF Storing
  <2>5. StoreOK(c, L, r)
    BY <1>1, <2>3, SameHas DEF StoreOK
  <2>6. Storing(c, L, Tail(td))
    BY <2>1, <2>4, <2>5 DEF Storing
  <2> QED
    BY <1>1, <1>3, <2>1, <2>3, <2>6 DEF c
<1> QED
  BY <1>2, <1>3

LEMMA PlacingStep ==
    ASSUME WellUsed, NEW b, IsDisk(b), NEW L, Table(b, L), NEW td \in Seq(Writes), Placing(L, td)
    PROVE  LET c == Apply(b, Head(td))
           IN  /\ IsDisk(c) /\ Table(c, L) /\ c[0] = b[0]
               /\ td # <<>> /\ Tail(td) = <<>> /\ Same(b, c, L)
<1>1. td # <<>> /\ Head(td) = td[1] /\ Tail(td) = <<>>
  <2>1. td # <<>>
    BY Filled DEF Placing
  <2> QED
    BY <2>1, TailIs DEF Placing
<1> QED
  BY <1>1, DataStore DEF Placing, DataOK, Same

LEMMA ExtendingStep ==
    ASSUME WellUsed, NEW b, IsDisk(b), NEW L, Table(b, L), NEW td \in Seq(Writes),
           Extending(b, L, td)
    PROVE  LET c == Apply(b, Head(td))
           IN  /\ IsDisk(c) /\ Table(c, L + 1) /\ c[0] = b[0]
               /\ td # <<>> /\ Tail(td) = <<>> /\ Len(td) = 1 /\ Head(td) = td[1]
               /\ td[1].use = "entry"
               /\ EntryIn(c, L) = td[1].val /\ SameBut(b, c, L, L) /\ ~EntryIn(c, L + 1).active
<1>1. td # <<>> /\ Head(td) = td[1] /\ Tail(td) = <<>>
  <2>1. td # <<>>
    BY Filled DEF Extending
  <2> QED
    BY <2>1, TailIs DEF Extending
<1> QED
  BY <1>1, ExtendStore DEF Extending, ExtendOK, SameBut

LEMMA GrowingStep ==
    ASSUME WellUsed, NEW b, IsDisk(b), NEW L, Table(b, L), NEW td \in Seq(Writes),
           Growing(b, L, td)
    PROVE  LET c == Apply(b, Head(td))
           IN  /\ IsDisk(c) /\ Table(c, L) /\ c[0] = b[0] /\ td # <<>>
               /\ Same(b, c, L) /\ Extending(c, L, Tail(td)) /\ Tail(td)[1] = td[2] /\ Len(td) = 2
               /\ td[2].use = "entry"
<1> DEFINE c == Apply(b, Head(td))
<1>1. td # <<>> /\ Len(td) = 2
  BY Filled DEF Growing
<1>2. /\ Head(td) = td[1] /\ Len(Tail(td)) = 1 /\ Tail(td)[1] = td[2]
      /\ Tail(td) # <<>>
  <2>1. 1 \in 1 .. Len(td) - 1
    BY <1>1
  <2> QED
    BY <1>1, <2>1, TailIs
<1>3. L \in Nat /\ L + 1 \in L + 1 .. Blocks - 1 /\ L + 1 \in Addrs
  BY TableEnd, Consts DEF Growing, Room, Addrs
<1>4. td[1].addr = L + 1 /\ td[1].val = LastEntry /\ td[1].val \in BlockValues
  BY Kinds DEF Growing
<1>5. IsDisk(c) /\ Table(c, L) /\ c[0] = b[0] /\ Same(b, c, L)
  BY <1>2, <1>3, <1>4, DataStore DEF Same
<1>6. c[L + 1] = LastEntry
  BY <1>2, <1>3, <1>4, ApplyIs
<1> HIDE DEF c
<1>7. Grown(c, L)
  BY <1>5, <1>6 DEF Grown, Growing, Room, Same
<1>8. ExtendOK(c, L, td[2])
  BY <1>5, SameHas DEF Growing, ExtendOK
<1>9. Extending(c, L, Tail(td))
  BY <1>2, <1>7, <1>8 DEF Extending
<1> QED
  BY <1>1, <1>2, <1>5, <1>9 DEF c, Growing, ExtendOK

LEMMA ReplacingStep ==
    ASSUME WellUsed, NEW b, IsDisk(b), NEW L, Table(b, L), NEW td \in Seq(Writes),
           Replacing(b, L, td)
    PROVE  LET c == Apply(b, Head(td))
           IN  /\ IsDisk(c) /\ Table(c, L) /\ c[0] = b[0] /\ td # <<>> /\ Len(td) = 2
               /\ SameBut(b, c, L, td[1].addr) /\ EntryIn(c, td[1].addr) = Cleared
               /\ Storing(c, L, Tail(td)) /\ Len(Tail(td)) = 1 /\ Tail(td)[1] = td[2]
               /\ td[2].addr \in FatStart .. L - 1 /\ td[2].addr # td[1].addr
<1> DEFINE c == Apply(b, Head(td))
<1>1. td # <<>> /\ Len(td) = 2
  <2>1. Len(td) = 2
    BY DEF Replacing
  <2> QED
    BY <2>1, Filled
<1>2. /\ Head(td) = td[1] /\ Len(Tail(td)) = 1 /\ Tail(td)[1] = td[2]
      /\ Tail(td) # <<>>
  <2>1. 1 \in 1 .. Len(td) - 1
    BY <1>1
  <2> QED
    BY <1>1, <2>1, TailIs
<1>3. Fits(b, L, td[1].addr, td[1].val)
  BY Kinds, ApartIdle, ApartTwo DEF Fits, Replacing
<1>4. /\ IsDisk(c) /\ Table(c, L) /\ c[0] = b[0]
      /\ SameBut(b, c, L, td[1].addr) /\ EntryIn(c, td[1].addr) = Cleared
  BY <1>2, <1>3, EntryStore DEF Replacing, SameBut
<1> HIDE DEF c
<1>5. ASSUME NEW x \in (FatStart .. L) \ {td[2].addr} PROVE Apart(td[2].val, EntryIn(c, x))
  <2>1. CASE x = td[1].addr
    BY <2>1, <1>4, ApartIdle, Kinds
  <2>2. CASE x # td[1].addr
    BY <2>2, <1>4 DEF SameBut, Replacing
  <2> QED
    BY <2>1, <2>2
<1>6. StoreOK(c, L, td[2])
  BY <1>5 DEF StoreOK, Fits, Replacing
<1>7. Storing(c, L, Tail(td))
  <2>1. Tail(td) # <<>> /\ \A i \in 1 .. Len(Tail(td)) - 1 : DataOK(L, Tail(td)[i])
    <3>1. Len(Tail(td)) = 1 /\ Tail(td) # <<>>
      BY <1>2, Zenon
    <3>2. ASSUME NEW n, n = 1, NEW i \in 1 .. n - 1 PROVE FALSE
      BY <3>2
    <3> QED
      BY <3>1, <3>2, Zenon
  <2> QED
    BY <1>2, <1>6, <2>1 DEF Storing
<1> QED
  BY <1>1, <1>2, <1>4, <1>7 DEF c, Replacing

Goes(c, M, b) == IsDisk(c) /\ c[0] = b[0] /\ Table(c, M)

LEMMA MovingStep ==
    ASSUME WellUsed, NEW b, IsDisk(b), NEW L, Table(b, L), NEW td \in Seq(Writes), td # <<>>,
           NEW name, Moving(b, L, td), Makes(td, name), Has(b, L, name)
    PROVE  LET c == Apply(b, Head(td))
           IN  /\ Goes(c, L, b) /\ Moving(c, L, Tail(td)) /\ Makes(Tail(td), name)
               /\ Has(c, L, name)
<1> DEFINE c == Apply(b, Head(td))
<1>1. CASE Placing(L, td)
  BY <1>1, PlacingStep, SameHas DEF Goes, Moving, Makes
<1>2. CASE Storing(b, L, td) /\ Len(td) = 1
  <2> DEFINE r == td[Len(td)]
  <2>1. /\ IsDisk(c) /\ Table(c, L) /\ c[0] = b[0] /\ r.addr \in FatStart .. L - 1
        /\ Tail(td) = <<>> /\ EntryIn(c, r.addr) = r.val
    BY <1>2, StoringStep
  <2>2. r.val.active /\ r.val.name = name
    BY <1>2 DEF Makes, Storing, StoreOK
  <2> HIDE DEF c, r
  <2>3. r.addr \in FatStart .. L
    BY <2>1, TableEnd, Consts
  <2>4. Has(c, L, name)
    BY <2>1, <2>2, <2>3 DEF Has
  <2> QED
    BY <2>1, <2>4 DEF Goes, Moving, Makes, c
<1>3. CASE Storing(b, L, td) /\ Len(td) # 1
  <2>1. /\ IsDisk(c) /\ Table(c, L) /\ c[0] = b[0]
        /\ Same(b, c, L) /\ Storing(c, L, Tail(td)) /\ Tail(td) # <<>>
        /\ Tail(td)[Len(Tail(td))] = td[Len(td)]
    BY <1>3, StoringStep
  <2> HIDE DEF c
  <2> QED
    BY <2>1, SameHas DEF Goes, Moving, Makes, c
<1> QED
  BY <1>1, <1>2, <1>3 DEF Moving

LEMMA SingleStep ==
    ASSUME WellUsed, NEW b, IsDisk(b), NEW L, Table(b, L), NEW td \in Seq(Writes),
           Storing(b, L, td), Len(td) = 1
    PROVE  LET c == Apply(b, Head(td))
           IN  /\ Goes(c, L, b) /\ Tail(td) = <<>>
               /\ \A name : Makes(td, name) => Has(c, L, name)
<1> DEFINE c == Apply(b, Head(td))
           r == td[Len(td)]
<1>1. /\ IsDisk(c) /\ Table(c, L) /\ c[0] = b[0] /\ r.addr \in FatStart .. L - 1
      /\ Tail(td) = <<>> /\ EntryIn(c, r.addr) = r.val
  BY StoringStep
<1>2. \A name : Makes(td, name) => r.val.active /\ r.val.name = name
  BY DEF Makes, Storing, StoreOK
<1> HIDE DEF c, r
<1>3. r.addr \in FatStart .. L
  BY <1>1, TableEnd, Consts
<1>4. \A name : Makes(td, name) => Has(c, L, name)
  BY <1>1, <1>2, <1>3 DEF Has
<1> QED
  BY <1>1, <1>4 DEF Goes, c

LEMMA EmptyMakes ==
    ASSUME NEW b, NEW L, NEW name
    PROVE  Makes(<<>>, name) /\ Moving(b, L, <<>>)
BY DEF Makes, Moving

LEMMA CreatingStep ==
    ASSUME WellUsed, NEW b, IsDisk(b), NEW L, Table(b, L), NEW td \in Seq(Writes), td # <<>>,
           NEW h, CreatingOK(b, L, td, h)
    PROVE  LET c == Apply(b, Head(td))
           IN  \E M : Goes(c, M, b) /\ CreatingOK(c, M, Tail(td), h)
<1> DEFINE c == Apply(b, Head(td))
<1>0. L \in FatStart .. L /\ L \in FatStart .. L + 1 /\ L \in Nat
  BY TableEnd, Consts
<1>1. CASE Has(b, L, h.name) /\ Moving(b, L, td)
  <2>1. Goes(c, L, b) /\ Moving(c, L, Tail(td)) /\ Makes(Tail(td), h.name) /\ Has(c, L, h.name)
    BY <1>1, MovingStep DEF CreatingOK
  <2> QED
    BY <2>1 DEF CreatingOK
<1>2. CASE Storing(b, L, td) /\ Len(td) = 1
  <2>1. Goes(c, L, b) /\ Tail(td) = <<>> /\ Has(c, L, h.name)
    BY <1>2, SingleStep DEF CreatingOK
  <2> QED
    BY <2>1, EmptyMakes DEF CreatingOK
<1>3. CASE Extending(b, L, td)
  <2>1. /\ IsDisk(c) /\ Table(c, L + 1) /\ c[0] = b[0]
        /\ Tail(td) = <<>> /\ Len(td) = 1 /\ td[1].use = "entry" /\ EntryIn(c, L) = td[1].val
    BY <1>3, ExtendingStep
  <2>2. td[1].val.active /\ td[1].val.name = h.name
    BY <2>1 DEF Makes, CreatingOK
  <2> HIDE DEF c
  <2>3. Has(c, L + 1, h.name)
    BY <1>0, <2>1, <2>2 DEF Has
  <2> QED
    BY <2>1, <2>3, EmptyMakes DEF CreatingOK, Goes, c
<1>4. CASE h.addr = L /\ Growing(b, L, td)
  <2>1. /\ IsDisk(c) /\ Table(c, L) /\ c[0] = b[0]
        /\ Same(b, c, L) /\ Extending(c, L, Tail(td)) /\ Tail(td)[1] = td[2] /\ Len(td) = 2
        /\ td[2].use = "entry"
    BY <1>4, GrowingStep
  <2>2. Len(Tail(td)) = 1
    BY <2>1 DEF Extending
  <2>3. Makes(Tail(td), h.name)
    BY <2>1, <2>2 DEF Makes, CreatingOK
  <2> QED
    BY <1>4, <2>1, <2>3 DEF CreatingOK, Goes
<1> QED
  BY <1>1, <1>2, <1>3, <1>4 DEF CreatingOK

LEMMA RenamingStep ==
    ASSUME WellUsed, NEW b, IsDisk(b), NEW L, Table(b, L), NEW td \in Seq(Writes), td # <<>>,
           NEW h, NEW o, RenamingOK(b, L, td, h, o)
    PROVE  LET c == Apply(b, Head(td))
           IN  Goes(c, L, b) /\ RenamingOK(c, L, Tail(td), h, o)
<1> DEFINE c == Apply(b, Head(td))
<1>1. CASE Storing(b, L, td) /\ Len(td) = 1
  <2>1. Goes(c, L, b) /\ Tail(td) = <<>> /\ Has(c, L, Final(o.obj))
    BY <1>1, SingleStep DEF RenamingOK
  <2> QED
    BY <2>1 DEF RenamingOK
<1>2. CASE Replacing(b, L, td)
  <2>1. /\ IsDisk(c) /\ Table(c, L) /\ c[0] = b[0] /\ Len(td) = 2
        /\ SameBut(b, c, L, td[1].addr)
        /\ Storing(c, L, Tail(td)) /\ Len(Tail(td)) = 1 /\ Tail(td)[1] = td[2]
        /\ td[2].addr \in FatStart .. L - 1 /\ td[2].addr # td[1].addr
    BY <1>2, ReplacingStep
  <2> HIDE DEF c
  <2>2. EntryIn(c, td[2].addr) = EntryIn(b, td[2].addr)
    <3>1. td[2].addr \in FatStart .. L
      BY <2>1, TableEnd, Consts
    <3> QED
      BY <3>1, <2>1 DEF SameBut
  <2>3. td[2].use = "entry"
    BY <1>2 DEF Replacing
  <2>4. Makes(Tail(td), Final(o.obj))
    BY <2>1, <2>3 DEF Makes, RenamingOK
  <2>5. EntryIn(c, td[2].addr).active /\ EntryIn(c, td[2].addr).name = h.name
    BY <2>1, <2>2 DEF RenamingOK
  <2>6. RenamingOK(c, L, Tail(td), h, o)
    BY <2>1, <2>4, <2>5 DEF RenamingOK
  <2> QED
    BY <2>1, <2>6 DEF Goes, c
<1> QED
  BY <1>1, <1>2 DEF RenamingOK

LEMMA UndoingStep ==
    ASSUME WellUsed, NEW b, IsDisk(b), NEW L, Table(b, L), NEW td \in Seq(Writes), td # <<>>,
           UndoingOK(b, L, td)
    PROVE  LET c == Apply(b, Head(td))
           IN  \E M : Goes(c, M, b) /\ UndoingOK(c, M, Tail(td))
<1>1. CASE Storing(b, L, td) /\ Len(td) = 1
  BY <1>1, SingleStep DEF UndoingOK
<1>2. CASE Extending(b, L, td)
  BY <1>2, ExtendingStep DEF UndoingOK, Goes
<1> QED
  BY <1>1, <1>2 DEF UndoingOK

\* Every block write of a file operation keeps the FAT sound and what is left to do right.
LEMMA Advance ==
    ASSUME WellUsed, NEW b, IsDisk(b), NEW L, Table(b, L), NEW td \in Seq(Writes), td # <<>>,
           NEW h, NEW o, o.kind \in FileOps, Static(h, o), FileOpOK(b, L, td, h, o)
    PROVE  LET c == Apply(b, Head(td))
           IN  /\ IsDisk(c) /\ c[0] = b[0] /\ Table(c, LastIn(c))
               /\ FileOpOK(c, LastIn(c), Tail(td), h, o)
<1> DEFINE c == Apply(b, Head(td))
<1>1. \E M : Goes(c, M, b) /\ FileOpOK(c, M, Tail(td), h, o)
  <2>1. CASE o.kind \in {"write", "truncate"}
    BY <2>1, MovingStep DEF FileOpOK, UpdateOK
  <2>2. CASE o.kind \in {"rename", "remove"}
    BY <2>2, SingleStep DEF FileOpOK, SwitchOK
  <2>3. CASE o.kind = "create" /\ o.stage = "write"
    <3>1. CreatingOK(b, L, td, h)
      BY <2>3 DEF FileOpOK
    <3>2. PICK M : Goes(c, M, b) /\ CreatingOK(c, M, Tail(td), h)
      BY <3>1, CreatingStep
    <3> QED
      BY <2>3, <3>2 DEF FileOpOK
  <2>4. CASE o.kind = "create" /\ o.stage = "rename"
    <3>1. Goes(c, L, b) /\ RenamingOK(c, L, Tail(td), h, o)
      BY <2>4, RenamingStep DEF FileOpOK
    <3> QED
      BY <2>4, <3>1 DEF FileOpOK
  <2>5. CASE o.kind = "create" /\ o.stage = "undoing"
    <3>1. UndoingOK(b, L, td)
      BY <2>5 DEF FileOpOK
    <3>2. PICK M : Goes(c, M, b) /\ UndoingOK(c, M, Tail(td))
      BY <3>1, UndoingStep
    <3> QED
      BY <2>5, <3>2 DEF FileOpOK
  <2>6. CASE o.kind = "create" /\ o.stage = "undo"
    BY <2>6 DEF FileOpOK
  <2> QED
    BY <2>1, <2>2, <2>3, <2>4, <2>5, <2>6 DEF FileOps, Static
<1>2. PICK M : Goes(c, M, b) /\ FileOpOK(c, M, Tail(td), h, o)
  BY <1>1
<1>3. LastIn(c) = M
  BY <1>2, TableEnd DEF Goes
<1> QED
  BY <1>2, <1>3 DEF Goes

----------------------------------------------------------------------------
(* Formatting *)

LEMMA FormatStep ==
    ASSUME WellUsed, NEW b, IsDisk(b), NEW td \in Seq(Writes), td # <<>>, FormatOK(b, td)
    PROVE  LET c == Apply(b, Head(td))
           IN  Disk(c) /\ FormatOK(c, Tail(td))
<1> DEFINE c == Apply(b, Head(td))
           r1 == [addr |-> FatStart, val |-> LastEntry, use |-> "entry"]
           r2 == [addr |-> 0, val |-> Partition, use |-> "partition"]
<1>0. 0 \in Addrs /\ FatStart \in Addrs /\ FatStart # 0 /\ FatStart \in Nat
  BY Consts DEF Addrs, WellUsed
<1>1. CASE td = FormatTodo /\ Plain(b)
  <2>1. Head(td) = r1 /\ Tail(td) = Tail(FormatTodo)
    BY <1>1 DEF FormatTodo
  <2>2. /\ IsDisk(c) /\ c[FatStart] = LastEntry
        /\ \A a \in Addrs \ {FatStart} : c[a] = b[a]
    BY <1>0, <2>1, ApplyIs, Kinds
  <2> HIDE DEF c
  <2>3. Plain(c)
    BY <1>1, <2>2 DEF Plain
  <2> QED
    BY <2>1, <2>2, <2>3 DEF FormatOK, Disk, c
<1>2. CASE td = Tail(FormatTodo) /\ Plain(b) /\ b[FatStart] = LastEntry
  <2>1. td = <<r2>>
    BY <1>2 DEF FormatTodo
  <2>2. Head(td) = r2 /\ Tail(td) = <<>>
    BY <2>1
  <2>3. /\ IsDisk(c) /\ c[0] = Partition
        /\ \A a \in Addrs \ {0} : c[a] = b[a] /\ EntryIn(c, a) = EntryIn(b, a)
    BY <1>0, <2>2, ApplyIs, Kinds
  <2> HIDE DEF c
  <2>4. EntryIn(c, FatStart) = LastEntry
    BY <1>0, <1>2, <2>3, Kinds DEF EntryIn
  <2>5. Table(c, FatStart)
    <3>1. FatStart \in FatStart .. Blocks - 1 /\ \A a \in FatStart .. FatStart : a = FatStart
      BY <1>0, Consts DEF WellUsed
    <3>2. FatStart .. FatStart - 1 = {}
      BY <1>0
    <3>3. Ends(c, FatStart)
      BY <2>4, <3>1, <3>2, Kinds DEF Ends
    <3> QED
      BY <2>4, <3>1, <3>3, Kinds DEF Table
  <2> QED
    BY <2>2, <2>3, <2>5, Formats DEF FormatOK, c
<1> QED
  BY <1>1, <1>2 DEF FormatOK

LEMMA ReqIs ==
    ASSUME WellUsed, Inv, todo # <<>>
    PROVE  /\ Req.addr = Head(todo).addr /\ Req.val = Head(todo).val
           /\ Req.addr \in Addrs /\ Req.val \in BlockValues
           /\ \A b : Apply(b, Req) = Apply(b, Head(todo))
           /\ Req.cnt \in 0 .. cnt /\ cnt \in Nat
           /\ retry = 0 => Fresh \/ Dummy
           /\ op.kind \in FileOps \cup {"setup"} /\ ~ram.dead
<1>1. Req.addr = Head(todo).addr /\ Req.val = Head(todo).val
  BY DEF Req
<1>2. Head(todo) \in Writes
  BY TailIs DEF Inv, Types
<1>3. Req.addr \in Addrs /\ Req.val \in BlockValues
  BY <1>1, <1>2, WriteType
<1>4. \A b : Apply(b, Req) = Apply(b, Head(todo))
  BY <1>1 DEF Apply
<1>5. Req.cnt \in 0 .. cnt /\ cnt \in Nat
  BY Consts DEF Inv, CountOK, Req
<1>6. op.kind \in FileOps \cup {"setup"} /\ ~ram.dead
  BY DEF Inv, OpOK, IdleOK, SetupOK, FileOps
<1>7. retry = 0 => Fresh \/ Dummy
  <2> SUFFICES ASSUME retry = 0, ~Dummy PROVE Fresh
    OBVIOUS
  <2>1. ram.synced => ram.wr_cnt = cnt
    BY <1>6 DEF Inv, CountOK, OpOK
  <2> QED
    BY <2>1 DEF Fresh, Req
<1> QED
  BY <1>1, <1>3, <1>4, <1>5, <1>6, <1>7

\* A request that the device would take leaves a sound disk.
LEMMA ReqDisk ==
    ASSUME WellUsed, Inv, todo # <<>>, Fresh
    PROVE  /\ Disk(Apply(blk, Req))
           /\ ram.par => Apply(blk, Req)[0] = Partition
<1> DEFINE c == Apply(blk, Head(todo))
<1>0. Apply(blk, Req) = c /\ todo \in Seq(Writes) /\ IsDisk(blk) /\ Live
  BY ReqIs DEF Inv, Types, Disk, Live
<1>1. CASE op.kind \in FileOps
  <2>1. /\ ram.par /\ Static(fh, op) /\ FileOpOK(blk, LastIn(blk), todo, fh, op)
        /\ blk[0] = Partition /\ Disk(blk)
    BY <1>0, <1>1 DEF Inv, OpOK
  <2>2. Table(blk, LastIn(blk))
    BY <2>1, DiskTable
  <2>3. IsDisk(c) /\ c[0] = blk[0] /\ Table(c, LastIn(c))
    BY <1>0, <1>1, <2>1, <2>2, Advance
  <2>4. Disk(c)
    BY <2>1, <2>3, Formats
  <2> QED
    BY <1>0, <2>1, <2>3, <2>4
<1>2. CASE op.kind = "setup"
  <2>1. SetupOK
    BY <1>2 DEF Inv, OpOK
  <2>2. CASE op.stage = "dummy"
    <3>1. /\ Len(todo) = 1 /\ todo[1].addr = 0 /\ todo[1].val = blk[0] /\ Head(todo) = todo[1]
      BY <1>0, <2>1, <2>2, TailIs DEF SetupOK
    <3>2. c = blk
      BY <1>0, <3>1 DEF Apply, IsDisk
    <3> QED
      BY <1>0, <2>1, <3>2 DEF SetupOK, Inv
  <2>3. CASE op.stage = "format"
    BY <1>0, <2>1, <2>3, FormatStep DEF SetupOK
  <2> QED
    BY <2>1, <2>2, <2>3 DEF SetupOK
<1> QED
  BY <1>1, <1>2, ReqIs

----------------------------------------------------------------------------
(* Requests *)

\* Normal world holds nothing else back outside of the dummy write.
LEMMA HeldIs ==
    ASSUME WellUsed, Inv
    PROVE  /\ \A h \in held : h.cnt = cnt
           /\ todo # <<>> /\ ~Dummy => held \subseteq {Req}
           /\ ~Dummy \/ todo = <<>> => retry > 0 \/ ram.dead \/ (~ram.par /\ op.kind = "idle") \/ held = {}
           /\ retry \in Nat
<1>1. retry \in Nat
  BY Consts DEF Inv, Types
<1>2. todo # <<>> /\ ~Dummy => held \subseteq {Req}
  <2> SUFFICES ASSUME todo # <<>>, ~Dummy PROVE held \subseteq {Req}
    OBVIOUS
  <2>1. CASE retry > 0
    BY <2>1 DEF Inv, HeldOK
  <2>2. CASE retry = 0
    <3>1. ~ram.dead /\ op.kind # "idle"
      BY ReqIs DEF FileOps
    <3> QED
      BY <2>2, <3>1 DEF Inv, HeldOK
  <2> QED
    BY <1>1, <2>1, <2>2
<1> QED
  BY <1>1, <1>2 DEF Inv, HeldOK

LEMMA CommitIs ==
    ASSUME WellUsed, Inv, NEW r, Commit(r)
    PROVE  /\ r.cnt = cnt /\ cnt' = cnt + 1 /\ cnt' \in 0 .. MaxCnt /\ held' = {}
           /\ blk' = Apply(blk, r)
BY HeldIs, Consts DEF Inv, CountOK, Commit, Apply

LEMMA RamTypes ==
    ASSUME Inv
    PROVE  /\ ram \in [wr_cnt : Nat, synced : BOOLEAN, dead : BOOLEAN, par : BOOLEAN]
           /\ \A n, s : LET r == [ram EXCEPT !.wr_cnt = n, !.synced = s]
                        IN  r.wr_cnt = n /\ r.synced = s /\ r.dead = ram.dead /\ r.par = ram.par
BY DEF Inv, Types

LEMMA IdleTypes ==
    /\ WellUsed => NoHandle \in HandleSet
    /\ OpForm(Idle) /\ Idle.kind = "idle" /\ Idle.kind \notin FileOps
    /\ 0 \in 0 .. MaxRetries - 1
    /\ <<>> \in Seq(Writes)
<1>1. WellUsed => NoHandle \in HandleSet
  BY Consts, Kinds DEF HandleSet, NoHandle, NewHandle, Addrs, WellUsed
<1>2. OpForm(Idle) /\ Idle.kind = "idle" /\ Idle.kind \notin FileOps
  BY Kinds DEF OpForm, Idle, FileOps
<1> QED
  BY <1>1, <1>2, Consts

\* The operation goes on when its request was taken and answered.
LEMMA AnsweredOK ==
    ASSUME WellUsed, Inv, todo # <<>>, Answered, Req.cnt = cnt, cnt' = cnt + 1, cnt' \in 0 .. MaxCnt,
           held' = {}, blk' = Apply(blk, Req) \/ (Dummy /\ Disk(blk'))
    PROVE  Inv'
<1>1. /\ ram' = [ram EXCEPT !.wr_cnt = Req.cnt + 1, !.synced = retry = 0]
      /\ todo' = Tail(todo) /\ retry' = 0 /\ fh' = fh /\ op' = op /\ allowed' = allowed
  BY DEF Answered
<1>2. /\ ram' \in [wr_cnt : Nat, synced : BOOLEAN, dead : BOOLEAN, par : BOOLEAN]
      /\ ram'.wr_cnt = cnt + 1 /\ ram'.dead = ram.dead /\ ram'.par = ram.par
      /\ ram'.synced = (retry = 0)
  <2>1. Req.cnt + 1 \in Nat /\ (retry = 0) \in BOOLEAN
    BY ReqIs
  <2> QED
    BY <1>1, <2>1 DEF Inv, Types
<1>3. cnt \in Nat /\ todo \in Seq(Writes) /\ Fresh /\ Live /\ IsDisk(blk)
  BY ReqIs DEF Inv, Types, Fresh, Live, Disk
<1>4. Types'
  <2>1. Tail(todo) \in Seq(Writes)
    BY <1>3, TailIs
  <2>2. 0 \in 0 .. MaxRetries - 1
    BY Consts
  <2> QED
    BY <1>1, <1>2, <2>1, <2>2 DEF Inv, Types
<1>5. Disk(blk') /\ (ram.par => blk'[0] = Partition)
  <2>1. Dummy => ~ram.par
    BY DEF Dummy, Inv, OpOK, SetupOK
  <2> QED
    BY <1>3, <2>1, ReqDisk
<1>6. Dummy => todo' = <<>>
  BY <1>1, <1>3, TailIs DEF Inv, OpOK, SetupOK, Dummy
<1>7. CountOK'
  BY <1>1, <1>2, <1>3, <1>6 DEF CountOK, Dummy
<1>8. HeldOK'
  BY <1>1 DEF HeldOK
<1>9. OpOK'
  <2>1. CASE op.kind \in FileOps
    <3>1. /\ ram.par /\ ~ram.dead /\ Static(fh, op) /\ FileOpOK(blk, LastIn(blk), todo, fh, op)
          /\ blk[0] = Partition /\ Disk(blk)
      BY <1>3, <2>1 DEF Inv, OpOK
    <3>2. Table(blk, LastIn(blk))
      BY <3>1, DiskTable
    <3>3. blk' = Apply(blk, Head(todo))
      BY <2>1, ReqIs DEF Dummy, FileOps
    <3>4. FileOpOK(blk', LastIn(blk'), Tail(todo), fh, op)
      BY <1>3, <2>1, <3>1, <3>2, <3>3, Advance
    <3>5. op.kind # "idle" /\ op.kind # "setup"
      BY <2>1 DEF FileOps
    <3> QED
      BY <1>1, <1>2, <1>5, <2>1, <3>1, <3>4, <3>5 DEF OpOK
  <2>2. CASE op.kind = "setup"
    <3>1. SetupOK
      BY <2>2 DEF Inv, OpOK
    <3>2. op.stage = "format" => FormatOK(blk', todo')
      <4>1. op.stage = "format" => blk' = Apply(blk, Head(todo)) /\ FormatOK(blk, todo)
        BY <1>3, <3>1, ReqIs DEF Dummy, SetupOK
      <4> QED
        BY <1>1, <1>3, <4>1, FormatStep
    <3>3. SetupOK'
      BY <1>1, <1>2, <1>6, <2>2, <3>1, <3>2 DEF SetupOK, Dummy
    <3>4. ram'.par = FALSE /\ op'.kind = "setup" /\ "setup" \notin FileOps
      BY <1>1, <1>2, <2>2, <3>1 DEF SetupOK, FileOps
    <3> QED
      BY <3>3, <3>4 DEF OpOK
  <2> QED
    BY <2>1, <2>2, ReqIs
<1> QED
  BY <1>4, <1>5, <1>7, <1>8, <1>9 DEF Inv

\* The request is sent again, or the file system is dead.
LEMMA TryAgainOK ==
    ASSUME WellUsed, Inv, todo # <<>>, TryAgain, Disk(blk'), ram.par => blk'[0] = Partition,
           (cnt' = cnt /\ blk' = blk) \/ cnt' = cnt + 1, cnt' \in 0 .. MaxCnt,
           \A h \in held' : /\ h.cnt = cnt' /\ h.addr \in Addrs /\ Disk(Apply(blk', h))
                            /\ ram.par => Apply(blk', h)[0] = Partition,
           ~Dummy => held' \subseteq {Req}
    PROVE  Inv'
<1>0. /\ cnt \in Nat /\ Req.cnt \in 0 .. cnt /\ retry \in Nat /\ Types /\ MaxRetries \in Nat
      /\ cnt' \in Nat /\ Req.cnt <= cnt'
  BY ReqIs, HeldIs, Consts DEF Inv
<1>1. CASE retry + 1 < MaxRetries
  <2>1. /\ retry' = retry + 1 /\ ram' = [ram EXCEPT !.wr_cnt = Req.cnt, !.synced = FALSE]
        /\ fh' = fh /\ op' = op /\ todo' = todo /\ allowed' = allowed
    BY <1>1 DEF TryAgain
  <2>2. /\ ram' \in [wr_cnt : Nat, synced : BOOLEAN, dead : BOOLEAN, par : BOOLEAN]
        /\ ram'.wr_cnt = Req.cnt /\ ~ram'.synced /\ ram'.dead = ram.dead /\ ram'.par = ram.par
    <3>1. Req.cnt \in Nat
      BY <1>0
    <3> HIDE DEF Req
    <3> QED
      BY <1>0, <2>1, <3>1 DEF Types
  <2>3. retry' \in 0 .. MaxRetries - 1 /\ retry' > 0 /\ retry' # 0
    BY <1>0, <1>1, <2>1
  <2>4. Types'
    BY <1>0, <2>1, <2>2, <2>3 DEF Types
  <2>5. CountOK'
    BY <1>0, <2>1, <2>2, <2>3 DEF CountOK
  <2>6. Req' = Req
    <3>1. Req'.cnt = Req.cnt /\ Req' = [cnt |-> Req'.cnt, addr |-> Head(todo).addr, val |-> Head(todo).val]
      BY <2>1, <2>2, <2>3 DEF Req
    <3>2. Req = [cnt |-> Req.cnt, addr |-> Head(todo).addr, val |-> Head(todo).val]
      BY DEF Req
    <3> QED
      BY <3>1, <3>2
  <2>7. HeldOK'
    BY <2>1, <2>2, <2>3, <2>6 DEF HeldOK, Dummy
  <2>8. Fresh' => Fresh /\ blk' = blk
    BY <1>0, <2>6 DEF Fresh
  <2>9. Live' => Live /\ blk' = blk
    BY <2>1, <2>8 DEF Live
  <2>10. OpOK'
    <3>1. CASE op.kind \in FileOps
      <4>1. op.kind # "idle" /\ op.kind # "setup"
        BY <3>1 DEF FileOps
      <4> QED
        BY <2>1, <2>2, <2>9, <3>1, <4>1 DEF Inv, OpOK
    <3>2. CASE op.kind = "setup"
      <4>1. SetupOK
        BY <3>2 DEF Inv, OpOK
      <4>2. SetupOK'
        BY <2>1, <2>2, <2>8, <2>9, <4>1 DEF SetupOK
      <4> QED
        BY <2>1, <2>2, <3>2, <4>2 DEF OpOK, FileOps
    <3> QED
      BY <3>1, <3>2, ReqIs
  <2> QED
    BY <2>4, <2>5, <2>7, <2>10 DEF Inv
<1>2. CASE ~(retry + 1 < MaxRetries)
  <2>1. /\ retry' = 0 /\ ram' = [ram EXCEPT !.dead = TRUE] /\ fh' = NoHandle
        /\ op' = Idle /\ todo' = <<>> /\ allowed' = allowed
    BY <1>2 DEF TryAgain
  <2>2. /\ ram' \in [wr_cnt : Nat, synced : BOOLEAN, dead : BOOLEAN, par : BOOLEAN]
        /\ ram'.wr_cnt = ram.wr_cnt /\ ram'.dead /\ ram'.par = ram.par
    BY <1>0, <2>1 DEF Types
  <2>3. Types'
    BY <1>0, <2>1, <2>2, IdleTypes DEF Types
  <2>4. CountOK'
    BY <1>0, <2>1, <2>2, IdleTypes DEF Inv, CountOK, Dummy
  <2>5. HeldOK'
    BY <2>1, <2>2 DEF HeldOK
  <2>6. OpOK'
    BY <2>1, <2>2, IdleTypes DEF OpOK, IdleOK
  <2> QED
    BY <2>3, <2>4, <2>5, <2>6 DEF Inv
<1> QED
  BY <1>1, <1>2

LEMMA SendOkStep ==
    ASSUME WellUsed, Inv, SendOk
    PROVE  Inv'
BY CommitIs, AnsweredOK DEF SendOk, Sending

LEMMA SendRefusedStep ==
    ASSUME WellUsed, Inv, SendRefused
    PROVE  Inv'
<1>1. todo # <<>> /\ TryAgain /\ cnt' = cnt /\ blk' = blk /\ held' = held
  BY DEF SendRefused, Sending, Untaken
<1>2. ~Dummy => held \subseteq {Req}
  BY <1>1, HeldIs
<1>3. /\ Disk(blk) /\ (ram.par => blk[0] = Partition) /\ cnt \in 0 .. MaxCnt
      /\ \A h \in held : /\ h.cnt = cnt /\ h.addr \in Addrs /\ Disk(Apply(blk, h))
                         /\ ram.par => Apply(blk, h)[0] = Partition
  BY DEF Inv, OpOK, HeldOK, CountOK
<1> QED
  BY <1>1, <1>2, <1>3, TryAgainOK

LEMMA SendLostStep ==
    ASSUME WellUsed, Inv, SendLost
    PROVE  Inv'
<1>1. /\ todo # <<>> /\ TryAgain /\ cnt' = cnt /\ blk' = blk
      /\ held' = held \cup {r \in {Req} : r.cnt = cnt}
  BY DEF SendLost, Sending, Untaken
<1>2. ~Dummy => held' \subseteq {Req}
  BY <1>1, HeldIs
<1>3. /\ Disk(blk) /\ (ram.par => blk[0] = Partition) /\ cnt \in 0 .. MaxCnt
      /\ \A h \in held : /\ h.cnt = cnt /\ h.addr \in Addrs /\ Disk(Apply(blk, h))
                         /\ ram.par => Apply(blk, h)[0] = Partition
  BY DEF Inv, OpOK, HeldOK, CountOK
<1>4. Req.cnt = cnt => /\ Req.addr \in Addrs /\ Disk(Apply(blk, Req))
                       /\ ram.par => Apply(blk, Req)[0] = Partition
  BY <1>1, ReqIs, ReqDisk DEF Fresh
<1>5. \A h \in held' : /\ h.cnt = cnt' /\ h.addr \in Addrs /\ Disk(Apply(blk', h))
                       /\ ram.par => Apply(blk', h)[0] = Partition
  BY <1>1, <1>3, <1>4
<1> QED
  BY <1>1, <1>2, <1>3, <1>5, TryAgainOK

LEMMA AnswerLostStep ==
    ASSUME WellUsed, Inv, AnswerLost
    PROVE  Inv'
<1>1. todo # <<>> /\ TryAgain /\ Commit(Req)
  BY DEF AnswerLost, Sending
<1>2. /\ Req.cnt = cnt /\ cnt' = cnt + 1 /\ cnt' \in 0 .. MaxCnt /\ held' = {}
      /\ blk' = Apply(blk, Req)
  BY <1>1, CommitIs
<1>3. Disk(blk') /\ (ram.par => blk'[0] = Partition)
  BY <1>1, <1>2, ReqDisk DEF Fresh
<1> QED
  BY <1>1, <1>2, <1>3, TryAgainOK

LEMMA SendSwappedStep ==
    ASSUME WellUsed, Inv, SendSwapped
    PROVE  Inv'
<1>1. PICK h \in held \ {Req} :
        /\ Commit(h)
        /\ IF h.addr = Req.addr /\ h.cnt = Req.cnt THEN Answered ELSE TryAgain
  BY DEF SendSwapped
<1>2. todo # <<>> /\ Dummy
  BY HeldIs DEF SendSwapped, Sending
<1>3. /\ h.cnt = cnt /\ cnt' = cnt + 1 /\ cnt' \in 0 .. MaxCnt /\ held' = {}
      /\ blk' = Apply(blk, h)
  BY <1>1, CommitIs
<1>4. Disk(blk') /\ (ram.par => blk'[0] = Partition)
  BY <1>3 DEF Inv, HeldOK
<1>5. CASE h.addr = Req.addr /\ h.cnt = Req.cnt
  BY <1>1, <1>2, <1>3, <1>4, <1>5, AnsweredOK
<1>6. CASE ~(h.addr = Req.addr /\ h.cnt = Req.cnt)
  BY <1>1, <1>2, <1>3, <1>4, <1>6, TryAgainOK
<1> QED
  BY <1>5, <1>6

\* A request that comes late makes the one that is sent stale.
LEMMA LateStep ==
    ASSUME WellUsed, Inv, Late
    PROVE  Inv'
<1>1. PICK h \in held : Commit(h)
  BY DEF Late
<1>2. /\ ram' = ram /\ fh' = fh /\ op' = op /\ todo' = todo /\ retry' = retry /\ allowed' = allowed
  BY DEF Late
<1>3. /\ h.cnt = cnt /\ cnt' = cnt + 1 /\ cnt' \in 0 .. MaxCnt /\ held' = {}
      /\ blk' = Apply(blk, h)
  BY <1>1, CommitIs
<1>4. Disk(blk') /\ (ram.par => blk'[0] = Partition)
  BY <1>3 DEF Inv, HeldOK
<1>5. \/ retry > 0 \/ ram.dead
      \/ ~ram.par /\ (op.kind = "idle" \/ (Dummy /\ todo # <<>>))
  <2>1. held # {}
    BY <1>1
  <2> QED
    BY <2>1 DEF Inv, HeldOK
<1>6. cnt \in Nat /\ ram.wr_cnt \in 0 .. cnt /\ retry \in Nat
  BY HeldIs, Consts DEF Inv, CountOK
<1>7. Types'
  BY <1>2 DEF Inv, Types
<1>8. CountOK'
  BY <1>2, <1>3, <1>5, <1>6 DEF Inv, CountOK, Dummy
<1>9. HeldOK'
  BY <1>3 DEF HeldOK
<1>10. todo # <<>> => ~Fresh'
  <2> SUFFICES ASSUME todo # <<>> PROVE ~Fresh'
    OBVIOUS
  <2>1. retry # 0 \/ ram.synced
    <3>1. op.kind # "idle" /\ ~ram.dead
      BY ReqIs DEF FileOps
    <3> QED
      BY <1>5, <1>6, <3>1 DEF Inv, CountOK
  <2>2. Req'.cnt = ram.wr_cnt
    BY <1>2, <2>1 DEF Req
  <2> QED
    BY <1>3, <1>6, <2>2 DEF Fresh
<1>11. OpOK'
  <2>1. CASE op.kind \in FileOps
    <3>1. op.kind # "idle" /\ op.kind # "setup" /\ todo # <<>>
      <4>1. ram.par /\ ~ram.dead
        BY <2>1 DEF Inv, OpOK
      <4> QED
        BY <1>5, <2>1, <4>1 DEF Inv, CountOK, FileOps
    <3> QED
      BY <1>2, <1>4, <1>10, <2>1, <3>1 DEF Inv, OpOK, Live
  <2>2. CASE op.kind = "setup"
    <3>1. SetupOK /\ todo # <<>>
      BY <1>5, <2>2 DEF Inv, OpOK, SetupOK, CountOK
    <3>2. SetupOK'
      BY <1>2, <1>10, <3>1 DEF SetupOK, Live
    <3> QED
      BY <1>2, <2>2, <3>1, <3>2 DEF OpOK, FileOps, SetupOK
  <2>3. CASE op.kind = "idle"
    <3>1. IdleOK
      BY <2>3 DEF Inv, OpOK
    <3>2. fh = NoHandle
      BY <1>5, <3>1, <2>3 DEF IdleOK, Dummy
    <3>3. IdleOK'
      BY <1>2, <3>1, <3>2 DEF IdleOK
    <3> QED
      BY <1>2, <1>4, <2>3, <3>3 DEF OpOK, FileOps
  <2> QED
    BY <2>1, <2>2, <2>3 DEF Inv, OpOK
<1> QED
  BY <1>4, <1>7, <1>8, <1>9, <1>11 DEF Inv

LEMMA PowerCutStep ==
    ASSUME WellUsed, Inv, PowerCut
    PROVE  Inv'
<1>1. /\ ram' = Off /\ fh' = NoHandle /\ op' = Idle /\ todo' = <<>> /\ retry' = 0
      /\ cnt' = cnt /\ blk' = blk /\ held' = held /\ allowed' = allowed
  BY DEF PowerCut
<1>2. /\ ram' \in [wr_cnt : Nat, synced : BOOLEAN, dead : BOOLEAN, par : BOOLEAN]
      /\ ram'.wr_cnt = 0 /\ ~ram'.synced /\ ~ram'.dead /\ ~ram'.par
  BY <1>1 DEF Off
<1>3. Types'
  BY <1>1, <1>2, IdleTypes DEF Inv, Types
<1>4. CountOK'
  BY <1>1, <1>2, IdleTypes, Consts DEF Inv, CountOK, Dummy
<1>5. HeldOK'
  BY <1>1, <1>2, IdleTypes DEF Inv, HeldOK
<1>6. OpOK'
  BY <1>1, <1>2, IdleTypes DEF OpOK, IdleOK
<1> QED
  BY <1>1, <1>3, <1>4, <1>5, <1>6 DEF Inv

LEMMA InitOK ==
    ASSUME WellUsed, Init
    PROVE  Inv
<1>1. ram.wr_cnt = 0 /\ ~ram.synced /\ ~ram.dead /\ ~ram.par
      /\ ram \in [wr_cnt : Nat, synced : BOOLEAN, dead : BOOLEAN, par : BOOLEAN]
  BY DEF Init, Off
<1>2. Types
  BY <1>1, IdleTypes DEF Init, Types
<1>3. Disk(blk)
  BY Kinds DEF Init, Disk, IsDisk, Plain, Addrs
<1>4. CountOK
  BY <1>1, IdleTypes, Consts DEF Init, CountOK, Dummy
<1>5. HeldOK
  BY DEF Init, HeldOK
<1>6. OpOK
  BY <1>1, IdleTypes DEF Init, OpOK, IdleOK
<1> QED
  BY <1>2, <1>3, <1>4, <1>5, <1>6 DEF Inv

\* A step that leaves the device and its counters alone.
LEMMA QuietStep ==
    ASSUME WellUsed, Inv, cnt' = cnt, blk' = blk, held' = held, retry' = retry, held = {}, retry = 0,
           ram'.wr_cnt = ram.wr_cnt, ram'.synced = ram.synced, ram'.dead = ram.dead,
           ram.synced => ram.wr_cnt = cnt,
           ~Dummy' \/ todo' = <<>>, Types', OpOK'
    PROVE  Inv'
<1>1. CountOK'
  BY DEF Inv, CountOK
<1>2. HeldOK'
  BY DEF Inv, HeldOK
<1> QED
  BY <1>1, <1>2 DEF Inv

LEMMA Steady ==
    ASSUME WellUsed, Inv, ram.par, ~ram.dead, retry = 0
    PROVE  /\ held = {} /\ (ram.synced => ram.wr_cnt = cnt) /\ Live /\ ~Dummy
           /\ IsDisk(blk) /\ blk[0] = Partition /\ Table(blk, LastIn(blk)) /\ Types
           /\ op.kind \in FileOps => Static(fh, op) /\ FileOpOK(blk, LastIn(blk), todo, fh, op)
<1>1. ~Dummy
  BY DEF Inv, OpOK, SetupOK, Dummy
<1>2. held = {} /\ (ram.synced => ram.wr_cnt = cnt)
  BY <1>1 DEF Inv, HeldOK, CountOK
<1>3. Live
  BY <1>1, ReqIs DEF Live
<1>4. IsDisk(blk) /\ blk[0] = Partition /\ Table(blk, LastIn(blk))
  BY DiskTable DEF Inv, OpOK
<1> QED
  BY <1>1, <1>2, <1>3, <1>4 DEF Inv, OpOK

\* An operation that has no block left to write.
LEMMA Between ==
    ASSUME WellUsed, Inv, op.kind \in FileOps, todo = <<>>
    PROVE  /\ ram.par /\ ~ram.dead /\ retry = 0
BY HeldIs DEF Inv, OpOK, CountOK

LEMMA ReadyIs ==
    ASSUME WellUsed, Inv, Ready
    PROVE  /\ ram.par /\ ~ram.dead /\ retry = 0 /\ todo = <<>> /\ op.kind = "idle" /\ IdleOK
BY IdleTypes DEF Ready, Inv, OpOK, IdleOK

\* A step of a file operation that leaves the device alone.
LEMMA FileStep ==
    ASSUME WellUsed, Inv, ram.par, ~ram.dead, retry = 0, UNCHANGED <<cnt, blk, held, ram, retry>>,
           fh' \in HandleSet, todo' \in Seq(Writes), OpForm(op'), DOMAIN allowed' = Names,
           op'.kind \in FileOps, Static(fh', op'),
           FileOpOK(blk, LastIn(blk), todo', fh', op')
    PROVE  Inv'
<1>1. /\ cnt' = cnt /\ blk' = blk /\ held' = held /\ ram' = ram /\ retry' = retry
  OBVIOUS
<1>2. Types'
  BY <1>1 DEF Inv, Types
<1>3. op'.kind # "idle" /\ op'.kind # "setup" /\ ~Dummy'
  BY DEF FileOps, Dummy
<1>4. OpOK'
  BY <1>1, <1>3, Steady DEF OpOK
<1> QED
  BY <1>1, <1>2, <1>3, <1>4, Steady, QuietStep

\* The end of a file operation.
LEMMA EndStep ==
    ASSUME WellUsed, Inv, ram.par, ~ram.dead, retry = 0, UNCHANGED <<cnt, blk, held, ram, retry>>,
           todo' = <<>>, op' = Idle, DOMAIN allowed' = Names, fh' \in HandleSet,
           fh' # NoHandle => /\ fh'.obj \in Names /\ fh'.name = Final(fh'.obj)
                             /\ Has(blk, LastIn(blk), fh'.name)
    PROVE  Inv'
<1>1. /\ cnt' = cnt /\ blk' = blk /\ held' = held /\ ram' = ram /\ retry' = retry
  OBVIOUS
<1>2. Types'
  BY <1>1, IdleTypes DEF Inv, Types
<1>3. op'.kind = "idle" /\ op'.kind \notin FileOps /\ ~Dummy'
  BY IdleTypes DEF Dummy
<1>4. OpOK'
  BY <1>1, <1>3, Steady DEF OpOK, IdleOK
<1> QED
  BY <1>1, <1>2, <1>3, <1>4, Steady, QuietStep

LEMMA StageIs ==
    ASSUME NEW o, OpForm(o), NEW s
    PROVE  LET p == [o EXCEPT !.stage = s]
           IN  /\ OpForm(p) /\ p.kind = o.kind /\ p.stage = s /\ p.obj = o.obj /\ p.data = o.data
               /\ p.pos = o.pos /\ p.overwrite = o.overwrite /\ p.ent = o.ent
               /\ p.new = o.new /\ p.before = o.before /\ p.mid = o.mid
BY DEF OpForm

LEMMA StageStatic ==
    ASSUME NEW h, NEW o, OpForm(o), o.kind = "create", Static(h, o),
           NEW s \in {"write", "rename", "undo", "undoing"}
    PROVE  Static(h, [o EXCEPT !.stage = s])
<1> DEFINE p == [o EXCEPT !.stage = s]
<1>1. p.kind = o.kind /\ p.stage = s /\ p.obj = o.obj /\ p.data = o.data /\ p.pos = o.pos
  BY StageIs
<1> HIDE DEF p
<1> QED
  BY <1>1 DEF Static, p

----------------------------------------------------------------------------
(* rpmb_fs_setup() *)

LEMMA SetupStep ==
    ASSUME WellUsed, Inv, Setup
    PROVE  Inv'
<1> DEFINE w == [addr |-> 0, val |-> blk[0], use |-> "dummy"]
<1>1. /\ op = Idle /\ ~ram.dead /\ ~ram.par
      /\ ram' = [ram EXCEPT !.wr_cnt = cnt, !.synced = TRUE]
      /\ op' = [Idle EXCEPT !.kind = "setup", !.stage = "dummy"]
      /\ todo' = <<w>> /\ cnt' = cnt /\ blk' = blk /\ held' = held /\ fh' = fh /\ retry' = retry
      /\ allowed' = allowed
  BY DEF Setup
<1>2. IdleOK /\ op.kind = "idle" /\ Types /\ Disk(blk) /\ cnt \in Nat /\ cnt \in 0 .. MaxCnt
  BY <1>1, IdleTypes, Consts DEF Inv, OpOK, CountOK
<1>3. /\ ram' \in [wr_cnt : Nat, synced : BOOLEAN, dead : BOOLEAN, par : BOOLEAN]
      /\ ram'.wr_cnt = cnt /\ ram'.synced /\ ~ram'.dead /\ ~ram'.par
  BY <1>1, <1>2 DEF Types
<1>4. OpForm(op') /\ op'.kind = "setup" /\ op'.stage = "dummy"
  BY <1>1, Kinds DEF OpForm, Idle
<1>5. w \in Writes
  BY <1>2, Consts DEF Writes, Addrs, Disk, IsDisk, WellUsed
<1> HIDE DEF w
<1>6. todo' \in Seq(Writes) /\ Len(todo') = 1 /\ todo'[1] = w /\ todo' # <<>>
  BY <1>1, <1>5
<1>7. Types'
  BY <1>1, <1>2, <1>3, <1>4, <1>6 DEF Types
<1>8. CountOK'
  BY <1>1, <1>2, <1>3, <1>4, <1>6 DEF CountOK, Dummy, IdleOK
<1>9. HeldOK'
  BY <1>1, <1>2, <1>3, <1>4, <1>6 DEF Inv, HeldOK, Dummy, IdleOK
<1>10. SetupOK'
  BY <1>1, <1>2, <1>3, <1>4, <1>6 DEF SetupOK, IdleOK, w
<1>11. OpOK'
  BY <1>3, <1>4, <1>10 DEF OpOK, FileOps
<1> QED
  BY <1>1, <1>2, <1>7, <1>8, <1>9, <1>11 DEF Inv

LEMMA SetupIs ==
    ASSUME WellUsed, Inv, op.kind = "setup", todo = <<>>
    PROVE  /\ SetupOK /\ held = {} /\ retry = 0 /\ (ram.synced => ram.wr_cnt = cnt)
           /\ Types /\ Disk(blk) /\ IsDisk(blk)
<1>1. SetupOK /\ Types /\ Disk(blk) /\ IsDisk(blk)
  BY DEF Inv, OpOK, Disk
<1>2. retry = 0
  BY HeldIs DEF Inv, CountOK
<1> QED
  BY <1>1, <1>2 DEF Inv, HeldOK, CountOK, SetupOK

LEMMA SetupEndsStep ==
    ASSUME WellUsed, Inv, op.kind = "setup", todo = <<>>, blk[0] = Partition, SetupEnds,
           UNCHANGED <<cnt, blk, held, fh, retry>>
    PROVE  Inv'
<1>1. /\ op' = Idle /\ ram' = [ram EXCEPT !.par = TRUE] /\ todo' = <<>> /\ DOMAIN allowed' = Names
      /\ cnt' = cnt /\ blk' = blk /\ held' = held /\ fh' = fh /\ retry' = retry
  BY DEF SetupEnds
<1>2. /\ SetupOK /\ held = {} /\ retry = 0 /\ (ram.synced => ram.wr_cnt = cnt) /\ Types
  BY SetupIs
<1>3. /\ ram' \in [wr_cnt : Nat, synced : BOOLEAN, dead : BOOLEAN, par : BOOLEAN]
      /\ ram'.wr_cnt = ram.wr_cnt /\ ram'.synced = ram.synced /\ ram'.dead = ram.dead /\ ram'.par
  BY <1>1, <1>2 DEF Types
<1>4. Types'
  BY <1>1, <1>2, <1>3, IdleTypes DEF Types
<1>5. op'.kind = "idle" /\ op'.kind \notin FileOps /\ ~Dummy'
  BY <1>1, IdleTypes DEF Dummy
<1>6. OpOK'
  BY <1>1, <1>2, <1>3, <1>5 DEF OpOK, IdleOK, SetupOK
<1> QED
  BY <1>1, <1>2, <1>3, <1>4, <1>5, <1>6, QuietStep

LEMMA SetupDummyDoneStep ==
    ASSUME WellUsed, Inv, SetupDummyDone
    PROVE  Inv'
<1>1. /\ op.kind = "setup" /\ op.stage = "dummy" /\ todo = <<>>
      /\ cnt' = cnt /\ blk' = blk /\ held' = held /\ fh' = fh /\ retry' = retry
  BY DEF SetupDummyDone
<1>2. CASE blk[0] = Partition /\ SetupEnds
  BY <1>1, <1>2, SetupEndsStep
<1>3. CASE /\ blk[0] # Partition /\ todo' = FormatTodo
           /\ op' = [op EXCEPT !.stage = "format"] /\ ram' = ram /\ allowed' = allowed
  <2>1. /\ SetupOK /\ held = {} /\ retry = 0 /\ (ram.synced => ram.wr_cnt = cnt)
        /\ Types /\ Disk(blk) /\ OpForm(op)
    BY <1>1, SetupIs DEF Types
  <2>2. Plain(blk)
    BY <1>3, <2>1 DEF Disk, Formatted
  <2>3. OpForm(op') /\ op'.kind = "setup" /\ op'.stage = "format"
    BY <1>1, <1>3, <2>1, StageIs
  <2>4. todo' \in Seq(Writes)
    <3>1. 0 \in Addrs /\ FatStart \in Addrs
      BY Consts DEF Addrs, WellUsed
    <3>2. /\ [addr |-> FatStart, val |-> LastEntry, use |-> "entry"] \in Writes
          /\ [addr |-> 0, val |-> Partition, use |-> "partition"] \in Writes
      BY <3>1, Kinds DEF Writes
    <3> HIDE DEF Writes
    <3> QED
      BY <1>3, <3>2 DEF FormatTodo
  <2>5. Types'
    BY <1>1, <1>3, <2>1, <2>3, <2>4 DEF Types
  <2>6. SetupOK'
    BY <1>1, <1>3, <2>1, <2>2, <2>3 DEF SetupOK, FormatOK
  <2>7. OpOK'
    BY <1>3, <2>1, <2>3, <2>6 DEF OpOK, SetupOK, FileOps
  <2>8. ~Dummy'
    BY <2>3 DEF Dummy
  <2> QED
    BY <1>1, <1>3, <2>1, <2>5, <2>7, <2>8, QuietStep
<1> QED
  BY <1>2, <1>3 DEF SetupDummyDone, FormatTodo

LEMMA SetupFormatDoneStep ==
    ASSUME WellUsed, Inv, SetupFormatDone
    PROVE  Inv'
<1>1. /\ op.kind = "setup" /\ op.stage = "format" /\ todo = <<>> /\ SetupEnds
      /\ UNCHANGED <<cnt, blk, held, fh, retry>>
  BY DEF SetupFormatDone
<1>2. FormatOK(blk, <<>>)
  BY <1>1, SetupIs DEF SetupOK, Live
<1>3. FormatTodo # <<>> /\ Tail(FormatTodo) # <<>>
  BY DEF FormatTodo
<1>4. blk[0] = Partition
  BY <1>2, <1>3 DEF FormatOK
<1> QED
  BY <1>1, <1>4, SetupEndsStep

----------------------------------------------------------------------------
(* The ends of operations *)

LEMMA FailIs ==
    ASSUME Fail \/ Succeed
    PROVE  op' = Idle /\ DOMAIN allowed' = Names
BY DEF Fail, Succeed

\* What a create leaves when a request of it cannot be made.
LEMMA UndoIs ==
    ASSUME WellUsed, Inv, todo # <<>>, retry = 0, op.kind = "create", op.stage # "undoing",
           Head(todo).use # "last"
    PROVE  UndoOK(blk, LastIn(blk), fh)
<1> DEFINE L == LastIn(blk)
<1>1. ram.par /\ ~ram.dead
  BY DEF Inv, OpOK, FileOps
<1>2. /\ Static(fh, op) /\ FileOpOK(blk, L, todo, fh, op) /\ Table(blk, L) /\ todo \in Seq(Writes)
  BY <1>1, Steady DEF FileOps, Types
<1> HIDE DEF L
<1>3. /\ \A a \in FatStart .. L - 1 : a \in FatStart .. L /\ a # L
      /\ L \in FatStart .. L /\ ~EntryIn(blk, L).active
  BY <1>2, TableEnd, Consts
<1>4. CASE op.stage = "write"
  <2>1. CreatingOK(blk, L, todo, fh)
    BY <1>2, <1>4 DEF FileOpOK
  <2>2. CASE Has(blk, L, fh.name)
    BY <2>2 DEF UndoOK, L
  <2>3. CASE fh.addr \in FatStart .. L - 1 /\ ~EntryIn(blk, fh.addr).active
    BY <1>3, <2>3 DEF UndoOK, L
  <2>4. CASE fh.addr = L /\ Extending(blk, L, todo)
    BY <1>3, <2>4 DEF UndoOK, Extending, L
  <2>5. CASE Growing(blk, L, todo)
    <3>1. Head(todo) = todo[1]
      BY <1>2, TailIs
    <3>2. Head(todo).use = "last"
      BY <2>5, <3>1 DEF Growing
    <3> QED
      BY <3>2
  <2> QED
    BY <2>1, <2>2, <2>3, <2>4, <2>5 DEF CreatingOK
<1>5. CASE op.stage = "rename"
  <2>1. RenamingOK(blk, L, todo, fh, op)
    BY <1>2, <1>5 DEF FileOpOK
  <2>2. todo[Len(todo)].addr \in FatStart .. L - 1
    BY <2>1 DEF RenamingOK, Storing, StoreOK, Replacing
  <2>3. Has(blk, L, fh.name)
    BY <1>3, <2>1, <2>2 DEF RenamingOK, Has
  <2> QED
    BY <2>3 DEF UndoOK, L
<1>6. CASE op.stage = "undo"
  BY <1>2, <1>6 DEF FileOpOK
<1> QED
  BY <1>2, <1>4, <1>5, <1>6 DEF Static

LEMMA UnsentStep ==
    ASSUME WellUsed, Inv, Unsent
    PROVE  Inv'
<1>1. /\ todo # <<>> /\ retry = 0 /\ OpFails /\ todo' = <<>>
      /\ cnt' = cnt /\ blk' = blk /\ held' = held /\ retry' = retry
      /\ Head(todo).use # "last" /\ Head(todo).use # "partition"
  BY DEF Unsent, Sending, WellUsed
<1>2. CASE /\ op.kind = "setup" /\ ram' = [ram EXCEPT !.par = Head(todo).use = "partition"]
           /\ op' = Idle /\ fh' = fh /\ allowed' = allowed
  <2>1. SetupOK /\ Types
    BY <1>2 DEF Inv, OpOK
  <2>2. /\ ram' \in [wr_cnt : Nat, synced : BOOLEAN, dead : BOOLEAN, par : BOOLEAN]
        /\ ram'.wr_cnt = ram.wr_cnt /\ ~ram'.dead /\ ~ram'.par
    BY <1>1, <1>2, <2>1 DEF Types, SetupOK
  <2>3. op'.kind = "idle" /\ op'.kind \notin FileOps /\ ~Dummy'
    BY <1>2, IdleTypes DEF Dummy
  <2>4. Types'
    BY <1>1, <1>2, <2>1, <2>2, IdleTypes DEF Types
  <2>5. CountOK'
    BY <1>1, <1>2, <2>2, <2>3, IdleTypes DEF Inv, CountOK
  <2>6. HeldOK'
    BY <1>1, <2>2, <2>3 DEF Inv, HeldOK
  <2>7. OpOK'
    BY <1>1, <1>2, <2>1, <2>2, <2>3 DEF OpOK, IdleOK, SetupOK
  <2> QED
    BY <1>1, <2>4, <2>5, <2>6, <2>7 DEF Inv
<1>3. CASE op.kind \in FileOps
  <2>1. ram.par /\ ~ram.dead /\ Types /\ OpForm(op) /\ fh \in HandleSet
    BY <1>3 DEF Inv, OpOK, Types
  <2>2. Static(fh, op) /\ FileOpOK(blk, LastIn(blk), todo, fh, op) /\ DOMAIN allowed = Names
    BY <1>1, <1>3, <2>1, Steady DEF Types
  <2>3. CASE /\ op.kind = "create" /\ op.stage # "undoing"
             /\ op' = [op EXCEPT !.stage = "undo"] /\ ram' = ram /\ fh' = fh /\ allowed' = allowed
    <3>1. UndoOK(blk, LastIn(blk), fh)
      BY <1>1, <2>3, UndoIs
    <3>2. OpForm(op') /\ op'.kind = "create" /\ op'.stage = "undo"
      BY <2>1, <2>3, StageIs
    <3>3. Static(fh', op')
      BY <2>1, <2>2, <2>3, StageStatic
    <3>4. FileOpOK(blk, LastIn(blk), <<>>, fh', op')
      BY <2>3, <3>1, <3>2 DEF FileOpOK
    <3>5. op'.kind \in FileOps
      BY <3>2 DEF FileOps
    <3> QED
      BY <1>1, <2>1, <2>2, <2>3, <3>2, <3>3, <3>4, <3>5, IdleTypes, FileStep
  <2>4. CASE Fail /\ fh' = NoHandle /\ ram' = ram
    BY <1>1, <2>1, <2>4, FailIs, IdleTypes, EndStep
  <2>5. CASE /\ op.kind \in {"write", "truncate", "rename", "remove"} /\ Fail /\ ram' = ram
             /\ fh' = IF op.kind = "remove" THEN NoHandle
                      ELSE IF op.kind = "rename" \/ Head(todo).use = "entry" THEN fh
                      ELSE [fh EXCEPT !.ent = op.ent]
    <3>1. fh.obj \in Names /\ fh.name = Final(fh.obj)
      BY <2>2, <2>5 DEF Static
    <3>2. Has(blk, LastIn(blk), fh.name)
      BY <1>1, <2>2, <2>5 DEF FileOpOK, UpdateOK, SwitchOK
    <3>3. op.ent \in EntrySet
      BY <2>1 DEF OpForm
    <3>4. fh' = NoHandle \/ (fh' \in HandleSet /\ fh'.obj = fh.obj /\ fh'.name = fh.name)
      BY <2>1, <2>5, <3>3 DEF HandleSet
    <3>5. fh' \in HandleSet
      BY <3>4, IdleTypes
    <3> QED
      BY <1>1, <2>1, <2>5, <3>1, <3>2, <3>4, <3>5, FailIs, EndStep
  <2> QED
    BY <1>1, <1>3, <2>3, <2>4, <2>5 DEF OpFails, FileOps
<1> QED
  BY <1>1, <1>2, <1>3, ReqIs DEF OpFails, FileOps

LEMMA CloseStep ==
    ASSUME WellUsed, Inv, Close
    PROVE  Inv'
<1>1. Ready /\ fh' = NoHandle /\ UNCHANGED <<cnt, blk, held, ram, retry>> /\ op' = op /\ todo' = todo
      /\ allowed' = allowed
  BY DEF Close, Device
<1>2. ram.par /\ ~ram.dead /\ retry = 0 /\ todo = <<>> /\ op = Idle /\ DOMAIN allowed = Names
  BY <1>1, ReadyIs DEF Ready, Inv, Types
<1> QED
  BY <1>1, <1>2, IdleTypes, EndStep

LEMMA OpDoneStep ==
    ASSUME WellUsed, Inv, OpDone
    PROVE  Inv'
<1>1. /\ op.kind \in {"write", "truncate", "rename", "remove"} /\ todo = <<>> /\ todo' = <<>>
      /\ Succeed /\ UNCHANGED <<cnt, blk, held, ram, retry>>
      /\ fh' = IF op.kind \in {"rename", "remove"} THEN NoHandle ELSE fh
  BY DEF OpDone, Device, WellUsed
<1>2. op.kind \in FileOps
  BY <1>1 DEF FileOps
<1>3. ram.par /\ ~ram.dead /\ retry = 0
  BY <1>1, <1>2, Between
<1>4. Static(fh, op) /\ FileOpOK(blk, LastIn(blk), todo, fh, op) /\ fh \in HandleSet
  BY <1>2, <1>3, Steady DEF Types
<1>5. fh' \in HandleSet
  BY <1>1, <1>4, IdleTypes
<1>6. fh' # NoHandle => /\ fh'.obj \in Names /\ fh'.name = Final(fh'.obj)
                        /\ Has(blk, LastIn(blk), fh'.name)
  BY <1>1, <1>4 DEF Static, FileOpOK, UpdateOK
<1> QED
  BY <1>1, <1>3, <1>5, <1>6, FailIs, EndStep

LEMMA CreateDoneStep ==
    ASSUME WellUsed, Inv, CreateDone
    PROVE  Inv'
<1>1. /\ op.kind = "create" /\ op.stage = "rename" /\ todo = <<>> /\ todo' = <<>>
      /\ Succeed /\ UNCHANGED <<cnt, blk, held, ram, retry>>
      /\ fh' = [fh EXCEPT !.name = Final(op.obj)]
  BY DEF CreateDone, CreateAt, Device
<1>2. op.kind \in FileOps
  BY <1>1 DEF FileOps
<1>3. ram.par /\ ~ram.dead /\ retry = 0
  BY <1>1, <1>2, Between
<1>4. Static(fh, op) /\ FileOpOK(blk, LastIn(blk), todo, fh, op) /\ fh \in HandleSet
  BY <1>2, <1>3, Steady DEF Types
<1>5. Has(blk, LastIn(blk), Final(op.obj))
  <2>1. RenamingOK(blk, LastIn(blk), <<>>, fh, op)
    BY <1>1, <1>4 DEF FileOpOK
  <2>2. ~Storing(blk, LastIn(blk), <<>>) /\ ~Replacing(blk, LastIn(blk), <<>>)
    BY DEF Storing, Replacing
  <2> QED
    BY <2>1, <2>2 DEF RenamingOK
<1>6. Final(op.obj) \in FileNames /\ op.obj = fh.obj /\ op.obj \in Names
  BY <1>1, <1>4 DEF Static, FileNames, Final
<1>7. fh' \in HandleSet /\ fh'.obj = fh.obj /\ fh'.name = Final(op.obj)
  BY <1>1, <1>4, <1>6 DEF HandleSet
<1> QED
  BY <1>1, <1>3, <1>5, <1>6, <1>7, FailIs, EndStep

LEMMA CreateFailsStep ==
    ASSUME WellUsed, Inv, CreateFails
    PROVE  Inv'
<1>1. /\ op.kind = "create" /\ todo = <<>> /\ todo' = <<>>
      /\ Fail /\ UNCHANGED <<cnt, blk, held, ram, retry>> /\ fh' = NoHandle
  BY DEF CreateFails, CreateAt, Device
<1>2. ram.par /\ ~ram.dead /\ retry = 0
  BY <1>1, Between DEF FileOps
<1> QED
  BY <1>1, <1>2, FailIs, IdleTypes, EndStep

----------------------------------------------------------------------------
(* read_fat() *)

LEMMA Reads ==
    ASSUME WellUsed, NEW L, Table(blk, L), IsDisk(blk)
    PROVE  /\ Terminated /\ LastAddr = L /\ Fat = FatStart .. L
           /\ \A a : EntryAt(a) = EntryIn(blk, a)
           /\ \A a \in FatStart .. L : Area(EntryIn(blk, a)) \subseteq DataAddrs
<1>1. \A a : EntryAt(a) = EntryIn(blk, a)
  BY DEF EntryAt, EntryIn
<1>2. Terminated
  BY <1>1, TableEnd DEF Terminated
<1>3. LastAddr = L
  BY <1>1, TableEnd DEF LastAddr, LastIn
<1>4. Fat = FatStart .. L
  BY <1>2, <1>3 DEF Fat
<1> QED
  BY <1>1, <1>2, <1>3, <1>4 DEF DataAddrs

SlotOf(L, name, a) ==
    /\ a \in FatStart .. L - 1 /\ a \in FatStart .. L /\ a # 0 /\ a # L /\ a \in Addrs
    /\ EntryIn(blk, a).active /\ EntryIn(blk, a).name = name /\ EntryIn(blk, a) \in EntrySet

LEMMA FoundIs ==
    ASSUME WellUsed, NEW L, Table(blk, L), IsDisk(blk), NEW h
    PROVE  /\ Has(blk, L, h.name) =>
                 \E a : /\ SlotOf(L, h.name, a)
                        /\ Found(h) = [h EXCEPT !.addr = a, !.ent = EntryIn(blk, a)]
           /\ ~Has(blk, L, h.name) => Found(h) = h /\ Matching(h.name) = {}
<1> DEFINE M == Matching(h.name)
<1>1. M = {a \in FatStart .. L : EntryIn(blk, a).active /\ EntryIn(blk, a).name = h.name}
  <2>1. Fat = FatStart .. L /\ \A a : EntryAt(a) = EntryIn(blk, a)
    BY Reads
  <2> QED
    BY <2>1 DEF Matching
<1>2. L \in Nat /\ FatStart .. L \subseteq Addrs /\ ~EntryIn(blk, L).active /\ FatStart = 2
  BY TableEnd, Consts
<1>3. ASSUME Has(blk, L, h.name)
      PROVE  \E a : /\ SlotOf(L, h.name, a)
                    /\ Found(h) = [h EXCEPT !.addr = a, !.ent = EntryIn(blk, a)]
  <2>1. M # {} /\ M \subseteq Nat
    BY <1>1, <1>2, <1>3 DEF Has
  <2> HIDE DEF M
  <2>2. Min(M) \in M
    BY <2>1, MinIs
  <2>3. EntryIn(blk, Min(M)).active /\ EntryIn(blk, Min(M)).name = h.name /\ Min(M) \in FatStart .. L
    BY <1>1, <2>2
  <2>4. Min(M) \in FatStart .. L - 1 /\ Min(M) # L /\ Min(M) # 0 /\ Min(M) \in Addrs
    <3>1. Min(M) # L /\ Min(M) \in Addrs
      BY <1>2, <2>3
    <3> QED
      BY <1>2, <2>3, <3>1
  <2>5. SlotOf(L, h.name, Min(M))
    BY <2>3, <2>4, EntryType DEF SlotOf
  <2>6. Found(h) = [h EXCEPT !.addr = Min(M), !.ent = EntryIn(blk, Min(M))]
    BY <2>1, Reads DEF Found, M
  <2> QED
    BY <2>5, <2>6
<1>4. ASSUME ~Has(blk, L, h.name) PROVE Found(h) = h /\ M = {}
  <2>1. M = {}
    BY <1>1, <1>4 DEF Has
  <2> QED
    BY <2>1 DEF Found
<1> QED
  BY <1>3, <1>4

\* The handle of an existing file.
LEMMA FoundHandle ==
    ASSUME WellUsed, NEW L, Table(blk, L), IsDisk(blk), NEW h \in HandleSet, Has(blk, L, h.name)
    PROVE  LET c == Found(h)
           IN  /\ c \in HandleSet /\ c.obj = h.obj /\ c.name = h.name
               /\ SlotOf(L, h.name, c.addr) /\ c.ent = EntryIn(blk, c.addr)
               /\ Chosen(h) = c /\ ~Expand(h) /\ FatEnd(h) = L /\ GrowFat(h) = <<>>
               /\ ReadFatOk(h)
<1>1. PICK a : SlotOf(L, h.name, a) /\ Found(h) = [h EXCEPT !.addr = a, !.ent = EntryIn(blk, a)]
  BY FoundIs
<1>2. /\ Found(h) \in HandleSet /\ Found(h).obj = h.obj /\ Found(h).name = h.name
      /\ Found(h).addr = a /\ Found(h).ent = EntryIn(blk, a)
  BY <1>1 DEF HandleSet, SlotOf
<1>3. a # 0 /\ a # L
  BY <1>1 DEF SlotOf
<1>4. Chosen(h) = Found(h)
  BY <1>2, <1>3 DEF Chosen
<1>5. ~Expand(h) /\ LastAddr = L /\ Terminated
  BY <1>2, <1>3, <1>4, Reads DEF Expand
<1>6. FatEnd(h) = L /\ GrowFat(h) = <<>>
  BY <1>5, TableEnd, Consts DEF FatEnd, GrowFat
<1> QED
  BY <1>1, <1>2, <1>3, <1>4, <1>5, <1>6 DEF ReadFatOk

\* The handle of a new file: the first unused entry.
LEMMA ChosenHandle ==
    ASSUME WellUsed, NEW L, Table(blk, L), IsDisk(blk), NEW h \in HandleSet,
           ~Has(blk, L, h.name), h.addr = 0
    PROVE  LET c == Chosen(h)
           IN  /\ c \in HandleSet /\ c.obj = h.obj /\ c.name = h.name
               /\ c.addr \in FatStart .. L /\ c.ent = EntryIn(blk, c.addr) /\ ~c.ent.active
               /\ c.addr # L => FatEnd(h) = L /\ GrowFat(h) = <<>>
               /\ c.addr = L => /\ FatEnd(h) = L + 1
                                /\ GrowFat(h) = <<[addr |-> L + 1, val |-> LastEntry, use |-> "last"]>>
<1> DEFINE F == {a \in FatStart .. L : ~EntryIn(blk, a).active}
           m == Min(F)
<1>1. L \in FatStart .. L /\ FatStart .. L \subseteq Addrs /\ ~EntryIn(blk, L).active /\ L \in Nat
      /\ FatStart .. L \subseteq Nat
  BY TableEnd, Consts
<1>2. F # {} /\ F \subseteq Nat
  BY <1>1
<1>3. F = {a \in Fat : ~EntryAt(a).active}
  <2>1. Fat = FatStart .. L /\ \A a : EntryAt(a) = EntryIn(blk, a)
    BY Reads
  <2> QED
    BY <2>1
<1>4. m \in FatStart .. L /\ ~EntryIn(blk, m).active
  <2> HIDE DEF F
  <2>1. m \in F
    BY <1>2, MinIs
  <2> QED
    BY <2>1 DEF F
<1>5. Found(h) = h
  BY FoundIs
<1>6. Chosen(h) = [h EXCEPT !.addr = m, !.ent = EntryIn(blk, m)]
  <2> HIDE DEF F
  <2> QED
    BY <1>2, <1>3, <1>5, Reads DEF Chosen
<1> HIDE DEF m
<1>7. m \in Addrs /\ EntryIn(blk, m) \in EntrySet
  BY <1>1, <1>4, EntryType
<1>8. /\ Chosen(h) \in HandleSet /\ Chosen(h).obj = h.obj /\ Chosen(h).name = h.name
      /\ Chosen(h).addr = m /\ Chosen(h).ent = EntryIn(blk, m)
  BY <1>6, <1>7 DEF HandleSet
<1>9. Expand(h) <=> m = L
  BY <1>8, Reads DEF Expand
<1>10. /\ m # L => FatEnd(h) = L /\ GrowFat(h) = <<>>
       /\ m = L => /\ FatEnd(h) = L + 1
                   /\ GrowFat(h) = <<[addr |-> L + 1, val |-> LastEntry, use |-> "last"]>>
  BY <1>1, <1>9, Reads DEF FatEnd, GrowFat
<1> QED
  BY <1>4, <1>8, <1>10

LEMMA NewHandleIs ==
    ASSUME WellUsed, NEW n \in Names, NEW name \in FileNames
    PROVE  LET h == NewHandle(n, name)
           IN  h \in HandleSet /\ h.obj = n /\ h.name = name /\ h.addr = 0 /\ h.ent = Cleared
BY Consts, Kinds DEF NewHandle, HandleSet, Addrs, WellUsed

LEMMA NamesAre ==
    ASSUME NEW n \in Names
    PROVE  /\ Final(n) \in FileNames /\ Temporary(n) \in FileNames
           /\ \A m : Final(n) # Temporary(m) /\ (Final(n) = Final(m) => n = m)
BY DEF Final, Temporary, FileNames

LEMMA OpenStep ==
    ASSUME WellUsed, Inv, NEW n \in Names, Open(n)
    PROVE  Inv'
<1> DEFINE h == NewHandle(n, Final(n))
           L == LastIn(blk)
<1>1. /\ Ready /\ ReadFatOk(h) /\ fh' = Found(h) /\ UNCHANGED <<cnt, blk, held, ram, retry>>
      /\ op' = op /\ todo' = todo /\ allowed' = allowed
  BY DEF Open, Device
<1>2. /\ ram.par /\ ~ram.dead /\ retry = 0 /\ todo = <<>> /\ op = Idle /\ DOMAIN allowed = Names
  BY <1>1, ReadyIs DEF Ready, Inv, Types
<1>3. Table(blk, L) /\ IsDisk(blk)
  BY <1>2, Steady
<1>4. h \in HandleSet /\ h.obj = n /\ h.name = Final(n) /\ h.addr = 0
  BY NamesAre, NewHandleIs
<1> HIDE DEF h, L
<1>5. Has(blk, L, h.name)
  BY <1>1, <1>3, <1>4, FoundIs DEF ReadFatOk
<1>6. fh' \in HandleSet /\ fh'.obj = n /\ fh'.name = Final(n)
  BY <1>1, <1>3, <1>4, <1>5, FoundHandle
<1> QED
  BY <1>1, <1>2, <1>4, <1>5, <1>6, EndStep DEF L

----------------------------------------------------------------------------
(* rpmb_fs_write_primitive() *)

LEMMA SeqIs ==
    ASSUME NEW S, NEW n \in Nat, NEW f \in [1 .. n -> S]
    PROVE  f \in Seq(S) /\ Len(f) = n
OBVIOUS

\* Data blocks that go outside of the FAT.
LEMMA DataWritesAre ==
    ASSUME WellUsed, NEW L \in Nat, NEW start \in Nat, NEW data \in Seq(BlockValues),
           start >= L + 1, start + Len(data) <= Blocks
    PROVE  LET d == DataWrites(start, data)
           IN  /\ d \in Seq(Writes) /\ Len(d) = Len(data)
               /\ \A i \in 1 .. Len(data) :
                     /\ d[i].addr = start + i - 1 /\ d[i].val = data[i] /\ d[i].use = "data"
                     /\ DataOK(L, d[i])
<1> DEFINE d == DataWrites(start, data)
           n == Len(data)
<1>1. n \in Nat /\ Blocks \in Nat
  BY Consts
<1>2. ASSUME NEW i \in 1 .. n
      PROVE  /\ start + i - 1 \in L + 1 .. Blocks - 1 /\ start + i - 1 \in Addrs
             /\ data[i] \in BlockValues
  BY <1>1 DEF Addrs
<1>3. d = [i \in 1 .. n |-> [addr |-> start + i - 1, val |-> data[i], use |-> "data"]]
  BY DEF DataWrites
<1>4. \A i \in 1 .. n : [addr |-> start + i - 1, val |-> data[i], use |-> "data"] \in Writes
  BY <1>2 DEF Writes
<1> HIDE DEF d
<1>5. d \in [1 .. n -> Writes]
  BY <1>3, <1>4
<1>6. d \in Seq(Writes) /\ Len(d) = n
  BY <1>1, <1>5, SeqIs
<1>7. \A i \in 1 .. n : d[i].addr = start + i - 1 /\ d[i].val = data[i] /\ d[i].use = "data"
  BY <1>3
<1>8. \A i \in 1 .. n : DataOK(L, d[i])
  BY <1>2, <1>7 DEF DataOK
<1> QED
  BY <1>6, <1>7, <1>8 DEF d

LEMMA AppendIs ==
    ASSUME NEW d \in Seq(Writes), NEW w \in Writes
    PROVE  LET t == Append(d, w)
           IN  /\ t \in Seq(Writes) /\ t # <<>> /\ Len(t) = Len(d) + 1 /\ t[Len(t)] = w
               /\ \A i \in 1 .. Len(d) : t[i] = d[i]
<1> HIDE DEF Writes
<1>1. Len(d) \in Nat
  OBVIOUS
<1>2. /\ Append(d, w) \in Seq(Writes) /\ Len(Append(d, w)) = Len(d) + 1
      /\ Append(d, w)[Len(d) + 1] = w /\ \A i \in 1 .. Len(d) : Append(d, w)[i] = d[i]
  OBVIOUS
<1>3. Append(d, w) # <<>>
  BY <1>1, <1>2, Filled
<1> QED
  BY <1>1, <1>2, <1>3

\* Data and an entry for it.
LEMMA StoringIs ==
    ASSUME WellUsed, NEW b, NEW L, NEW d \in Seq(Writes), NEW w \in Writes,
           \A i \in 1 .. Len(d) : DataOK(L, d[i]), StoreOK(b, L, w)
    PROVE  Storing(b, L, Append(d, w)) /\ Append(d, w) \in Seq(Writes)
<1> DEFINE t == Append(d, w)
<1>1. /\ t \in Seq(Writes) /\ t # <<>> /\ Len(t) = Len(d) + 1 /\ t[Len(t)] = w
      /\ \A i \in 1 .. Len(d) : t[i] = d[i]
  BY AppendIs
<1>2. Len(d) \in Nat
  BY Filled
<1> HIDE DEF t
<1>3. \A i \in 1 .. Len(t) - 1 : DataOK(L, t[i])
  BY <1>1, <1>2
<1> QED
  BY <1>1, <1>3 DEF Storing, t

\* One block write.
LEMMA OneIs ==
    ASSUME WellUsed, NEW b, NEW L, NEW w \in Writes
    PROVE  /\ <<w>> \in Seq(Writes) /\ Len(<<w>>) = 1 /\ <<w>>[1] = w /\ <<w>> # <<>>
           /\ StoreOK(b, L, w) => Storing(b, L, <<w>>)
<1>1. <<w>> \in Seq(Writes) /\ Len(<<w>>) = 1 /\ <<w>>[1] = w /\ <<w>> # <<>>
  OBVIOUS
<1>2. \A i \in 1 .. 1 - 1 : FALSE
  OBVIOUS
<1> QED
  BY <1>1, <1>2 DEF Storing

LEMMA AreaIs ==
    ASSUME NEW e \in EntrySet, e.active
    PROVE  Area(e) = e.start .. e.start + e.size - 1 /\ e.start \in Nat /\ e.size \in Nat
           /\ e.size <= MaxLen /\ e.start <= Blocks
BY Consts DEF Area, EntrySet

\* The blocks of a file.
LEMMA DataOfIs ==
    ASSUME WellUsed, NEW L, Table(blk, L), IsDisk(blk), NEW name, NEW a, SlotOf(L, name, a)
    PROVE  LET e == EntryIn(blk, a)
           IN  /\ DataOf(e) \in Seq(BlockValues) /\ Len(DataOf(e)) = e.size
               /\ \A i \in 1 .. e.size : /\ e.start + i - 1 \in L + 1 .. Blocks - 1
                                         /\ DataOf(e)[i] = blk[e.start + i - 1]
<1> DEFINE e == EntryIn(blk, a)
<1>1. e \in EntrySet /\ e.active /\ a \in FatStart .. L /\ L \in Nat /\ L >= 2
  BY TableEnd, Consts DEF SlotOf
<1>2. Area(e) \subseteq L + 1 .. Blocks - 1
  BY <1>1 DEF Table
<1> HIDE DEF e
<1>3. /\ Area(e) = e.start .. e.start + e.size - 1 /\ e.start \in Nat /\ e.size \in Nat
  BY <1>1, AreaIs
<1>4. ASSUME NEW i \in 1 .. e.size
      PROVE  e.start + i - 1 \in L + 1 .. Blocks - 1 /\ e.start + i - 1 \in Addrs
  <2>1. e.start + i - 1 \in e.start .. e.start + e.size - 1
    BY <1>3
  <2>2. e.start + i - 1 \in L + 1 .. Blocks - 1
    BY <1>2, <1>3, <2>1
  <2> QED
    BY <1>1, <2>2, Consts DEF Addrs
<1>5. DataOf(e) = [i \in 1 .. e.size |-> blk[e.start + i - 1]]
  BY DEF DataOf
<1>6. DataOf(e) \in [1 .. e.size -> BlockValues]
  BY <1>4, <1>5 DEF IsDisk
<1> QED
  BY <1>3, <1>4, <1>5, <1>6, SeqIs DEF e

LEMMA BlocksOfIs ==
    ASSUME NEW old \in Seq(BlockValues), NEW i \in Nat \ {0}
    PROVE  BlocksOf(old, i) \in BlockValues
BY Kinds, Consts DEF BlocksOf

LEMMA MaxOfIs ==
    ASSUME NEW i \in Nat, NEW j \in Nat
    PROVE  MaxOf(i, j) \in Nat /\ MaxOf(i, j) >= i /\ MaxOf(i, j) >= j /\ MaxOf(i, j) \in {i, j}
BY DEF MaxOf

LEMMA HelperIs ==
    ASSUME NEW old \in Seq(BlockValues), NEW pos \in Nat, NEW new \in Seq(BlockValues)
    PROVE  LET u == UpdateWriteHelper(old, pos, new)
           IN  u \in Seq(BlockValues) /\ Len(u) = MaxOf(Len(old), pos + Len(new))
<1> DEFINE n == MaxOf(Len(old), pos + Len(new))
           off(i) == ((i - 1) \div TmpBlocks) * TmpBlocks
           v(i) == IF i > pos /\ i <= pos + Len(new) THEN new[i - pos]
                   ELSE IF off(i) < pos THEN BlocksOf(old, i) ELSE DataBlock(Zero)
<1>1. Len(old) \in Nat /\ Len(new) \in Nat /\ n \in Nat
  <2>1. Len(old) \in Nat /\ Len(new) \in Nat
    OBVIOUS
  <2>2. pos + Len(new) \in Nat
    BY <2>1
  <2> QED
    BY <2>1, <2>2, MaxOfIs
<1>2. UpdateWriteHelper(old, pos, new) = [i \in 1 .. n |-> v(i)]
  BY Zenon DEF UpdateWriteHelper
<1> HIDE DEF n, off
<1>3. ASSUME NEW i \in 1 .. n PROVE v(i) \in BlockValues
  <2>1. BlocksOf(old, i) \in BlockValues /\ DataBlock(Zero) \in BlockValues
    BY <1>1, BlocksOfIs, Kinds, Consts
  <2>2. i > pos /\ i <= pos + Len(new) => new[i - pos] \in BlockValues
    BY <1>1
  <2> QED
    BY <2>1, <2>2
<1> HIDE DEF v
<1>4. UpdateWriteHelper(old, pos, new) \in [1 .. n -> BlockValues]
  BY <1>2, <1>3
<1> QED
  BY <1>1, <1>4, SeqIs DEF n

\* An area that tee_mm_alloc() finds, and the entry for it.
Place(h, n) == [Found(h) EXCEPT !.ent.size = n, !.ent.start = Max(Gaps(Used(h), n))]

LEMMA PlaceIs ==
    ASSUME WellUsed, NEW L, Table(blk, L), IsDisk(blk), NEW h \in HandleSet, Has(blk, L, h.name),
           PoolOk(h), NEW n \in 1 .. MaxLen, Gaps(Used(h), n) # {}
    PROVE  LET w == Place(h, n)
               s == w.ent.start
           IN  /\ s \in Nat /\ s >= L + 1 /\ s + n <= Blocks
               /\ w \in HandleSet /\ w.obj = h.obj /\ w.name = h.name /\ w.addr = Found(h).addr
               /\ w.ent.size = n /\ w.ent.active /\ w.ent.name = h.name
               /\ (s .. s + n - 1) \cap DataAddrs = {}
               /\ StoreOK(blk, L, EntryWrite(w)) /\ EntryWrite(w) \in Writes
<1> DEFINE G == Gaps(Used(h), n)
           c == Found(h)
           s == Max(G)
           w == Place(h, n)
<1>1. /\ c \in HandleSet /\ c.obj = h.obj /\ c.name = h.name
      /\ SlotOf(L, h.name, c.addr) /\ c.ent = EntryIn(blk, c.addr) /\ FatEnd(h) = L
  BY FoundHandle
<1>2. L \in Nat /\ Blocks \in Nat /\ MaxLen \in Nat /\ L >= 2
  BY TableEnd, Consts
<1>3. G = {x \in 0 .. Blocks - n : (x .. x + n - 1) \cap Used(h) = {}}
  BY DEF Gaps
<1>4. s \in G
  <2>1. G \subseteq 0 .. Blocks
    BY <1>2, <1>3
  <2> HIDE DEF G
  <2> QED
    BY <1>2, <2>1, MaxIs DEF G
<1> HIDE DEF G, s, c
<1>5. s \in Nat /\ s + n <= Blocks /\ (s .. s + n - 1) \cap Used(h) = {} /\ s <= Blocks
  BY <1>2, <1>3, <1>4
<1>6. (s .. s + n - 1) \cap DataAddrs = {} /\ (s .. s + n - 1) \cap (0 .. L) = {}
  BY <1>1, <1>5 DEF Used
<1>7. s >= L + 1
  BY <1>2, <1>5, <1>6
<1>8. /\ c.ent \in EntrySet /\ c.ent.active /\ c.ent.name = h.name /\ ~c.ent.last
      /\ c.addr \in FatStart .. L - 1 /\ c.addr \in FatStart .. L
  BY <1>1 DEF SlotOf, Table, Ends
<1> DEFINE e == [c.ent EXCEPT !.size = n, !.start = s]
<1>9. /\ e \in EntrySet /\ e.active /\ e.name = h.name /\ ~e.last /\ e.start = s /\ e.size = n
  <2>1. s \in 0 .. Blocks /\ n \in 0 .. MaxLen
    BY <1>2, <1>5
  <2> HIDE DEF Final
  <2> QED
    BY <1>8, <2>1 DEF EntrySet
<1> HIDE DEF e
<1>10. w = [c EXCEPT !.ent = e]
  <2>1. w = [c EXCEPT !.ent.size = n, !.ent.start = s]
    BY DEF Place, c, s, G
  <2> QED
    BY <1>1, <1>8, <2>1 DEF HandleSet, EntrySet, e
<1>11. /\ w \in HandleSet /\ w.obj = h.obj /\ w.name = h.name /\ w.addr = c.addr /\ w.ent = e
  BY <1>1, <1>9, <1>10 DEF HandleSet
<1> HIDE DEF w
<1>12. Area(e) = s .. s + n - 1 /\ Area(e) \subseteq L + 1 .. Blocks - 1
  BY <1>2, <1>5, <1>7, <1>9, AreaIs
<1>13. ASSUME NEW x \in (FatStart .. L) \ {c.addr} PROVE Apart(e, EntryIn(blk, x))
  <2>1. Area(EntryIn(blk, x)) \subseteq DataAddrs
    BY Reads
  <2>2. Area(e) \cap Area(EntryIn(blk, x)) = {}
    BY <1>6, <1>12, <2>1
  <2>3. Apart(EntryIn(blk, c.addr), EntryIn(blk, x))
    BY <1>8 DEF Table
  <2> QED
    BY <1>1, <1>8, <1>9, <2>2, <2>3 DEF Apart
<1>14. Fits(blk, L, c.addr, e)
  BY <1>9, <1>12, <1>13 DEF Fits
<1>15. /\ EntryWrite(w) \in Writes /\ EntryWrite(w).addr = c.addr /\ EntryWrite(w).val = e
       /\ EntryWrite(w).use = "entry"
  <2>1. c.addr \in Addrs /\ e \in BlockValues
    BY <1>1, <1>9, Kinds DEF HandleSet
  <2> QED
    BY <1>11, <2>1 DEF EntryWrite, Writes
<1>16. StoreOK(blk, L, EntryWrite(w))
  BY <1>8, <1>14, <1>15 DEF StoreOK
<1> QED
  BY <1>5, <1>6, <1>7, <1>9, <1>11, <1>15, <1>16 DEF w, s, c, G

LEMMA WriteIs ==
    ASSUME WellUsed, NEW L, Table(blk, L), IsDisk(blk), NEW h \in HandleSet, Has(blk, L, h.name),
           NEW pos \in Nat, NEW new \in Seq(BlockValues), Len(new) > 0, pos + Len(new) <= MaxLen,
           WriteFits(h, pos, new)
    PROVE  LET w == WriteHandle(h, pos, new)
               td == WriteTodo(h, pos, new)
           IN  /\ w \in HandleSet /\ w.obj = h.obj /\ w.name = h.name
               /\ td \in Seq(Writes) /\ UpdateOK(blk, L, td, h)
<1> DEFINE c == Found(h)
           w == WriteHandle(h, pos, new)
           td == WriteTodo(h, pos, new)
<1>1. /\ c \in HandleSet /\ c.obj = h.obj /\ c.name = h.name
      /\ SlotOf(L, h.name, c.addr) /\ c.ent = EntryIn(blk, c.addr)
      /\ Chosen(h) = c /\ GrowFat(h) = <<>>
  BY FoundHandle
<1>2. L \in Nat /\ Len(new) \in Nat /\ MaxLen \in Nat /\ Blocks \in Nat
  BY TableEnd, Consts
<1>3. /\ DataOf(c.ent) \in Seq(BlockValues) /\ Len(DataOf(c.ent)) = c.ent.size
      /\ \A i \in 1 .. c.ent.size : c.ent.start + i - 1 \in L + 1 .. Blocks - 1
  BY <1>1, DataOfIs
<1>4. c.ent.start \in Nat /\ c.ent.size \in Nat /\ c.ent.size <= MaxLen
  BY <1>1, AreaIs DEF SlotOf
<1>5. CASE InPlace(c.ent, pos, new)
  <2> DEFINE d == DataWrites(c.ent.start + pos, new)
  <2>1. pos + 1 <= c.ent.size /\ Len(new) = 1
    BY <1>5 DEF InPlace
  <2>2. c.ent.start + pos >= L + 1 /\ c.ent.start + pos + Len(new) <= Blocks
        /\ c.ent.start + pos \in Nat
    <3>1. pos + 1 \in 1 .. c.ent.size /\ c.ent.start + (pos + 1) - 1 = c.ent.start + pos
      BY <1>4, <2>1
    <3>2. c.ent.start + pos \in L + 1 .. Blocks - 1
      BY <1>3, <3>1
    <3> QED
      BY <1>2, <2>1, <3>2
  <2>3. d \in Seq(Writes) /\ Len(d) = 1 /\ DataOK(L, d[1]) /\ d[1].use = "data"
    <3>1. 1 \in 1 .. Len(new)
      BY <2>1
    <3> DEFINE start == c.ent.start + pos
               x == DataWrites(start, new)
    <3>2. start \in Nat /\ start >= L + 1 /\ start + Len(new) <= Blocks
      BY <2>2
    <3> HIDE DEF start
    <3>3. x \in Seq(Writes) /\ Len(x) = Len(new)
          /\ \A i \in 1 .. Len(new) : x[i].use = "data" /\ DataOK(L, x[i])
      BY <1>2, <3>2, DataWritesAre
    <3> HIDE DEF x
    <3>4. d = x
      BY DEF x, start
    <3> HIDE DEF d
    <3> QED
      BY <2>1, <3>1, <3>3, <3>4
  <2>4. w = c /\ td = <<>> \o d
    <3>1. InPlace(Chosen(h).ent, pos, new)
      BY <1>1, <1>5
    <3>2. w = Chosen(h)
      BY <3>1, Zenon DEF WriteHandle
    <3>3. td = GrowFat(h) \o DataWrites(Chosen(h).ent.start + pos, new)
      BY <3>1, Zenon DEF WriteTodo
    <3> HIDE DEF w, td
    <3> QED
      BY <1>1, <3>2, <3>3, Zenon
  <2> HIDE DEF d, w, td
  <2>5. td = d
    BY <2>3, <2>4
  <2>6. Moving(blk, L, td) /\ Makes(td, h.name)
    BY <2>3, <2>5 DEF Moving, Placing, Makes
  <2> QED
    BY <1>1, <2>3, <2>4, <2>5, <2>6 DEF UpdateOK, w, td
<1>6. CASE ~InPlace(c.ent, pos, new)
  <2> DEFINE n == NewSize(c.ent, pos, new)
             u == UpdateWriteHelper(DataOf(c.ent), pos, new)
             d == DataWrites(w.ent.start, u)
  <2>1. n \in 1 .. MaxLen /\ Len(u) = n /\ u \in Seq(BlockValues)
    <3>1. pos + Len(new) \in Nat /\ pos + Len(new) > 0
      BY <1>2
    <3>2. n = MaxOf(c.ent.size, pos + Len(new))
      BY DEF NewSize
    <3>3. n \in Nat /\ n >= pos + Len(new) /\ n \in {c.ent.size, pos + Len(new)}
      BY <1>4, <3>1, <3>2, MaxOfIs
    <3>4. n \in 1 .. MaxLen
      BY <1>2, <1>4, <3>1, <3>3
    <3> DEFINE old == DataOf(c.ent)
    <3>5. old \in Seq(BlockValues) /\ Len(old) = c.ent.size
      BY <1>3
    <3> HIDE DEF old, n
    <3>6. /\ UpdateWriteHelper(old, pos, new) \in Seq(BlockValues)
          /\ Len(UpdateWriteHelper(old, pos, new)) = MaxOf(Len(old), pos + Len(new))
      <4> HIDE DEF BlockValues
      <4> QED
        BY <3>5, HelperIs, Zenon
    <3> QED
      BY <3>2, <3>4, <3>5, <3>6, Zenon DEF old
  <2>2. PoolOk(h) /\ Gaps(Used(h), n) # {}
    BY <1>1, <1>6 DEF WriteFits
  <2>3. w = [c EXCEPT !.ent.size = n, !.ent.start = Max(Gaps(Used(h), n))]
    BY <1>1, <1>6, Zenon DEF WriteHandle
  <2>4. /\ w.ent.start \in Nat /\ w.ent.start >= L + 1 /\ w.ent.start + n <= Blocks
        /\ w \in HandleSet /\ w.obj = h.obj /\ w.name = h.name
        /\ w.ent.active /\ w.ent.name = h.name
        /\ StoreOK(blk, L, EntryWrite(w)) /\ EntryWrite(w) \in Writes
    <3>1. w = Place(h, n)
      BY <2>3, Zenon DEF Place
    <3> HIDE DEF n, w
    <3> QED
      BY <2>1, <2>2, <3>1, PlaceIs
  <2>5. td = <<>> \o Append(d, EntryWrite(w))
    BY <1>1, <1>6, Zenon DEF WriteTodo
  <2> HIDE DEF w, td, u, n
  <2>6. d \in Seq(Writes) /\ \A i \in 1 .. Len(d) : DataOK(L, d[i])
    BY <1>2, <2>1, <2>4, DataWritesAre
  <2> HIDE DEF d
  <2>7. /\ Append(d, EntryWrite(w)) \in Seq(Writes)
        /\ Append(d, EntryWrite(w)) # <<>>
        /\ Append(d, EntryWrite(w))[Len(Append(d, EntryWrite(w)))] = EntryWrite(w)
        /\ Storing(blk, L, Append(d, EntryWrite(w)))
    BY <2>4, <2>6, AppendIs, StoringIs
  <2>8. td = Append(d, EntryWrite(w))
    BY <2>5, <2>7
  <2>9. EntryWrite(w).val = w.ent
    BY DEF EntryWrite
  <2>10. Moving(blk, L, td) /\ Makes(td, h.name)
    BY <2>4, <2>7, <2>8, <2>9 DEF Moving, Makes
  <2> QED
    BY <2>4, <2>7, <2>8, <2>10 DEF UpdateOK, w, td
<1> QED
  BY <1>5, <1>6

LEMMA DataSeqsAre ==
    ASSUME NEW lens, lens \subseteq Nat, NEW d \in DataSeqs(lens)
    PROVE  d \in Seq(BlockValues) /\ Len(d) \in lens
<1>1. PICK i \in lens, v \in Values \ {Zero} : d = [j \in 1 .. i |-> DataBlock(v)]
  BY DEF DataSeqs
<1>2. DataBlock(v) \in BlockValues
  BY Kinds
<1> HIDE DEF DataBlock
<1>3. d \in [1 .. i -> BlockValues] /\ i \in Nat
  BY <1>1, <1>2
<1> QED
  BY <1>3, SeqIs

LEMMA OpIs ==
    ASSUME NEW k, NEW e \in EntrySet
    PROVE  LET o == [Idle EXCEPT !.kind = k, !.ent = e]
           IN  OpForm(o) /\ o.kind = k /\ o.ent = e /\ o.mid = {}
<1>1. ASSUME NEW p, OpForm(p)
      PROVE  LET o == [p EXCEPT !.kind = k, !.ent = e]
             IN  OpForm(o) /\ o.kind = k /\ o.ent = e /\ o.mid = p.mid
  <2> DEFINE q == [p EXCEPT !.kind = k]
             o == [q EXCEPT !.ent = e]
  <2>1. OpForm(q) /\ q.kind = k /\ q.mid = p.mid
    BY <1>1 DEF OpForm
  <2>2. o = [p EXCEPT !.kind = k, !.ent = e]
    BY <1>1 DEF OpForm
  <2> HIDE DEF q
  <2>3. OpForm(o) /\ o.kind = k /\ o.ent = e /\ o.mid = q.mid
    BY <2>1 DEF OpForm
  <2> HIDE DEF o
  <2> QED
    BY <2>1, <2>2, <2>3, Zenon
<1>2. OpForm(Idle) /\ Idle.mid = {}
  BY IdleTypes DEF Idle
<1> HIDE DEF Idle
<1> QED
  BY <1>1, <1>2

LEMMA BeginIs ==
    ASSUME NEW o, OpForm(o), NEW new, Begin(o, new)
    PROVE  /\ OpForm(op') /\ op'.kind = o.kind /\ op'.stage = o.stage /\ op'.obj = o.obj
           /\ op'.data = o.data /\ op'.pos = o.pos /\ DOMAIN allowed' = Names
BY DEF OpForm, Begin

\* The state in which the caller of an open handle begins an operation.
LEMMA OpenedIs ==
    ASSUME WellUsed, Inv, Ready, Opened
    PROVE  /\ ram.par /\ ~ram.dead /\ retry = 0 /\ todo = <<>> /\ op = Idle
           /\ Table(blk, LastIn(blk)) /\ IsDisk(blk) /\ fh \in HandleSet
           /\ fh.obj \in Names /\ fh.name = Final(fh.obj) /\ Has(blk, LastIn(blk), fh.name)
           /\ DOMAIN allowed = Names
BY ReadyIs, Steady DEF IdleOK, Types, Opened

LEMMA WriteStep ==
    ASSUME WellUsed, Inv, NEW pos \in 1 .. MaxLen - 1, NEW new \in DataSeqs(1 .. MaxLen - pos),
           Write(pos, new)
    PROVE  Inv'
<1> DEFINE L == LastIn(blk)
           o == [Idle EXCEPT !.kind = "write", !.ent = Chosen(fh).ent]
<1>1. Ready /\ Opened /\ UNCHANGED <<cnt, blk, held, ram, retry>>
  BY DEF Write, Device
<1>2. /\ ram.par /\ ~ram.dead /\ retry = 0 /\ todo = <<>> /\ op = Idle
      /\ Table(blk, L) /\ IsDisk(blk) /\ fh \in HandleSet
      /\ fh.obj \in Names /\ fh.name = Final(fh.obj) /\ Has(blk, L, fh.name)
      /\ DOMAIN allowed = Names
  BY <1>1, OpenedIs
<1>3. /\ new \in Seq(BlockValues) /\ Len(new) > 0 /\ pos + Len(new) <= MaxLen /\ pos \in Nat
  <2>1. 1 .. MaxLen - pos \subseteq Nat /\ pos \in Nat /\ MaxLen \in Nat
    BY Consts
  <2> QED
    BY <2>1, DataSeqsAre
<1>4. /\ Found(fh) \in HandleSet /\ Found(fh).obj = fh.obj /\ Found(fh).name = fh.name
      /\ Chosen(fh) = Found(fh)
  BY <1>2, FoundHandle
<1> HIDE DEF L
<1>5. CASE /\ WriteFits(fh, pos, new) /\ fh' = WriteHandle(fh, pos, new)
           /\ todo' = WriteTodo(fh, pos, new)
           /\ Begin(o, [n \in {fh.obj} |-> Spliced(DataOf(Chosen(fh).ent), pos, new)])
  <2>1. /\ fh' \in HandleSet /\ fh'.obj = fh.obj /\ fh'.name = fh.name
        /\ todo' \in Seq(Writes) /\ UpdateOK(blk, L, todo', fh)
    BY <1>2, <1>3, <1>5, WriteIs
  <2>2. OpForm(o) /\ o.kind = "write"
    <3>1. Chosen(fh).ent \in EntrySet
      BY <1>4 DEF HandleSet
    <3> QED
      BY <3>1, OpIs
  <2>3. OpForm(op') /\ op'.kind = "write" /\ DOMAIN allowed' = Names
    BY <1>5, <2>2, BeginIs
  <2>4. UpdateOK(blk, L, todo', fh')
    BY <2>1 DEF UpdateOK
  <2>5. FileOpOK(blk, L, todo', fh', op') /\ Static(fh', op') /\ op'.kind \in FileOps
    BY <1>2, <2>1, <2>3, <2>4 DEF FileOpOK, Static, FileOps
  <2> QED
    BY <1>1, <1>2, <2>1, <2>3, <2>5, FileStep DEF L
<1>6. CASE fh' = Chosen(fh) /\ op' = op /\ todo' = todo /\ allowed' = allowed
  BY <1>1, <1>2, <1>4, <1>6, EndStep DEF L
<1> QED
  BY <1>5, <1>6 DEF Write

LEMMA CreateWriteStep ==
    ASSUME WellUsed, Inv, CreateWrite
    PROVE  Inv'
<1> DEFINE L == LastIn(blk)
           new == <<op.data[op.pos + 1]>>
<1>1. /\ op.kind = "create" /\ op.stage = "write" /\ todo = <<>> /\ op.pos < Len(op.data)
      /\ UNCHANGED <<cnt, blk, held, ram, retry>> /\ allowed' = allowed
  BY DEF CreateWrite, CreateAt, Device
<1>2. op.kind \in FileOps
  BY <1>1 DEF FileOps
<1>3. /\ ram.par /\ ~ram.dead /\ retry = 0
  BY <1>1, <1>2, Between
<1>4. /\ Table(blk, L) /\ IsDisk(blk) /\ fh \in HandleSet /\ OpForm(op)
      /\ Static(fh, op) /\ FileOpOK(blk, L, todo, fh, op) /\ DOMAIN allowed = Names
  BY <1>2, <1>3, Steady DEF Types
<1> HIDE DEF L
<1>5. Has(blk, L, fh.name)
  <2>1. CreatingOK(blk, L, <<>>, fh)
    BY <1>1, <1>4 DEF FileOpOK
  <2>2. ~Storing(blk, L, <<>>) /\ ~Extending(blk, L, <<>>) /\ ~Growing(blk, L, <<>>)
    BY DEF Storing, Extending, Growing
  <2> QED
    BY <2>1, <2>2 DEF CreatingOK
<1>6. op.data \in Seq(BlockValues) /\ Len(op.data) \in 1 .. 2 /\ op.pos \in 0 .. Len(op.data)
  <2>1. 1 .. 2 \subseteq Nat
    OBVIOUS
  <2> QED
    BY <1>1, <1>4, <2>1, DataSeqsAre DEF Static
<1>7. new \in Seq(BlockValues) /\ Len(new) = 1 /\ op.pos \in Nat /\ op.pos + 1 <= MaxLen
      /\ op.pos + 1 \in 0 .. Len(op.data)
  <2>1. op.data[op.pos + 1] \in BlockValues
    BY <1>1, <1>6
  <2>2. op.pos \in Nat /\ op.pos + 1 <= MaxLen /\ op.pos + 1 \in 0 .. Len(op.data)
    <3>1. ASSUME NEW n \in 1 .. 2, NEW p \in 0 .. n, p < n
          PROVE  p \in Nat /\ p + 1 <= MaxLen /\ p + 1 \in 0 .. n
      BY <3>1, Consts DEF WellUsed
    <3> QED
      BY <1>1, <1>6, <3>1
  <2> HIDE DEF BlockValues
  <2> QED
    BY <2>1, <2>2
<1>8. CASE /\ WriteFits(fh, op.pos, new) /\ fh' = WriteHandle(fh, op.pos, new)
           /\ todo' = WriteTodo(fh, op.pos, new) /\ op' = [op EXCEPT !.pos = @ + 1]
  <2>1. /\ fh' \in HandleSet /\ fh'.obj = fh.obj /\ fh'.name = fh.name
        /\ todo' \in Seq(Writes) /\ UpdateOK(blk, L, todo', fh)
    <3> HIDE DEF new
    <3>1. Len(new) > 0 /\ op.pos + Len(new) <= MaxLen
      BY <1>7
    <3> QED
      BY <1>4, <1>5, <1>7, <1>8, <3>1, WriteIs
  <2>2. /\ OpForm(op') /\ op'.kind = "create" /\ op'.stage = "write" /\ op'.obj = op.obj
        /\ op'.data = op.data /\ op'.pos = op.pos + 1
    BY <1>1, <1>4, <1>8 DEF OpForm
  <2>3. Static(fh', op') /\ op'.kind \in FileOps
    BY <1>1, <1>4, <1>7, <2>1, <2>2 DEF Static, FileOps
  <2>4. CreatingOK(blk, L, todo', fh')
    BY <1>5, <2>1 DEF UpdateOK, CreatingOK
  <2>5. FileOpOK(blk, L, todo', fh', op')
    BY <2>2, <2>4 DEF FileOpOK
  <2> QED
    BY <1>1, <1>3, <1>4, <2>1, <2>2, <2>3, <2>5, FileStep DEF L
<1>9. CASE fh' = Chosen(fh) /\ op' = [op EXCEPT !.stage = "undo"] /\ todo' = todo
  <2>1. fh' \in HandleSet /\ fh'.obj = fh.obj /\ fh'.name = fh.name
    BY <1>4, <1>5, <1>9, FoundHandle
  <2>2. OpForm(op') /\ op'.kind = "create" /\ op'.stage = "undo"
    BY <1>1, <1>4, <1>9, StageIs
  <2>3. Static(fh, op') /\ op'.kind \in FileOps
    BY <1>1, <1>4, <1>9, <2>2, StageStatic DEF FileOps
  <2>4. Static(fh', op')
    BY <2>1, <2>3 DEF Static
  <2>5. FileOpOK(blk, L, todo', fh', op')
    BY <1>1, <1>5, <1>9, <2>1, <2>2 DEF FileOpOK, UndoOK
  <2> QED
    BY <1>1, <1>3, <1>4, <1>9, <2>1, <2>2, <2>3, <2>4, <2>5, IdleTypes, FileStep DEF L
<1> QED
  BY <1>8, <1>9 DEF CreateWrite

----------------------------------------------------------------------------
(* Entries that change in place *)

LEMMA FoundAgain ==
    ASSUME WellUsed, NEW L, Table(blk, L), IsDisk(blk), NEW h \in HandleSet, Has(blk, L, h.name)
    PROVE  Found(Found(h)) = Found(h)
<1> DEFINE a == Min(Matching(h.name))
           c == [h EXCEPT !.addr = a, !.ent = EntryAt(a)]
<1>1. PICK x : SlotOf(L, h.name, x) /\ Found(h) = [h EXCEPT !.addr = x, !.ent = EntryIn(blk, x)]
  BY FoundIs
<1>2. Matching(h.name) # {}
  <2>1. x \in Fat /\ EntryAt(x).active /\ EntryAt(x).name = h.name
    BY <1>1, Reads DEF SlotOf
  <2> QED
    BY <2>1 DEF Matching
<1>3. Found(h) = c
  BY <1>2 DEF Found
<1>4. c.name = h.name /\ c.addr = a /\ c.ent = EntryAt(a) /\ [c EXCEPT !.addr = a, !.ent = EntryAt(a)] = c
  BY DEF HandleSet
<1> HIDE DEF c
<1>5. Found(c) = [c EXCEPT !.addr = a, !.ent = EntryAt(a)]
  BY <1>2, <1>4 DEF Found
<1> QED
  BY <1>3, <1>4, <1>5

\* An entry that keeps to the area of the one it replaces, under a name that is free.
LEMMA SwapIs ==
    ASSUME WellUsed, NEW L, Table(blk, L), IsDisk(blk), NEW a \in FatStart .. L,
           NEW e \in EntrySet, ~e.last, Area(e) \subseteq Area(EntryIn(blk, a)),
           \A c \in (FatStart .. L) \ {a} :
              e.active /\ EntryIn(blk, c).active => e.name # EntryIn(blk, c).name
    PROVE  Fits(blk, L, a, e)
<1>1. Area(e) \subseteq L + 1 .. Blocks - 1
  BY DEF Table
<1>2. ASSUME NEW c \in (FatStart .. L) \ {a} PROVE Apart(e, EntryIn(blk, c))
  <2>1. Apart(EntryIn(blk, a), EntryIn(blk, c))
    BY DEF Table
  <2> HIDE DEF Area
  <2> QED
    BY <2>1 DEF Apart
<1> QED
  BY <1>1, <1>2 DEF Fits

\* The slots of two files differ from each other and from all others.
LEMMA SlotIs ==
    ASSUME WellUsed, NEW L, Table(blk, L), NEW name, NEW a, SlotOf(L, name, a),
           NEW c \in FatStart .. L, c # a, EntryIn(blk, c).active
    PROVE  EntryIn(blk, c).name # name
BY DEF Table, SlotOf, Apart

LEMMA EntryWriteIs ==
    ASSUME NEW h \in HandleSet
    PROVE  /\ EntryWrite(h) \in Writes /\ EntryWrite(h).addr = h.addr
           /\ EntryWrite(h).val = h.ent /\ EntryWrite(h).use = "entry"
BY Kinds DEF EntryWrite, HandleSet, Writes

LEMMA WithEnt ==
    ASSUME NEW h \in HandleSet, NEW e \in EntrySet
    PROVE  LET g == [h EXCEPT !.ent = e]
           IN  g \in HandleSet /\ g.obj = h.obj /\ g.name = h.name /\ g.addr = h.addr /\ g.ent = e
BY DEF HandleSet

LEMMA WithSize ==
    ASSUME NEW h \in HandleSet, NEW n \in 0 .. MaxLen
    PROVE  LET g == [h EXCEPT !.ent.size = n]
           IN  /\ g \in HandleSet /\ g.obj = h.obj /\ g.name = h.name /\ g.addr = h.addr
               /\ g.ent \in EntrySet /\ g.ent.size = n /\ g.ent.start = h.ent.start
               /\ g.ent.active = h.ent.active /\ g.ent.name = h.ent.name /\ g.ent.last = h.ent.last
<1> DEFINE e == [h.ent EXCEPT !.size = n]
           g == [h EXCEPT !.ent.size = n]
<1>1. h.ent \in EntrySet
  BY DEF HandleSet
<1>2. /\ e \in EntrySet /\ e.size = n /\ e.start = h.ent.start /\ e.active = h.ent.active
      /\ e.name = h.ent.name /\ e.last = h.ent.last
  BY <1>1 DEF EntrySet
<1>3. g = [h EXCEPT !.ent = e]
  BY DEF HandleSet
<1> HIDE DEF e, g
<1>4. g \in HandleSet /\ g.obj = h.obj /\ g.name = h.name /\ g.addr = h.addr /\ g.ent = e
  BY <1>2, <1>3, WithEnt
<1> QED
  BY <1>2, <1>4 DEF g

LEMMA WithName ==
    ASSUME NEW h \in HandleSet, NEW name \in FileNames
    PROVE  LET g == [h EXCEPT !.ent.name = name]
           IN  /\ g \in HandleSet /\ g.obj = h.obj /\ g.name = h.name /\ g.addr = h.addr
               /\ g.ent \in EntrySet /\ g.ent.size = h.ent.size /\ g.ent.start = h.ent.start
               /\ g.ent.active = h.ent.active /\ g.ent.name = name /\ g.ent.last = h.ent.last
<1> DEFINE e == [h.ent EXCEPT !.name = name]
           g == [h EXCEPT !.ent.name = name]
<1>1. h.ent \in EntrySet
  BY DEF HandleSet
<1>2. /\ e \in EntrySet /\ e.size = h.ent.size /\ e.start = h.ent.start /\ e.active = h.ent.active
      /\ e.name = name /\ e.last = h.ent.last
  BY <1>1 DEF EntrySet
<1>3. g = [h EXCEPT !.ent = e]
  BY DEF HandleSet
<1> HIDE DEF e, g
<1>4. g \in HandleSet /\ g.obj = h.obj /\ g.name = h.name /\ g.addr = h.addr /\ g.ent = e
  BY <1>2, <1>3, WithEnt
<1> QED
  BY <1>2, <1>4 DEF g

\* The start of a file operation.
LEMMA BeginStep ==
    ASSUME WellUsed, Inv, ram.par, ~ram.dead, retry = 0, UNCHANGED <<cnt, blk, held, ram, retry>>,
           NEW o, OpForm(o), NEW new, Begin(o, new), o.kind \in FileOps \ {"create"},
           fh' \in HandleSet, fh'.obj \in Names, fh'.name = Final(fh'.obj), todo' \in Seq(Writes),
           o.kind \in {"write", "truncate"} => UpdateOK(blk, LastIn(blk), todo', fh'),
           o.kind \in {"rename", "remove"} => SwitchOK(blk, LastIn(blk), todo', fh')
    PROVE  Inv'
<1>1. OpForm(op') /\ op'.kind = o.kind /\ DOMAIN allowed' = Names
  BY BeginIs
<1>2. op'.kind \in FileOps /\ op'.kind # "create"
  BY <1>1
<1>3. FileOpOK(blk, LastIn(blk), todo', fh', op') /\ Static(fh', op')
  BY <1>1, <1>2 DEF FileOpOK, Static
<1> QED
  BY <1>1, <1>2, <1>3, FileStep

----------------------------------------------------------------------------
LEMMA TruncateStep ==
    ASSUME WellUsed, Inv, NEW len \in 1 .. MaxLen, Truncate(len)
    PROVE  Inv'
<1> DEFINE L == LastIn(blk)
           c == Found(fh)
           new == [i \in 1 .. len |-> BlocksOf(DataOf(c.ent), i)]
           o == [Idle EXCEPT !.kind = "truncate", !.ent = c.ent]
<1>1. Ready /\ Opened /\ UNCHANGED <<cnt, blk, held, ram, retry>>
  BY DEF Truncate, Device
<1>2. /\ ram.par /\ ~ram.dead /\ retry = 0 /\ todo = <<>> /\ op = Idle
      /\ Table(blk, L) /\ IsDisk(blk) /\ fh \in HandleSet
      /\ fh.obj \in Names /\ fh.name = Final(fh.obj) /\ Has(blk, L, fh.name)
      /\ DOMAIN allowed = Names
  BY <1>1, OpenedIs
<1>3. /\ c \in HandleSet /\ c.obj = fh.obj /\ c.name = fh.name
      /\ SlotOf(L, fh.name, c.addr) /\ c.ent = EntryIn(blk, c.addr) /\ Found(c) = c
  <2>1. Found(c) = c
    BY <1>2, FoundAgain
  <2> QED
    BY <1>2, <2>1, FoundHandle
<1>4. OpForm(o) /\ o.kind = "truncate" /\ o.kind \in FileOps \ {"create"}
  <2>1. c.ent \in EntrySet
    BY <1>3 DEF HandleSet
  <2> HIDE DEF c
  <2>2. OpForm(o) /\ o.kind = "truncate"
    BY <2>1, OpIs
  <2> QED
    BY <2>2 DEF FileOps
<1>5. len \in 0 .. MaxLen /\ len \in Nat /\ MaxLen \in Nat
  BY Consts
<1> HIDE DEF L, o
<1>6. CASE /\ len <= c.ent.size /\ fh' = [c EXCEPT !.ent.size = len]
           /\ todo' = <<EntryWrite(fh')>> /\ Begin(o, [n \in {fh.obj} |-> new])
  <2>1. /\ fh' \in HandleSet /\ fh'.obj = fh.obj /\ fh'.name = fh.name /\ fh'.addr = c.addr
        /\ fh'.ent \in EntrySet /\ fh'.ent.size = len /\ fh'.ent.start = c.ent.start
        /\ fh'.ent.active = c.ent.active /\ fh'.ent.name = c.ent.name /\ fh'.ent.last = c.ent.last
    BY <1>3, <1>5, <1>6, WithSize
  <2>2. /\ c.ent \in EntrySet /\ c.ent.active /\ c.ent.name = fh.name /\ ~c.ent.last
        /\ c.addr \in FatStart .. L /\ c.addr \in FatStart .. L - 1
    BY <1>2, <1>3 DEF SlotOf, Table, Ends
  <2>3. Area(fh'.ent) \subseteq Area(c.ent)
    <3>1. /\ Area(c.ent) = c.ent.start .. c.ent.start + c.ent.size - 1
          /\ c.ent.start \in Nat /\ c.ent.size \in Nat
      BY <2>2, AreaIs
    <3>2. Area(fh'.ent) = c.ent.start .. c.ent.start + len - 1
      BY <2>1, <2>2, AreaIs
    <3> QED
      BY <1>5, <1>6, <3>1, <3>2
  <2>4. Fits(blk, L, c.addr, fh'.ent)
    <3>1. ASSUME NEW x \in (FatStart .. L) \ {c.addr}, EntryIn(blk, x).active
          PROVE  fh'.ent.name # EntryIn(blk, x).name
      BY <1>2, <1>3, <2>1, <2>2, <3>1, SlotIs
    <3> QED
      BY <1>2, <1>3, <2>1, <2>2, <2>3, <3>1, SwapIs
  <2>5. /\ EntryWrite(fh') \in Writes /\ EntryWrite(fh').addr = c.addr
        /\ EntryWrite(fh').val = fh'.ent /\ EntryWrite(fh').use = "entry"
    BY <2>1, EntryWriteIs
  <2>6. StoreOK(blk, L, EntryWrite(fh'))
    BY <2>2, <2>4, <2>5 DEF StoreOK
  <2>7. /\ todo' \in Seq(Writes) /\ Len(todo') = 1 /\ todo'[1] = EntryWrite(fh')
        /\ Storing(blk, L, todo')
    BY <1>6, <2>5, <2>6, OneIs
  <2>8. UpdateOK(blk, L, todo', fh')
    BY <1>2, <2>1, <2>2, <2>5, <2>7 DEF UpdateOK, Moving, Makes
  <2> QED
    BY <1>1, <1>2, <1>4, <1>6, <2>1, <2>7, <2>8, BeginStep DEF L
<1>7. CASE /\ len > c.ent.size /\ PoolOk(c) /\ Gaps(Used(c), len) # {}
           /\ fh' = [c EXCEPT !.ent.size = len, !.ent.start = Max(Gaps(Used(c), len))]
           /\ todo' = GrowFat(c) \o Append(DataWrites(fh'.ent.start, new), EntryWrite(fh'))
           /\ Begin(o, [n \in {fh.obj} |-> new])
  <2>1. Has(blk, L, c.name) /\ GrowFat(c) = <<>>
    BY <1>2, <1>3, FoundHandle
  <2>2. fh' = Place(c, len)
    BY <1>3, <1>7 DEF Place
  <2>3. /\ fh'.ent.start \in Nat /\ fh'.ent.start >= L + 1 /\ fh'.ent.start + len <= Blocks
        /\ fh' \in HandleSet /\ fh'.obj = c.obj /\ fh'.name = c.name
        /\ fh'.ent.active /\ fh'.ent.name = c.name
        /\ StoreOK(blk, L, EntryWrite(fh')) /\ EntryWrite(fh') \in Writes
    <3> HIDE DEF c
    <3> DEFINE p == Place(c, len)
    <3>1. /\ p.ent.start \in Nat /\ p.ent.start >= L + 1 /\ p.ent.start + len <= Blocks
          /\ p \in HandleSet /\ p.obj = c.obj /\ p.name = c.name
          /\ p.ent.active /\ p.ent.name = c.name
          /\ StoreOK(blk, L, EntryWrite(p)) /\ EntryWrite(p) \in Writes
      BY <1>2, <1>3, <1>7, <2>1, PlaceIs
    <3>2. EntryWrite(fh') = EntryWrite(p)
      BY <2>2
    <3> HIDE DEF p
    <3>3. fh' = p
      BY <2>2 DEF p
    <3> QED
      BY <3>1, <3>2, <3>3
  <2>4. new \in Seq(BlockValues) /\ Len(new) = len
    <3>1. DataOf(c.ent) \in Seq(BlockValues)
      BY <1>2, <1>3, DataOfIs
    <3>2. \A i \in 1 .. len : BlocksOf(DataOf(c.ent), i) \in BlockValues
      BY <1>5, <3>1, BlocksOfIs
    <3>3. new \in [1 .. len -> BlockValues]
      BY <3>2
    <3> QED
      BY <1>5, <3>3, SeqIs
  <2> DEFINE d == DataWrites(fh'.ent.start, new)
             w == EntryWrite(fh')
  <2> HIDE DEF new
  <2>5. d \in Seq(Writes) /\ \A i \in 1 .. Len(d) : DataOK(L, d[i])
    <3>1. L \in Nat
      BY <1>2, TableEnd, Consts
    <3> QED
      BY <2>3, <2>4, <3>1, DataWritesAre
  <2>6. todo' = <<>> \o Append(d, w) /\ w.val = fh'.ent
    BY <1>7, <2>1 DEF EntryWrite
  <2>7. w \in Writes /\ StoreOK(blk, L, w)
    BY <2>3
  <2> HIDE DEF d, w
  <2>8. /\ Append(d, w) \in Seq(Writes) /\ Append(d, w) # <<>>
        /\ Append(d, w)[Len(Append(d, w))] = w /\ Storing(blk, L, Append(d, w))
    BY <2>5, <2>7, AppendIs, StoringIs
  <2>9. todo' = Append(d, w)
    BY <2>6, <2>8
  <2>10. UpdateOK(blk, L, todo', fh')
    BY <1>2, <1>3, <2>3, <2>6, <2>8, <2>9 DEF UpdateOK, Moving, Makes
  <2> QED
    BY <1>1, <1>2, <1>3, <1>4, <1>7, <2>3, <2>8, <2>9, <2>10, BeginStep DEF L
<1>8. CASE fh' = c /\ op' = op /\ todo' = todo /\ allowed' = allowed
  BY <1>1, <1>2, <1>3, <1>8, EndStep DEF L
<1> QED
  BY <1>6, <1>7, <1>8 DEF Truncate, o

\* The write that puts entry e in the slot of a file.
LEMMA SlotWrite ==
    ASSUME WellUsed, NEW L, Table(blk, L), IsDisk(blk), NEW name, NEW h \in HandleSet,
           SlotOf(L, name, h.addr), Fits(blk, L, h.addr, h.ent)
    PROVE  LET td == <<EntryWrite(h)>>
           IN  /\ td \in Seq(Writes) /\ Len(td) = 1 /\ td # <<>> /\ Storing(blk, L, td)
               /\ td[Len(td)] = EntryWrite(h) /\ EntryWrite(h).val = h.ent
               /\ EntryWrite(h).addr = h.addr /\ EntryWrite(h).use = "entry"
<1> DEFINE w == EntryWrite(h)
<1>1. w \in Writes /\ w.addr = h.addr /\ w.val = h.ent /\ w.use = "entry"
  BY EntryWriteIs
<1> HIDE DEF w
<1>2. StoreOK(blk, L, w)
  BY <1>1 DEF StoreOK, SlotOf
<1>3. <<w>> \in Seq(Writes) /\ Len(<<w>>) = 1 /\ <<w>>[1] = w /\ <<w>> # <<>> /\ Storing(blk, L, <<w>>)
  BY <1>1, <1>2, OneIs
<1> QED
  BY <1>1, <1>3 DEF w

LEMMA ClearFits ==
    ASSUME WellUsed, NEW L, Table(blk, L), IsDisk(blk), NEW a \in FatStart .. L
    PROVE  Fits(blk, L, a, Cleared)
BY SwapIs, Kinds

\* A file takes another name.
LEMMA RenameFits ==
    ASSUME WellUsed, NEW L, Table(blk, L), IsDisk(blk), NEW name, NEW a, SlotOf(L, name, a),
           NEW e \in EntrySet, e.active = EntryIn(blk, a).active, e.last = EntryIn(blk, a).last,
           e.start = EntryIn(blk, a).start, e.size = EntryIn(blk, a).size
    PROVE  /\ Area(e) = Area(EntryIn(blk, a)) /\ ~e.last /\ e.active
           /\ ~Has(blk, L, e.name) => Fits(blk, L, a, e)
<1>1. Area(e) = Area(EntryIn(blk, a))
  BY DEF Area
<1>2. ~e.last /\ e.active
  BY DEF SlotOf, Table, Ends
<1>3. ASSUME ~Has(blk, L, e.name) PROVE Fits(blk, L, a, e)
  <2>1. \A c \in (FatStart .. L) \ {a} :
           e.active /\ EntryIn(blk, c).active => e.name # EntryIn(blk, c).name
    BY <1>3 DEF Has
  <2> HIDE DEF Area
  <2> QED
    BY <1>1, <1>2, <2>1, SwapIs DEF SlotOf
<1> QED
  BY <1>1, <1>2, <1>3

LEMMA RemoveOp ==
    ASSUME NEW k
    PROVE  LET o == [Idle EXCEPT !.kind = k]
           IN  OpForm(o) /\ o.kind = k /\ o.mid = {}
<1>1. OpForm(Idle) /\ Idle.mid = {}
  BY IdleTypes DEF Idle
<1> HIDE DEF Idle
<1> QED
  BY <1>1 DEF OpForm

LEMMA RenameOp ==
    ASSUME NEW k, NEW n
    PROVE  LET o == [Idle EXCEPT !.kind = k, !.obj = n]
           IN  OpForm(o) /\ o.kind = k /\ o.obj = n /\ o.mid = {}
<1> DEFINE p == [Idle EXCEPT !.kind = k]
           o == [p EXCEPT !.obj = n]
<1>1. OpForm(p) /\ p.kind = k /\ p.mid = {}
  BY RemoveOp
<1>2. o = [Idle EXCEPT !.kind = k, !.obj = n]
  <2>1. OpForm(Idle)
    BY IdleTypes
  <2> HIDE DEF Idle
  <2> QED
    BY <2>1 DEF OpForm
<1> HIDE DEF p
<1>3. OpForm(o) /\ o.kind = k /\ o.obj = n /\ o.mid = {}
  BY <1>1 DEF OpForm
<1> HIDE DEF o
<1> QED
  BY <1>2, <1>3, Zenon

LEMMA RenameStep ==
    ASSUME WellUsed, Inv, NEW n \in Names, Rename(n)
    PROVE  Inv'
<1> DEFINE L == LastIn(blk)
           g == NewHandle(fh.obj, Final(fh.obj))
           old == Found(g)
           new == [old EXCEPT !.ent.name = Final(n)]
           o == [Idle EXCEPT !.kind = "rename", !.obj = n]
<1>1. /\ Ready /\ Opened /\ UNCHANGED <<cnt, blk, held, ram, retry>> /\ fh' = fh
      /\ Matching(Final(n)) = {} /\ todo' = <<EntryWrite(new)>>
      /\ Begin(o, [m \in {n, fh.obj} |-> IF m = n THEN DataOf(old.ent) ELSE NoFile])
  BY DEF Rename, Device
<1>2. /\ ram.par /\ ~ram.dead /\ retry = 0 /\ todo = <<>> /\ op = Idle
      /\ Table(blk, L) /\ IsDisk(blk) /\ fh \in HandleSet
      /\ fh.obj \in Names /\ fh.name = Final(fh.obj) /\ Has(blk, L, fh.name)
  BY <1>1, OpenedIs
<1>3. g \in HandleSet /\ g.name = fh.name
  BY <1>2, NamesAre, NewHandleIs
<1> HIDE DEF g, L
<1>4. /\ old \in HandleSet /\ SlotOf(L, fh.name, old.addr) /\ old.ent = EntryIn(blk, old.addr)
  BY <1>2, <1>3, FoundHandle
<1> HIDE DEF old
<1>5. /\ new \in HandleSet /\ new.addr = old.addr
      /\ new.ent \in EntrySet /\ new.ent.size = old.ent.size /\ new.ent.start = old.ent.start
      /\ new.ent.active = old.ent.active /\ new.ent.name = Final(n) /\ new.ent.last = old.ent.last
  BY <1>4, WithName, NamesAre
<1> HIDE DEF new
<1>6. ~Has(blk, L, Final(n))
  <2>1. Fat = FatStart .. L /\ \A a : EntryAt(a) = EntryIn(blk, a)
    BY <1>2, Reads
  <2> QED
    BY <1>1, <2>1 DEF Matching, Has
<1>7. Fits(blk, L, old.addr, new.ent)
  BY <1>2, <1>4, <1>5, <1>6, RenameFits
<1>8. todo' \in Seq(Writes) /\ Len(todo') = 1 /\ Storing(blk, L, todo')
  BY <1>1, <1>2, <1>4, <1>5, <1>7, SlotWrite
<1>9. SwitchOK(blk, L, todo', fh')
  BY <1>1, <1>2, <1>8 DEF SwitchOK
<1>10. OpForm(o) /\ o.kind = "rename"
  BY RenameOp
<1> HIDE DEF o
<1>11. o.kind \in FileOps \ {"create"}
  BY <1>10 DEF FileOps
<1> QED
  BY <1>1, <1>2, <1>8, <1>9, <1>10, <1>11, BeginStep DEF L

LEMMA RemoveStep ==
    ASSUME WellUsed, Inv, Remove
    PROVE  Inv'
<1> DEFINE L == LastIn(blk)
           g == NewHandle(fh.obj, Final(fh.obj))
           old == Found(g)
           new == [old EXCEPT !.ent = Cleared]
           o == [Idle EXCEPT !.kind = "remove"]
<1>1. /\ Ready /\ Opened /\ UNCHANGED <<cnt, blk, held, ram, retry>> /\ fh' = fh
      /\ todo' = <<EntryWrite(new)>> /\ Begin(o, [n \in {fh.obj} |-> NoFile])
  BY DEF Remove, Device
<1>2. /\ ram.par /\ ~ram.dead /\ retry = 0 /\ todo = <<>> /\ op = Idle
      /\ Table(blk, L) /\ IsDisk(blk) /\ fh \in HandleSet
      /\ fh.obj \in Names /\ fh.name = Final(fh.obj) /\ Has(blk, L, fh.name)
  BY <1>1, OpenedIs
<1>3. g \in HandleSet /\ g.name = fh.name
  BY <1>2, NamesAre, NewHandleIs
<1> HIDE DEF g, L
<1>4. /\ old \in HandleSet /\ SlotOf(L, fh.name, old.addr) /\ old.ent = EntryIn(blk, old.addr)
  BY <1>2, <1>3, FoundHandle
<1> HIDE DEF old
<1>5. new \in HandleSet /\ new.addr = old.addr /\ new.ent = Cleared
  BY <1>4, WithEnt, Kinds
<1> HIDE DEF new
<1>6. Fits(blk, L, old.addr, new.ent)
  BY <1>2, <1>4, <1>5, ClearFits DEF SlotOf
<1>7. todo' \in Seq(Writes) /\ Len(todo') = 1 /\ Storing(blk, L, todo')
  BY <1>1, <1>2, <1>4, <1>5, <1>6, SlotWrite
<1>8. SwitchOK(blk, L, todo', fh')
  BY <1>1, <1>2, <1>7 DEF SwitchOK
<1>9. OpForm(o) /\ o.kind = "remove" /\ o.kind \in FileOps \ {"create"}
  BY RemoveOp DEF FileOps
<1> HIDE DEF o
<1> QED
  BY <1>1, <1>2, <1>7, <1>8, <1>9, BeginStep DEF L

----------------------------------------------------------------------------
(* rpmb_fs_create() *)

LEMMA NewEntryIs ==
    ASSUME NEW name \in FileNames
    PROVE  LET e == Entry(name, 0, 0)
           IN  e \in EntrySet /\ e.active /\ ~e.last /\ e.name = name /\ Area(e) = {}
<1>1. 0 \in 0 .. Blocks /\ 0 \in 0 .. MaxLen
  BY Consts
<1>2. LET e == Entry(name, 0, 0)
      IN  e \in EntrySet /\ e.active /\ ~e.last /\ e.name = name /\ e.start = 0 /\ e.size = 0
  BY <1>1 DEF Entry, EntrySet
<1>3. 0 .. 0 + 0 - 1 = {}
  OBVIOUS
<1> HIDE DEF Entry
<1> QED
  BY <1>2, <1>3 DEF Area

Two(v, w) == <<v, w>>
Both(v, w) == <<v>> \o <<w>>

LEMMA TwoIs ==
    ASSUME NEW v \in Writes, NEW w \in Writes
    PROVE  Two(v, w) \in Seq(Writes) /\ Len(Two(v, w)) = 2 /\ Two(v, w)[1] = v /\ Two(v, w)[2] = w
<1> HIDE DEF Writes
<1> QED
  BY DEF Two

LEMMA BothIs ==
    ASSUME NEW v \in Writes, NEW w \in Writes, NEW td, td = Both(v, w)
    PROVE  td \in Seq(Writes) /\ Len(td) = 2 /\ td[1] = v /\ td[2] = w
<1> HIDE DEF Writes
<1> DEFINE s == <<v>>
           t == <<w>>
<1>1. s \in Seq(Writes) /\ t \in Seq(Writes) /\ Len(s) = 1 /\ Len(t) = 1 /\ s[1] = v /\ t[1] = w
  OBVIOUS
<1>2. td = s \o t
  BY DEF Both
<1> HIDE DEF s, t
<1>3. /\ s \o t \in Seq(Writes) /\ Len(s \o t) = Len(s) + Len(t)
      /\ \A i \in 1 .. Len(s) + Len(t) : (s \o t)[i] = IF i <= Len(s) THEN s[i] ELSE t[i - Len(s)]
  BY <1>1, ConcatProperties, Zenon
<1> QED
  BY <1>1, <1>2, <1>3

LEMMA NoGrowth ==
    ASSUME NEW w \in Writes
    PROVE  <<>> \o <<w>> = <<w>>
<1> HIDE DEF Writes
<1> QED
  OBVIOUS

CreateOf(n, overwrite, data, s) ==
    [[Idle EXCEPT !.kind = "create", !.obj = n, !.overwrite = overwrite, !.data = data]
        EXCEPT !.stage = s]

LEMMA CreateOp ==
    ASSUME NEW n, NEW overwrite, NEW data, NEW s
    PROVE  LET o == CreateOf(n, overwrite, data, s)
           IN  /\ OpForm(o) /\ o.kind = "create" /\ o.stage = s /\ o.obj = n
               /\ o.data = data /\ o.pos = 0 /\ o.mid = {}
<1> DEFINE p1 == [Idle EXCEPT !.kind = "create"]
           p2 == [p1 EXCEPT !.obj = n]
           p3 == [p2 EXCEPT !.overwrite = overwrite]
           p4 == [p3 EXCEPT !.data = data]
           o == [p4 EXCEPT !.stage = s]
<1>1. OpForm(Idle) /\ Idle.pos = 0 /\ Idle.mid = {}
  BY IdleTypes DEF Idle
<1> HIDE DEF Idle
<1>2. OpForm(p1) /\ p1.kind = "create" /\ p1.pos = 0 /\ p1.mid = {}
  BY <1>1 DEF OpForm
<1>3. p4 = [Idle EXCEPT !.kind = "create", !.obj = n, !.overwrite = overwrite, !.data = data]
  BY <1>1 DEF OpForm
<1> HIDE DEF p1
<1>4. OpForm(p2) /\ p2.kind = "create" /\ p2.obj = n /\ p2.pos = 0 /\ p2.mid = {}
  BY <1>2 DEF OpForm
<1> HIDE DEF p2
<1>5. OpForm(p3) /\ p3.kind = "create" /\ p3.obj = n /\ p3.pos = 0 /\ p3.mid = {}
  BY <1>4 DEF OpForm
<1> HIDE DEF p3
<1>6. OpForm(p4) /\ p4.kind = "create" /\ p4.obj = n /\ p4.data = data /\ p4.pos = 0
      /\ p4.mid = {}
  BY <1>5 DEF OpForm
<1> HIDE DEF p4
<1>7. /\ OpForm(o) /\ o.kind = "create" /\ o.stage = s /\ o.obj = n
      /\ o.data = data /\ o.pos = 0 /\ o.mid = {}
  BY <1>6, StageIs
<1>8. o = CreateOf(n, overwrite, data, s)
  BY <1>3, Zenon DEF CreateOf
<1> HIDE DEF o
<1> QED
  BY <1>7, <1>8

LEMMA CreateStep ==
    ASSUME WellUsed, Inv, NEW n \in Names, NEW overwrite \in BOOLEAN, NEW data \in DataSeqs(1 .. 2),
           Create(n, overwrite, data)
    PROVE  Inv'
<1> DEFINE L == LastIn(blk)
           h == NewHandle(n, Temporary(n))
           c == Chosen(h)
           o == CreateOf(n, overwrite, data, "write")
           e == Entry(Temporary(n), 0, 0)
<1>1. /\ Ready /\ ~Opened /\ PoolOk(h) /\ UNCHANGED <<cnt, blk, held, ram, retry>>
      /\ fh' = OpenInternal(n)
      /\ todo' = GrowFat(h) \o (IF c.ent.active THEN <<>> ELSE <<EntryWrite(fh')>>)
      /\ Begin(o, [m \in {n} |-> data])
  <2>1. PoolOk(h)
    BY DEF Create, WellUsed
  <2> QED
    BY <2>1 DEF Create, Device, CreateOf
<1>2. /\ ram.par /\ ~ram.dead /\ retry = 0
  BY <1>1, ReadyIs
<1>3. Table(blk, L) /\ IsDisk(blk)
  BY <1>2, Steady
<1>4. h \in HandleSet /\ h.obj = n /\ h.name = Temporary(n) /\ h.addr = 0
  BY NamesAre, NewHandleIs
<1>5. /\ OpForm(op') /\ op'.kind = "create" /\ op'.stage = "write" /\ op'.obj = n
      /\ op'.data = data /\ op'.pos = 0 /\ DOMAIN allowed' = Names
  <2>1. /\ OpForm(o) /\ o.kind = "create" /\ o.stage = "write" /\ o.obj = n
        /\ o.data = data /\ o.pos = 0
    BY CreateOp
  <2> HIDE DEF o
  <2> QED
    BY <1>1, <2>1, BeginIs
<1>6. fh' = IF c.ent.active THEN c ELSE [c EXCEPT !.ent = e]
  BY <1>1, Zenon DEF OpenInternal
<1> HIDE DEF L, h, o
<1>7. ASSUME fh'.obj = n, fh'.name = Temporary(n)
      PROVE  Static(fh', op') /\ op'.kind \in FileOps
  <2>1. 0 \in 0 .. Len(data)
    <3>1. 1 .. 2 \subseteq Nat
      OBVIOUS
    <3>2. Len(data) \in 1 .. 2
      BY <3>1, DataSeqsAre
    <3> QED
      BY <3>2
  <2> QED
    BY <1>5, <1>7, <2>1 DEF Static, FileOps
<1>8. CASE Has(blk, L, h.name)
  <2>1. /\ c \in HandleSet /\ c.obj = n /\ c.name = h.name
        /\ SlotOf(L, h.name, c.addr) /\ c.ent = EntryIn(blk, c.addr) /\ GrowFat(h) = <<>>
    BY <1>3, <1>4, <1>8, FoundHandle
  <2>2. c.ent.active
    BY <2>1 DEF SlotOf
  <2> HIDE DEF c
  <2>3. fh' = c /\ todo' = <<>> \o <<>>
    BY <1>1, <1>6, <2>1, <2>2
  <2>4. todo' = <<>>
    BY <2>3
  <2>5. FileOpOK(blk, L, todo', fh', op')
    BY <1>4, <1>5, <1>8, <2>1, <2>3, <2>4, EmptyMakes DEF FileOpOK, CreatingOK
  <2> QED
    BY <1>1, <1>2, <1>4, <1>5, <1>7, <2>1, <2>3, <2>4, <2>5, IdleTypes, FileStep DEF L
<1>9. CASE ~Has(blk, L, h.name)
  <2> DEFINE w == EntryWrite(fh')
             v == [addr |-> L + 1, val |-> LastEntry, use |-> "last"]
  <2>1. /\ c \in HandleSet /\ c.obj = n /\ c.name = h.name
        /\ c.addr \in FatStart .. L /\ c.ent = EntryIn(blk, c.addr) /\ ~c.ent.active
        /\ c.addr # L => FatEnd(h) = L /\ GrowFat(h) = <<>>
        /\ c.addr = L => FatEnd(h) = L + 1 /\ GrowFat(h) = <<v>>
    BY <1>3, <1>4, <1>9, ChosenHandle
  <2> HIDE DEF c
  <2>2. e \in EntrySet /\ e.active /\ ~e.last /\ e.name = h.name /\ Area(e) = {}
    BY <1>4, NewEntryIs, NamesAre
  <2> HIDE DEF e
  <2>3. /\ fh' \in HandleSet /\ fh'.obj = n /\ fh'.name = h.name /\ fh'.addr = c.addr /\ fh'.ent = e
    BY <1>6, <2>1, <2>2, WithEnt
  <2>4. w \in Writes /\ w.addr = c.addr /\ w.val = e /\ w.use = "entry"
    BY <2>3, EntryWriteIs
  <2> HIDE DEF w
  <2>5. Fits(blk, L, c.addr, e)
    <3>1. \A x \in (FatStart .. L) \ {c.addr} :
             e.active /\ EntryIn(blk, x).active => e.name # EntryIn(blk, x).name
      BY <1>9, <2>2 DEF Has
    <3> QED
      BY <1>3, <2>1, <2>2, <3>1, SwapIs
  <2>6. todo' = GrowFat(h) \o <<w>>
    BY <1>1, <2>1 DEF w
  <2>7. L \in Nat /\ FatStart \in Nat
    BY <1>3, TableEnd, Consts
  <2>8. CASE c.addr # L
    <3>1. todo' = <<w>>
      BY <2>1, <2>4, <2>6, <2>8, NoGrowth
    <3>2. c.addr \in FatStart .. L - 1
      BY <2>1, <2>7, <2>8
    <3>3. StoreOK(blk, L, w)
      BY <2>4, <2>5, <3>2 DEF StoreOK
    <3>4. <<w>> \in Seq(Writes) /\ Len(<<w>>) = 1 /\ <<w>>[1] = w /\ Storing(blk, L, <<w>>)
      BY <2>4, <3>3, OneIs
    <3>5. CreatingOK(blk, L, todo', fh')
      BY <2>1, <2>2, <2>3, <2>4, <3>1, <3>2, <3>4 DEF CreatingOK, Makes
    <3>6. FileOpOK(blk, L, todo', fh', op')
      BY <1>5, <3>5 DEF FileOpOK
    <3> QED
      BY <1>1, <1>2, <1>4, <1>5, <1>7, <2>3, <3>1, <3>4, <3>6, FileStep DEF L
  <2>9. CASE c.addr = L
    <3>1. FatEnd(h) = L + 1 /\ GrowFat(h) = <<v>>
      BY <2>1, <2>9
    <3>2. L + 1 < Blocks /\ DataAddrs \cap (0 .. L + 1) = {}
      BY <1>1, <3>1 DEF PoolOk
    <3>3. Room(blk, L)
      <4>1. L + 1 \in 0 .. L + 1
        BY <2>7
      <4>2. \A a \in FatStart .. L : Area(EntryIn(blk, a)) \subseteq DataAddrs
        BY <1>3, Reads
      <4> QED
        BY <3>2, <4>1, <4>2 DEF Room
    <3>4. v \in Writes
      BY <2>7, <3>2, Kinds, Consts DEF Writes, Addrs
    <3> HIDE DEF v
    <3>5. todo' \in Seq(Writes) /\ Len(todo') = 2 /\ todo'[1] = v /\ todo'[2] = w
      <4>1. todo' = Both(v, w)
        BY <2>6, <3>1 DEF Both
      <4>2. w \in Writes
        BY <2>4
      <4> QED
        BY <3>4, <4>1, <4>2, BothIs
    <3>6. ExtendOK(blk, L, w)
      BY <2>2, <2>4, <2>5, <2>9 DEF ExtendOK
    <3>7. Growing(blk, L, todo')
      BY <3>3, <3>5, <3>6 DEF Growing, v
    <3>8. CreatingOK(blk, L, todo', fh')
      BY <2>2, <2>3, <2>4, <2>9, <3>5, <3>7 DEF CreatingOK, Makes
    <3>9. FileOpOK(blk, L, todo', fh', op')
      BY <1>5, <3>8 DEF FileOpOK
    <3> QED
      BY <1>1, <1>2, <1>4, <1>5, <1>7, <2>3, <3>5, <3>9, FileStep DEF L
  <2> QED
    BY <2>8, <2>9
<1> QED
  BY <1>8, <1>9


\* The entry of a create that has no block left to write.
LEMMA CreatedIs ==
    ASSUME WellUsed, Inv, op.kind = "create", op.stage = "write", todo = <<>>
    PROVE  Has(blk, LastIn(blk), fh.name)
<1> DEFINE L == LastIn(blk)
<1>1. op.kind \in FileOps
  BY DEF FileOps
<1>2. FileOpOK(blk, L, todo, fh, op)
  BY <1>1, Between, Steady
<1> HIDE DEF L
<1>3. CreatingOK(blk, L, <<>>, fh)
  BY <1>2 DEF FileOpOK
<1>4. ~Storing(blk, L, <<>>) /\ ~Extending(blk, L, <<>>) /\ ~Growing(blk, L, <<>>)
  BY DEF Storing, Extending, Growing
<1> QED
  BY <1>3, <1>4 DEF CreatingOK, L

Renamed(o) == [o EXCEPT !.stage = "rename", !.mid = {NoFile}]

LEMMA RenamedIs ==
    ASSUME NEW o, OpForm(o)
    PROVE  /\ OpForm(Renamed(o)) /\ Renamed(o).kind = o.kind /\ Renamed(o).stage = "rename"
           /\ Renamed(o).obj = o.obj /\ Renamed(o).data = o.data /\ Renamed(o).pos = o.pos
           /\ Renamed(o).new = o.new /\ Renamed(o).before = o.before /\ Renamed(o).mid = {NoFile}
<1> DEFINE q == [o EXCEPT !.stage = "rename"]
           p == [q EXCEPT !.mid = {NoFile}]
<1>1. p = Renamed(o)
  BY Zenon DEF OpForm, Renamed
<1>2. /\ OpForm(q) /\ q.kind = o.kind /\ q.stage = "rename" /\ q.obj = o.obj /\ q.data = o.data
      /\ q.pos = o.pos /\ q.new = o.new /\ q.before = o.before
  BY StageIs
<1> HIDE DEF q
<1>3. /\ OpForm(p) /\ p.kind = q.kind /\ p.stage = q.stage /\ p.obj = q.obj /\ p.data = q.data
      /\ p.pos = q.pos /\ p.new = q.new /\ p.before = q.before /\ p.mid = {NoFile}
  BY <1>2 DEF OpForm
<1> HIDE DEF p
<1> QED
  BY <1>1, <1>2, <1>3

\* The state in which a create renames its file or removes it.
LEMMA CreateStateIs ==
    ASSUME WellUsed, Inv, op.kind = "create", todo = <<>>
    PROVE  LET L == LastIn(blk)
           IN  /\ ram.par /\ ~ram.dead /\ retry = 0 /\ op.kind \in FileOps
               /\ Table(blk, L) /\ IsDisk(blk) /\ fh \in HandleSet /\ OpForm(op)
               /\ Static(fh, op) /\ FileOpOK(blk, L, todo, fh, op) /\ DOMAIN allowed = Names
<1>1. op.kind \in FileOps
  BY DEF FileOps
<1>2. /\ ram.par /\ ~ram.dead /\ retry = 0
  BY <1>1, Between
<1> QED
  BY <1>1, <1>2, Steady DEF Types

\* A file takes the name of one that is cleared before.
LEMMA ReplaceIs ==
    ASSUME WellUsed, NEW L, Table(blk, L), IsDisk(blk), NEW name, NEW other, name # other,
           NEW h \in HandleSet, SlotOf(L, name, h.addr), h.ent \in EntrySet,
           h.ent.active = EntryIn(blk, h.addr).active, h.ent.last = EntryIn(blk, h.addr).last,
           h.ent.start = EntryIn(blk, h.addr).start, h.ent.size = EntryIn(blk, h.addr).size,
           h.ent.name = other,
           NEW g \in HandleSet, SlotOf(L, other, g.addr), g.ent = Cleared
    PROVE  LET td == Two(EntryWrite(g), EntryWrite(h))
           IN  /\ td \in Seq(Writes) /\ Len(td) = 2 /\ Replacing(blk, L, td)
               /\ td[2].addr = h.addr /\ td[2].val = h.ent /\ h.ent.active
<1> DEFINE v == EntryWrite(g)
           w == EntryWrite(h)
           td == Two(v, w)
<1>1. /\ v \in Writes /\ v.addr = g.addr /\ v.val = Cleared /\ v.use = "entry"
      /\ w \in Writes /\ w.addr = h.addr /\ w.val = h.ent /\ w.use = "entry"
  BY EntryWriteIs
<1> HIDE DEF v, w
<1>2. td \in Seq(Writes) /\ Len(td) = 2 /\ td[1] = v /\ td[2] = w
  BY <1>1, TwoIs
<1> HIDE DEF td
<1>3. h.addr # g.addr
  BY DEF SlotOf
<1>4. Area(h.ent) = Area(EntryIn(blk, h.addr)) /\ ~h.ent.last /\ h.ent.active
  BY RenameFits
<1>5. Area(h.ent) \subseteq L + 1 .. Blocks - 1
  BY <1>4 DEF Table, SlotOf
<1>6. ASSUME NEW c \in (FatStart .. L) \ {g.addr, h.addr}
      PROVE  Apart(h.ent, EntryIn(blk, c))
  <2>1. c \in FatStart .. L /\ c # g.addr /\ c # h.addr /\ h.addr \in FatStart .. L
    BY <1>6 DEF SlotOf
  <2>2. Area(EntryIn(blk, h.addr)) \cap Area(EntryIn(blk, c)) = {}
    BY <2>1 DEF Table, Apart
  <2>3. EntryIn(blk, c).active => EntryIn(blk, c).name # other
    BY <2>1, SlotIs
  <2> HIDE DEF Area
  <2> QED
    BY <1>4, <2>2, <2>3 DEF Apart
<1>7. g.addr \in FatStart .. L - 1 /\ h.addr \in FatStart .. L - 1
  BY DEF SlotOf
<1>8. Replacing(blk, L, td)
  BY <1>1, <1>2, <1>3, <1>4, <1>5, <1>6, <1>7 DEF Replacing
<1> QED
  BY <1>1, <1>2, <1>4, <1>8 DEF td, v, w

LEMMA CreateRenameStep ==
    ASSUME WellUsed, Inv, CreateRename
    PROVE  Inv'
<1> DEFINE L == LastIn(blk)
           n == op.obj
           t == NewHandle(n, Temporary(n))
           f == NewHandle(n, Final(n))
           old == Found(t)
           new == Found(f)
           moved == [old EXCEPT !.ent.name = Final(n)]
           gone == [new EXCEPT !.ent = Cleared]
<1>1. /\ op.kind = "create" /\ op.stage = "write" /\ todo = <<>>
      /\ UNCHANGED <<cnt, blk, held, ram, retry>> /\ fh' = fh
  BY DEF CreateRename, CreateAt, Device
<1>2. /\ ram.par /\ ~ram.dead /\ retry = 0 /\ op.kind \in FileOps
      /\ Table(blk, L) /\ IsDisk(blk) /\ fh \in HandleSet /\ OpForm(op)
      /\ Static(fh, op) /\ FileOpOK(blk, L, todo, fh, op) /\ DOMAIN allowed = Names
  BY <1>1, CreateStateIs
<1>3. Has(blk, L, fh.name)
  BY <1>1, CreatedIs
<1>4. n \in Names /\ fh.name = Temporary(n)
  BY <1>1, <1>2 DEF Static
<1>5. /\ t \in HandleSet /\ t.name = fh.name /\ f \in HandleSet /\ f.name = Final(n) /\ f.addr = 0
      /\ fh.name # Final(n) /\ Final(n) \in FileNames
  BY <1>4, NamesAre, NewHandleIs
<1>6. \/ /\ new.addr # 0 /\ op' = [op EXCEPT !.stage = "undo"] /\ todo' = todo /\ allowed' = allowed
      \/ /\ new.addr # 0 /\ todo' = <<EntryWrite(gone), EntryWrite(moved)>>
         /\ op' = [op EXCEPT !.stage = "rename", !.mid = {NoFile}]
         /\ allowed' = [allowed EXCEPT ![n] = @ \cup {NoFile}]
      \/ /\ new.addr = 0 /\ todo' = <<EntryWrite(moved)>>
         /\ op' = [op EXCEPT !.stage = "rename"] /\ allowed' = allowed
  BY DEF CreateRename
<1> HIDE DEF L, n, t, f
<1>7. old \in HandleSet /\ SlotOf(L, fh.name, old.addr) /\ old.ent = EntryIn(blk, old.addr)
  BY <1>2, <1>3, <1>5, FoundHandle
<1> HIDE DEF old
<1>8. /\ moved \in HandleSet /\ moved.addr = old.addr
      /\ moved.ent \in EntrySet /\ moved.ent.size = old.ent.size /\ moved.ent.start = old.ent.start
      /\ moved.ent.active = old.ent.active /\ moved.ent.name = Final(n)
      /\ moved.ent.last = old.ent.last
  BY <1>5, <1>7, WithName
<1> HIDE DEF moved
<1>9. CASE /\ op' = [op EXCEPT !.stage = "undo"] /\ todo' = todo /\ allowed' = allowed
  <2>1. OpForm(op') /\ op'.kind = "create" /\ op'.stage = "undo"
    BY <1>1, <1>2, <1>9, StageIs
  <2>2. Static(fh', op') /\ op'.kind \in FileOps
    BY <1>1, <1>2, <1>9, <2>1, StageStatic DEF FileOps
  <2>3. FileOpOK(blk, L, todo', fh', op')
    BY <1>1, <1>3, <1>9, <2>1 DEF FileOpOK, UndoOK
  <2> QED
    BY <1>1, <1>2, <1>9, <2>1, <2>2, <2>3, IdleTypes, FileStep DEF L
<1>10. ASSUME OpForm(op'), op'.kind = "create", op'.stage = "rename", op'.obj = op.obj,
              op'.data = op.data, op'.pos = op.pos, DOMAIN allowed' = Names,
              todo' \in Seq(Writes), RenamingOK(blk, L, todo', fh, op')
       PROVE  Inv'
  <2>1. Static(fh', op') /\ op'.kind \in FileOps
    BY <1>1, <1>2, <1>10 DEF Static, FileOps
  <2>2. FileOpOK(blk, L, todo', fh', op')
    BY <1>1, <1>10 DEF FileOpOK
  <2> QED
    BY <1>1, <1>2, <1>10, <2>1, <2>2, FileStep DEF L
<1>11. CASE /\ new.addr # 0 /\ todo' = <<EntryWrite(gone), EntryWrite(moved)>>
            /\ op' = [op EXCEPT !.stage = "rename", !.mid = {NoFile}]
            /\ allowed' = [allowed EXCEPT ![n] = @ \cup {NoFile}]
  <2>1. Has(blk, L, Final(n))
    <3>1. SUFFICES ASSUME ~Has(blk, L, f.name) PROVE FALSE
      BY <1>5
    <3>2. Found(f) = f
      BY <1>2, <3>1, FoundIs
    <3> QED
      BY <1>5, <1>11, <3>2
  <2>2. new \in HandleSet /\ SlotOf(L, Final(n), new.addr)
    BY <1>2, <1>5, <2>1, FoundHandle
  <2> HIDE DEF new
  <2>3. gone \in HandleSet /\ gone.addr = new.addr /\ gone.ent = Cleared
    BY <2>2, WithEnt, Kinds
  <2> HIDE DEF gone
  <2>4. /\ todo' \in Seq(Writes) /\ Len(todo') = 2 /\ Replacing(blk, L, todo')
        /\ todo'[2].addr = moved.addr /\ todo'[2].val = moved.ent /\ moved.ent.active
    <3> DEFINE td == Two(EntryWrite(gone), EntryWrite(moved))
    <3>1. /\ td \in Seq(Writes) /\ Len(td) = 2 /\ Replacing(blk, L, td)
          /\ td[2].addr = moved.addr /\ td[2].val = moved.ent /\ moved.ent.active
      <4>1. /\ SlotOf(L, fh.name, moved.addr) /\ SlotOf(L, Final(n), gone.addr)
            /\ moved.ent.active = EntryIn(blk, moved.addr).active
            /\ moved.ent.last = EntryIn(blk, moved.addr).last
            /\ moved.ent.start = EntryIn(blk, moved.addr).start
            /\ moved.ent.size = EntryIn(blk, moved.addr).size
        BY <1>7, <1>8, <2>2, <2>3
      <4> QED
        BY <1>2, <1>5, <1>8, <2>3, <4>1, ReplaceIs, Zenon
    <3> HIDE DEF td
    <3>2. todo' = td
      BY <1>11 DEF td, Two
    <3> QED
      BY <3>1, <3>2
  <2>5. /\ OpForm(op') /\ op'.kind = "create" /\ op'.stage = "rename" /\ op'.obj = op.obj
        /\ op'.data = op.data /\ op'.pos = op.pos
    <3>1. op' = Renamed(op)
      BY <1>11, Zenon DEF Renamed
    <3> QED
      BY <1>1, <1>2, <3>1, RenamedIs
  <2>6. DOMAIN allowed' = Names
    BY <1>2, <1>11
  <2>7. Makes(todo', Final(op'.obj))
    BY <1>8, <2>4, <2>5 DEF Makes, n
  <2>8. EntryIn(blk, todo'[2].addr).active /\ EntryIn(blk, todo'[2].addr).name = fh.name
    BY <1>7, <1>8, <2>4 DEF SlotOf
  <2>9. RenamingOK(blk, L, todo', fh, op')
    BY <2>4, <2>7, <2>8 DEF RenamingOK
  <2> QED
    BY <1>10, <2>4, <2>5, <2>6, <2>9
<1>12. CASE /\ new.addr = 0 /\ todo' = <<EntryWrite(moved)>>
            /\ op' = [op EXCEPT !.stage = "rename"] /\ allowed' = allowed
  <2>1. ~Has(blk, L, Final(n))
    <3>1. SUFFICES ASSUME Has(blk, L, Final(n)) PROVE FALSE
      OBVIOUS
    <3>2. SlotOf(L, Final(n), new.addr)
      BY <1>2, <1>5, <3>1, FoundHandle
    <3> QED
      BY <1>12, <3>2 DEF SlotOf
  <2>2. Fits(blk, L, moved.addr, moved.ent) /\ moved.ent.active
    BY <1>2, <1>7, <1>8, <2>1, RenameFits
  <2>3. /\ todo' \in Seq(Writes) /\ Len(todo') = 1 /\ todo' # <<>> /\ Storing(blk, L, todo')
        /\ todo'[1].addr = moved.addr /\ todo'[1].val = moved.ent
    <3> DEFINE td == <<EntryWrite(moved)>>
    <3>1. /\ td \in Seq(Writes) /\ Len(td) = 1 /\ td # <<>> /\ Storing(blk, L, td)
          /\ td[Len(td)] = EntryWrite(moved) /\ EntryWrite(moved).val = moved.ent
          /\ EntryWrite(moved).addr = moved.addr
      BY <1>2, <1>7, <1>8, <2>2, SlotWrite
    <3> HIDE DEF td
    <3>2. todo' = td
      BY <1>12 DEF td
    <3> QED
      BY <3>1, <3>2
  <2>4. /\ OpForm(op') /\ op'.kind = "create" /\ op'.stage = "rename" /\ op'.obj = op.obj
        /\ op'.data = op.data /\ op'.pos = op.pos
    BY <1>1, <1>2, <1>12, StageIs
  <2>5. Makes(todo', Final(op'.obj))
    BY <1>8, <2>2, <2>3, <2>4 DEF Makes, n
  <2>6. EntryIn(blk, todo'[1].addr).active /\ EntryIn(blk, todo'[1].addr).name = fh.name
    BY <1>7, <1>8, <2>3 DEF SlotOf
  <2>7. RenamingOK(blk, L, todo', fh, op')
    BY <2>3, <2>5, <2>6 DEF RenamingOK
  <2> QED
    BY <1>2, <1>10, <1>12, <2>3, <2>4, <2>7
<1> QED
  BY <1>6, <1>9, <1>11, <1>12

LEMMA CreateUndoStep ==
    ASSUME WellUsed, Inv, CreateUndo
    PROVE  Inv'
<1> DEFINE L == LastIn(blk)
           c == Found(fh)
           w == EntryWrite(fh')
<1>1. /\ op.kind = "create" /\ op.stage = "undo" /\ todo = <<>>
      /\ UNCHANGED <<cnt, blk, held, ram, retry>> /\ allowed' = allowed
      /\ fh' = [c EXCEPT !.ent = Cleared] /\ todo' = <<w>>
      /\ op' = [op EXCEPT !.stage = "undoing"]
  BY DEF CreateUndo, CreateAt, Device
<1>2. /\ ram.par /\ ~ram.dead /\ retry = 0 /\ op.kind \in FileOps
      /\ Table(blk, L) /\ IsDisk(blk) /\ fh \in HandleSet /\ OpForm(op)
      /\ Static(fh, op) /\ FileOpOK(blk, L, todo, fh, op) /\ DOMAIN allowed = Names
  BY <1>1, CreateStateIs
<1>3. UndoOK(blk, L, fh)
  BY <1>1, <1>2 DEF FileOpOK
<1>4. L \in Nat /\ FatStart \in Nat
  BY <1>2, TableEnd, Consts
<1> HIDE DEF L, c
<1>5. /\ c \in HandleSet /\ c.obj = fh.obj /\ c.name = fh.name /\ c.addr \in FatStart .. L
      /\ c.addr = L => Grown(blk, L)
  <2>1. CASE Has(blk, L, fh.name)
    <3>1. c \in HandleSet /\ c.obj = fh.obj /\ c.name = fh.name /\ SlotOf(L, fh.name, c.addr)
      BY <1>2, <2>1, FoundHandle DEF c
    <3> QED
      BY <3>1 DEF SlotOf
  <2>2. CASE ~Has(blk, L, fh.name)
    <3>1. c = fh
      BY <1>2, <2>2, FoundIs DEF c
    <3> QED
      BY <1>2, <1>3, <2>2, <3>1 DEF UndoOK
  <2> QED
    BY <2>1, <2>2
<1>6. /\ fh' \in HandleSet /\ fh'.obj = fh.obj /\ fh'.name = fh.name /\ fh'.addr = c.addr
      /\ fh'.ent = Cleared
  BY <1>1, <1>5, WithEnt, Kinds
<1>7. w \in Writes /\ w.addr = c.addr /\ w.val = Cleared /\ w.use = "entry"
  BY <1>6, EntryWriteIs
<1> HIDE DEF w
<1>8. Fits(blk, L, c.addr, Cleared)
  BY <1>2, <1>5, ClearFits
<1>9. todo' \in Seq(Writes) /\ Len(todo') = 1 /\ todo'[1] = w
  BY <1>1, <1>2, <1>7, OneIs
<1>10. UndoingOK(blk, L, todo')
  <2>1. CASE c.addr = L
    <3>1. ExtendOK(blk, L, w)
      BY <1>7, <1>8, <2>1, Kinds DEF ExtendOK, Area
    <3> QED
      BY <1>5, <1>9, <2>1, <3>1 DEF UndoingOK, Extending
  <2>2. CASE c.addr # L
    <3>1. c.addr \in FatStart .. L - 1
      BY <1>4, <1>5, <2>2
    <3>2. StoreOK(blk, L, w)
      BY <1>7, <1>8, <3>1 DEF StoreOK
    <3>3. Storing(blk, L, todo')
      BY <1>1, <1>7, <3>2, OneIs
    <3> QED
      BY <1>9, <3>3 DEF UndoingOK
  <2> QED
    BY <2>1, <2>2
<1>11. OpForm(op') /\ op'.kind = "create" /\ op'.stage = "undoing"
  BY <1>1, <1>2, StageIs
<1>12. Static(fh, op') /\ op'.kind \in FileOps
  BY <1>1, <1>2, <1>11, StageStatic DEF FileOps
<1>13. Static(fh', op')
  BY <1>6, <1>12 DEF Static
<1>14. FileOpOK(blk, L, todo', fh', op')
  BY <1>10, <1>11 DEF FileOpOK
<1> QED
  BY <1>1, <1>2, <1>6, <1>9, <1>11, <1>12, <1>13, <1>14, FileStep DEF L


----------------------------------------------------------------------------
(* The theorems *)

LEMMA NextStep ==
    ASSUME WellUsed, Inv, [Next]_vars
    PROVE  Inv'
<1>1. CASE UNCHANGED vars
  <2>1. /\ cnt' = cnt /\ blk' = blk /\ held' = held /\ ram' = ram /\ fh' = fh /\ op' = op
        /\ todo' = todo /\ retry' = retry /\ allowed' = allowed
    BY <1>1 DEF vars
  <2>2. Req' = Req
    BY <2>1 DEF Req
  <2>3. Types' /\ Disk(blk)' /\ CountOK'
    BY <2>1 DEF Inv, Types, CountOK, Dummy
  <2>4. HeldOK'
    BY <2>1, <2>2 DEF Inv, HeldOK, Dummy
  <2>5. OpOK'
    BY <2>1, <2>2 DEF Inv, OpOK, IdleOK, SetupOK, Live, Fresh
  <2> QED
    BY <2>3, <2>4, <2>5 DEF Inv
<1>2. CASE \E n \in Names : Open(n) \/ Rename(n)
  BY <1>2, OpenStep, RenameStep
<1>3. CASE \E pos \in 1 .. MaxLen - 1 : \E new \in DataSeqs(1 .. MaxLen - pos) : Write(pos, new)
  BY <1>3, WriteStep
<1>4. CASE \E len \in 1 .. MaxLen : Truncate(len)
  BY <1>4, TruncateStep
<1>5. CASE \E n \in Names, overwrite \in BOOLEAN, data \in DataSeqs(1 .. 2) :
              Create(n, overwrite, data)
  BY <1>5, CreateStep
<1> QED
  BY <1>1, <1>2, <1>3, <1>4, <1>5, SendOkStep, SendRefusedStep, SendLostStep, AnswerLostStep,
     SendSwappedStep, UnsentStep, LateStep, PowerCutStep, SetupStep, SetupDummyDoneStep,
     SetupFormatDoneStep, CloseStep, RemoveStep, OpDoneStep, CreateWriteStep, CreateRenameStep,
     CreateDoneStep, CreateUndoStep, CreateFailsStep DEF Next

\* The FAT is sound after every block write of every operation, the writes
\* that are left fit the disk that is left, and the requests that normal
\* world holds back are harmless: the argument behind the two theorems below.
THEOREM InvHolds == ASSUME WellUsed PROVE Spec => []Inv
<1>1. Init => Inv
  BY InitOK
<1>2. Inv /\ [Next]_vars => Inv'
  BY NextStep
<1> QED
  BY <1>1, <1>2, PTL DEF Spec

\* The state keeps its type: write_req() is never handed a block past the
\* end of the device, whatever was lost, delivered late or cut off, and a
\* write counter never passes the one of the device.
THEOREM TypeCorrect == ASSUME WellUsed PROVE Spec => []TypeOK
<1>1. Inv => TypeOK
  <2>1. SUFFICES ASSUME Inv PROVE TypeOK
    OBVIOUS
  <2>2. /\ cnt \in 0 .. MaxCnt /\ ram.wr_cnt \in 0 .. cnt /\ cnt \in Nat /\ MaxCnt \in Nat
    BY <2>1, Consts DEF Inv, CountOK
  <2>3. (\A a \in DOMAIN blk : blk[a] \in BlockValues) /\ DOMAIN blk = 0 .. Blocks - 1
    BY <2>1 DEF Inv, Disk, IsDisk, Addrs
  <2>4. \A h \in held : h.cnt \in 0 .. MaxCnt /\ h.addr \in 0 .. Blocks - 1
    BY <2>1, <2>2 DEF Inv, HeldOK, Addrs
  <2>5. ram \in [wr_cnt : 0 .. MaxCnt, synced : BOOLEAN, dead : BOOLEAN, par : BOOLEAN]
    <3>1. ram.wr_cnt \in 0 .. MaxCnt
      BY <2>2
    <3> QED
      BY <2>1, <3>1 DEF Inv, Types
  <2>6. fh.addr \in 0 .. Blocks - 1 /\ fh.ent \in BlockValues
    BY <2>1, Kinds DEF Inv, Types, HandleSet, Addrs
  <2>7. \A i \in 1 .. Len(todo) : todo[i].addr \in 0 .. Blocks - 1 /\ todo[i].val \in BlockValues
    <3>1. \A i \in 1 .. Len(todo) : todo[i] \in Writes
      <4> HIDE DEF Writes
      <4> QED
        BY <2>1 DEF Inv, Types
    <3> QED
      BY <3>1 DEF Writes, Addrs
  <2>8. retry \in 0 .. MaxRetries - 1 /\ DOMAIN allowed = Names
    BY <2>1 DEF Inv, Types
  <2>9. (op = Idle => todo = <<>> /\ retry = 0) /\ (ram.dead => op = Idle)
    BY <2>1, IdleTypes DEF Inv, OpOK, IdleOK, SetupOK
  <2> QED
    BY <2>2, <2>3, <2>4, <2>5, <2>6, <2>7, <2>8, <2>9 DEF TypeOK
<1> QED
  BY <1>1, InvHolds, PTL

\* What read_fat() relies on holds at every moment, between the block writes
\* of an operation too, and after every lost request and power cut: the FAT
\* ends, a name occurs once, and the files overlap neither each other nor
\* the FAT.
THEOREM FatIsSound == ASSUME WellUsed PROVE Spec => []FatSound
<1>1. Inv => FatSound
  <2>1. SUFFICES ASSUME Inv, blk[0] = Partition
                 PROVE  /\ Terminated
                        /\ \A name \in FileNames : Cardinality(Matching(name)) <= 1
                        /\ DataAddrs \subseteq LastAddr + 1 .. Blocks - 1
                        /\ \A a, b \in Fat : a # b => Area(EntryAt(a)) \cap Area(EntryAt(b)) = {}
    BY DEF FatSound
  <2> DEFINE L == LastIn(blk)
  <2>2. Table(blk, L) /\ IsDisk(blk)
    BY <2>1, DiskTable DEF Inv
  <2> HIDE DEF L
  <2>3. Terminated /\ LastAddr = L /\ Fat = FatStart .. L /\ \A a : EntryAt(a) = EntryIn(blk, a)
    BY <2>2, Reads
  <2>4. \A a, b \in Fat : a # b => Apart(EntryAt(a), EntryAt(b))
    BY <2>2, <2>3 DEF Table
  <2>5. \A a \in Fat : Area(EntryAt(a)) \subseteq LastAddr + 1 .. Blocks - 1
    BY <2>2, <2>3 DEF Table
  <2>6. ASSUME NEW name \in FileNames PROVE Cardinality(Matching(name)) <= 1
    <3> DEFINE M == Matching(name)
    <3>1. \A a, b \in M : a = b
      BY <2>4 DEF Matching, Apart
    <3> HIDE DEF M
    <3>2. CASE M = {}
      BY <3>2, FS_EmptySet DEF M
    <3>3. CASE M # {}
      <4>1. PICK x \in M : TRUE
        BY <3>3
      <4>2. M = {x}
        BY <3>1, <4>1
      <4>3. Cardinality({x}) = 1
        BY FS_Singleton, Zenon
      <4> QED
        BY <4>2, <4>3 DEF M
    <3> QED
      BY <3>2, <3>3
  <2>7. DataAddrs \subseteq LastAddr + 1 .. Blocks - 1
    BY <2>5, Zenon DEF DataAddrs
  <2>8. \A a, b \in Fat : a # b => Area(EntryAt(a)) \cap Area(EntryAt(b)) = {}
    BY <2>4, Zenon DEF Apart
  <2> QED
    BY <2>3, <2>6, <2>7, <2>8
<1> QED
  BY <1>1, InvHolds, PTL

----------------------------------------------------------------------------
(* The contents of files *)

\* What update_write_helper() gets right: when a write that is not made in
\* place ends before the old data does, no later buffer starts behind its
\* position.  Files that are not longer than the buffer are an example.
HelperFits ==
    \A size \in 0 .. MaxLen : \A pos \in 1 .. MaxLen - 1 : \A len \in 1 .. MaxLen - pos :
        ~(pos + len <= size /\ len = 1) =>
            \A i \in pos + len + 1 .. size : ((i - 1) \div TmpBlocks) * TmpBlocks < pos

\* The entry at a is the one of the name.
At(b, L, name, a) == a \in FatStart .. L /\ EntryIn(b, a).active /\ EntryIn(b, a).name = name

DataIn(b, e) == [i \in 1 .. e.size |-> b[e.start + i - 1]]
ContentIn(b, n) ==
    IF b[0] # Partition \/ ~Has(b, LastIn(b), Final(n)) THEN NoFile
    ELSE DataIn(b, EntryIn(b, CHOOSE a \in FatStart .. LastIn(b) : At(b, LastIn(b), Final(n), a)))

\* A write that does not concern the file of the name.
Quiet(b, L, w, name) ==
    /\ w.use = "data" => \A a : At(b, L, name, a) => w.addr \notin Area(EntryIn(b, a))
    /\ w.use = "entry" => ~At(b, L, name, w.addr) /\ ~(w.val.active /\ w.val.name = name)
Quietly(b, L, td, name) == \A i \in 1 .. Len(td) : Quiet(b, L, td[i], name)

\* The last write is the entry of the name, and its blocks have the data D
\* when the writes before it are done.
Stores(L, td, name) ==
    LET w == td[Len(td)]
    IN  /\ td # <<>> /\ w.use = "entry" /\ w.val \in EntrySet
        /\ w.val.active /\ w.val.name = name /\ Area(w.val) \subseteq L + 1 .. Blocks - 1
Filling(b, td, D) ==
    LET e == td[Len(td)].val
        k == Len(td) - 1
    IN  /\ k <= e.size
        /\ \A j \in 1 .. k : /\ td[j].use = "data" /\ td[j].addr = e.start + e.size - k + j - 1
                             /\ td[j].val = D[e.size - k + j]
        /\ \A i \in 1 .. e.size - k : b[e.start + i - 1] = D[i]
\* One write, of block k of the file of the name.
PlaceAt(b, L, td, name, a, k) ==
    /\ Len(td) = 1 /\ td[1].use = "data" /\ At(b, L, name, a)
    /\ k \in 1 .. EntryIn(b, a).size /\ td[1].addr = EntryIn(b, a).start + k - 1

\* The content of object n is one of B and will be D.
Fill(b, L, td, n, D) ==
    /\ Stores(L, td, Final(n)) /\ Filling(b, td, D)
    /\ \A i \in 1 .. Len(td) - 1 : Quiet(b, L, td[i], Final(n))
    /\ D = [i \in 1 .. td[Len(td)].val.size |-> D[i]]
PlaceOne(b, L, td, n, D) ==
    \E a, k : /\ PlaceAt(b, L, td, Final(n), a, k)
              /\ D = [DataIn(b, EntryIn(b, a)) EXCEPT ![k] = td[1].val]
Clears(b, L, w, n) ==
    w.use = "entry" /\ At(b, L, Final(n), w.addr) /\ ~(w.val.active /\ w.val.name = Final(n))
Clear(b, L, td, n, D) == Len(td) = 1 /\ Clears(b, L, td[1], n) /\ D = NoFile
Replace(b, L, td, n, D, B) ==
    /\ Len(td) = 2 /\ Clears(b, L, td[1], n) /\ NoFile \in B /\ Stores(L, td, Final(n))
    /\ D = DataIn(b, td[2].val)
Gives(b, L, td, n, D, B) ==
    /\ td = <<>> => ContentIn(b, n) = D
    /\ td # <<>> => /\ ContentIn(b, n) \in B
                    /\ \/ Fill(b, L, td, n, D) \/ PlaceOne(b, L, td, n, D)
                       \/ Clear(b, L, td, n, D) \/ Replace(b, L, td, n, D, B)

\* The first k blocks of a file that is created are there, or will be.
Kept(b, L, name, data, a, k, m) ==
    /\ At(b, L, name, a) /\ EntryIn(b, a).size \in m .. Len(data)
    /\ \A i \in 1 .. k : b[EntryIn(b, a).start + i - 1] = data[i]
TempOK(b, L, td, name, data, pos) ==
    /\ td = <<>> => \E a : Kept(b, L, name, data, a, pos, pos)
    /\ td # <<>> =>
          \/ pos = 0 /\ Stores(L, td, name) /\ td[Len(td)].val = Entry(name, 0, 0)
          \/ Stores(L, td, name) /\ td[Len(td)].val.size = pos /\ Filling(b, td, data)
          \/ \E a : /\ PlaceAt(b, L, td, name, a, pos) /\ Kept(b, L, name, data, a, pos - 1, pos)
                    /\ td[1].val = data[pos]

Settles(o) == o.kind # "create" \/ o.stage = "rename"
OpData(b, L, td, o) ==
    /\ \A n \in DOMAIN o.new :
          /\ Settles(o) => Gives(b, L, td, n, o.new[n], o.before[n] \cup o.mid)
          /\ ~Settles(o) => /\ ContentIn(b, n) \in o.before[n] \cup o.mid
                            /\ Quietly(b, L, td, Final(n))
    /\ \A n \in Names \ DOMAIN o.new : Quietly(b, L, td, Final(n))
    /\ o.kind = "create" /\ o.stage = "write" =>
          TempOK(b, L, td, Temporary(o.obj), o.data, o.pos)

\* The contents that an object may have during an operation.
History(o) ==
    /\ DOMAIN o.new \subseteq Names /\ o.mid \subseteq {NoFile}
    /\ \A n \in DOMAIN o.new : o.before[n] \cup o.mid \cup {o.new[n]} \subseteq allowed[n]
    /\ o.kind = "create" => o.new = [n \in {o.obj} |-> o.data]

DurInv ==
    /\ \A n \in Names : ContentIn(blk, n) \in allowed[n]
    /\ \A h \in held : \A n \in Names : ContentIn(Apply(blk, h), n) \in allowed[n]
    /\ op.kind \in FileOps => History(op) /\ (Live => OpData(blk, LastIn(blk), todo, op))

----------------------------------------------------------------------------
LEMMA OneAt ==
    ASSUME NEW b, NEW L, Table(b, L), NEW name, NEW a, NEW c, At(b, L, name, a), At(b, L, name, c)
    PROVE  a = c
BY DEF Table, At, Apart

LEMMA ContentIs ==
    ASSUME WellUsed, NEW b, NEW L, Table(b, L), b[0] = Partition, NEW n
    PROVE  /\ \A a : At(b, L, Final(n), a) => ContentIn(b, n) = DataIn(b, EntryIn(b, a))
           /\ (\A a : ~At(b, L, Final(n), a)) => ContentIn(b, n) = NoFile
<1>1. LastIn(b) = L
  BY TableEnd
<1>2. Has(b, L, Final(n)) <=> \E a \in FatStart .. L : At(b, L, Final(n), a)
  BY DEF Has, At
<1> DEFINE x == CHOOSE a \in FatStart .. L : At(b, L, Final(n), a)
<1>3. ASSUME NEW a, At(b, L, Final(n), a) PROVE ContentIn(b, n) = DataIn(b, EntryIn(b, a))
  <2>1. a \in FatStart .. L
    BY <1>3 DEF At
  <2>2. At(b, L, Final(n), x)
    BY <1>3, <2>1
  <2> HIDE DEF x
  <2>3. x = a
    BY <1>3, <2>2, OneAt
  <2>4. ContentIn(b, n) = DataIn(b, EntryIn(b, x))
    BY <1>1, <1>2, <1>3, <2>1, Zenon DEF ContentIn, x
  <2> QED
    BY <2>3, <2>4
<1>4. (\A a : ~At(b, L, Final(n), a)) => ContentIn(b, n) = NoFile
  BY <1>1, <1>2 DEF ContentIn
<1> QED
  BY <1>3, <1>4

\* The blocks of a file that is in the table.
LEMMA FileIs ==
    ASSUME WellUsed, NEW b, IsDisk(b), NEW L, Table(b, L), NEW name, NEW a, At(b, L, name, a)
    PROVE  LET e == EntryIn(b, a)
           IN  /\ e \in EntrySet /\ e.active /\ e.start \in Nat /\ e.size \in Nat
               /\ Area(e) \subseteq L + 1 .. Blocks - 1 /\ a \in Addrs /\ a # L
               /\ \A i \in 1 .. e.size : e.start + i - 1 \in Area(e) /\ e.start + i - 1 \in Addrs
<1> DEFINE e == EntryIn(b, a)
<1>1. a \in FatStart .. L /\ e.active /\ a \in Addrs /\ a # L /\ L \in Nat /\ Blocks \in Nat
  BY TableEnd, Consts DEF At
<1>2. e \in EntrySet
  BY <1>1, EntryType
<1>3. Area(e) \subseteq L + 1 .. Blocks - 1
  BY <1>1 DEF Table
<1> HIDE DEF e
<1>4. Area(e) = e.start .. e.start + e.size - 1 /\ e.start \in Nat /\ e.size \in Nat
  BY <1>1, <1>2, AreaIs
<1>5. ASSUME NEW i \in 1 .. e.size PROVE e.start + i - 1 \in Area(e) /\ e.start + i - 1 \in Addrs
  <2>1. e.start + i - 1 \in Area(e)
    BY <1>4
  <2>2. e.start + i - 1 \in L + 1 .. Blocks - 1
    BY <1>3, <2>1
  <2> QED
    BY <1>1, <2>1, <2>2 DEF Addrs
<1> QED
  BY <1>1, <1>2, <1>3, <1>4, <1>5 DEF e

\* Every block write of a file operation is one of these.
WriteForm(b, L, w) ==
    \/ DataOK(L, w) \/ StoreOK(b, L, w) \/ (Grown(b, L) /\ ExtendOK(b, L, w))
    \/ Room(b, L) /\ w = [addr |-> L + 1, val |-> LastEntry, use |-> "last"]
\* What it does to the disk b.
Written(b, L, w, c, M) ==
    /\ IsDisk(c) /\ c[0] = b[0] /\ Table(c, M) /\ LastIn(c) = M /\ w.addr \in Addrs
    /\ c[w.addr] = w.val /\ \A x \in Addrs \ {w.addr} : c[x] = b[x]
    /\ M \in {L, L + 1}
    /\ w.use # "entry" => /\ M = L /\ w.addr \in L + 1 .. Blocks - 1
                          /\ \A a \in FatStart .. L : EntryIn(c, a) = EntryIn(b, a)
    /\ w.use = "entry" => /\ w.addr \in FatStart .. L /\ EntryIn(c, w.addr) = w.val
                          /\ w.val \in EntrySet /\ Area(w.val) \subseteq M + 1 .. Blocks - 1
                          /\ \A a \in FatStart .. L : a # w.addr => EntryIn(c, a) = EntryIn(b, a)
                          /\ w.addr # L => M = L
    /\ M = L + 1 => ~EntryIn(c, L + 1).active
    /\ w.use \notin {"data", "entry"} => \A a \in FatStart .. L : w.addr \notin Area(EntryIn(b, a))

LEMMA WriteEffect ==
    ASSUME WellUsed, NEW b, IsDisk(b), NEW L, Table(b, L), NEW w, WriteForm(b, L, w)
    PROVE  Written(b, L, w, Apply(b, w), LastIn(Apply(b, w)))
<1> DEFINE c == Apply(b, w)
<1>1. L \in Nat /\ Blocks \in Nat /\ FatStart .. L \subseteq Addrs /\ FatStart = 2 /\ L \in FatStart .. L
      /\ L + 1 \in Nat /\ L # L + 1
  BY TableEnd, Consts
<1>2. CASE DataOK(L, w)
  <2>1. w.use = "data" /\ w.val \in BlockValues /\ w.addr \in L + 1 .. Blocks - 1
    BY <1>2 DEF DataOK
  <2>2. w.addr \in Addrs
    BY <1>1, <2>1 DEF Addrs
  <2>3. /\ IsDisk(c) /\ Table(c, L) /\ c[0] = b[0] /\ \A a \in FatStart .. L : EntryIn(c, a) = EntryIn(b, a)
    BY <2>1, DataStore
  <2>4. c[w.addr] = w.val /\ \A x \in Addrs \ {w.addr} : c[x] = b[x]
    BY <2>1, <2>2, ApplyIs
  <2>5. LastIn(c) = L
    BY <2>3, TableEnd
  <2> HIDE DEF c
  <2> QED
    BY <1>1, <2>1, <2>2, <2>3, <2>4, <2>5 DEF Written, c
<1>3. CASE Room(b, L) /\ w = [addr |-> L + 1, val |-> LastEntry, use |-> "last"]
  <2>1. w.use = "last" /\ w.val \in BlockValues /\ w.addr \in L + 1 .. Blocks - 1 /\ w.addr = L + 1
    BY <1>1, <1>3, Kinds DEF Room
  <2>2. w.addr \in Addrs
    BY <1>1, <2>1 DEF Addrs
  <2>3. /\ IsDisk(c) /\ Table(c, L) /\ c[0] = b[0] /\ \A a \in FatStart .. L : EntryIn(c, a) = EntryIn(b, a)
    BY <2>1, DataStore
  <2>4. c[w.addr] = w.val /\ \A x \in Addrs \ {w.addr} : c[x] = b[x]
    BY <2>1, <2>2, ApplyIs
  <2>5. LastIn(c) = L
    BY <2>3, TableEnd
  <2>6. \A a \in FatStart .. L : w.addr \notin Area(EntryIn(b, a))
    BY <1>3, <2>1 DEF Room
  <2> HIDE DEF c
  <2> QED
    BY <1>1, <2>1, <2>2, <2>3, <2>4, <2>5, <2>6 DEF Written, c
<1>4. CASE StoreOK(b, L, w)
  <2>1. /\ w.use = "entry" /\ w.addr \in FatStart .. L - 1 /\ w.val \in EntrySet
        /\ Area(w.val) \subseteq L + 1 .. Blocks - 1 /\ Fits(b, L, w.addr, w.val)
    BY <1>4 DEF StoreOK, Fits
  <2>2. w.addr \in Addrs /\ w.addr \in FatStart .. L /\ w.addr # L /\ w.val \in BlockValues
    <3>1. w.addr \in FatStart .. L /\ w.addr # L
      BY <1>1, <2>1
    <3> QED
      BY <1>1, <2>1, <3>1, Kinds
  <2>3. /\ IsDisk(c) /\ Table(c, L) /\ c[0] = b[0] /\ EntryIn(c, w.addr) = w.val
        /\ \A a \in FatStart .. L : a # w.addr => EntryIn(c, a) = EntryIn(b, a)
    BY <2>1, EntryStore
  <2>4. c[w.addr] = w.val /\ \A x \in Addrs \ {w.addr} : c[x] = b[x]
    BY <2>1, <2>2, ApplyIs
  <2>5. LastIn(c) = L
    BY <2>3, TableEnd
  <2> HIDE DEF c
  <2> QED
    BY <1>1, <2>1, <2>2, <2>3, <2>4, <2>5 DEF Written, c
<1>5. CASE Grown(b, L) /\ ExtendOK(b, L, w)
  <2>1. /\ w.use = "entry" /\ w.addr = L /\ w.val \in EntrySet /\ Area(w.val) = {}
    BY <1>5 DEF ExtendOK, Fits
  <2>2. w.addr \in Addrs /\ w.addr \in FatStart .. L /\ w.val \in BlockValues
    BY <1>1, <2>1, Kinds
  <2>3. /\ IsDisk(c) /\ Table(c, L + 1) /\ c[0] = b[0] /\ EntryIn(c, w.addr) = w.val
        /\ ~EntryIn(c, L + 1).active
        /\ \A a \in FatStart .. L : a # w.addr => EntryIn(c, a) = EntryIn(b, a)
    BY <1>5, <2>1, ExtendStore
  <2>4. c[w.addr] = w.val /\ \A x \in Addrs \ {w.addr} : c[x] = b[x]
    BY <2>1, <2>2, ApplyIs
  <2>5. LastIn(c) = L + 1
    BY <2>3, TableEnd
  <2> HIDE DEF c
  <2> QED
    BY <1>1, <2>1, <2>2, <2>3, <2>4, <2>5 DEF Written, c
<1> QED
  BY <1>2, <1>3, <1>4, <1>5 DEF WriteForm

\* The file of the name stays as it is.
Untouched(b, L, c, M, name) ==
    \A a : /\ At(c, M, name, a) <=> At(b, L, name, a)
           /\ At(b, L, name, a) => /\ EntryIn(c, a) = EntryIn(b, a)
                                   /\ DataIn(c, EntryIn(b, a)) = DataIn(b, EntryIn(b, a))

LEMMA QuietWrite ==
    ASSUME WellUsed, NEW b, IsDisk(b), NEW L, Table(b, L), NEW w, NEW c, NEW M, Written(b, L, w, c, M),
           NEW name, Quiet(b, L, w, name)
    PROVE  Untouched(b, L, c, M, name)
<1>1. L \in Nat /\ M \in Nat /\ Blocks \in Nat /\ FatStart = 2 /\ M \in {L, L + 1}
  BY TableEnd, Consts DEF Written
<1>2. \A a \in FatStart .. L : a \in FatStart .. M
  BY <1>1
<1>3. ASSUME NEW a, At(b, L, name, a)
      PROVE  EntryIn(c, a) = EntryIn(b, a) /\ At(c, M, name, a)
  <2>1. a \in FatStart .. L /\ (w.use = "entry" => a # w.addr)
    BY <1>3 DEF At, Quiet
  <2>2. EntryIn(c, a) = EntryIn(b, a)
    BY <2>1 DEF Written
  <2> QED
    BY <1>2, <1>3, <2>1, <2>2 DEF At
<1>4. ASSUME NEW a, At(c, M, name, a) PROVE At(b, L, name, a)
  <2>1. a \in FatStart .. M /\ EntryIn(c, a).active /\ EntryIn(c, a).name = name
    BY <1>4 DEF At
  <2>2. a \in FatStart .. L
    <3>1. a \in FatStart .. L \/ (M = L + 1 /\ a = L + 1)
      BY <1>1, <2>1
    <3> QED
      BY <2>1, <3>1 DEF Written
  <2>3. w.use = "entry" => a # w.addr
    BY <2>1 DEF Written, Quiet
  <2>4. EntryIn(c, a) = EntryIn(b, a)
    BY <2>2, <2>3 DEF Written
  <2> QED
    BY <2>1, <2>2, <2>4 DEF At
<1>5. ASSUME NEW a, At(b, L, name, a)
      PROVE  DataIn(c, EntryIn(b, a)) = DataIn(b, EntryIn(b, a))
  <2> DEFINE e == EntryIn(b, a)
  <2>1. /\ Area(e) \subseteq L + 1 .. Blocks - 1 /\ a \in FatStart .. L
        /\ \A i \in 1 .. e.size : e.start + i - 1 \in Area(e) /\ e.start + i - 1 \in Addrs
    BY <1>5, FileIs DEF At
  <2>2. w.addr \notin Area(e)
    <3>1. CASE w.use = "data"
      BY <1>5, <3>1 DEF Quiet
    <3>2. CASE w.use = "entry"
      <4>1. w.addr \in FatStart .. L
        BY <3>2 DEF Written
      <4> HIDE DEF e
      <4> QED
        BY <1>1, <2>1, <4>1
    <3>3. CASE w.use \notin {"data", "entry"}
      BY <2>1, <3>3 DEF Written
    <3> QED
      BY <3>1, <3>2, <3>3
  <2> HIDE DEF e
  <2>3. \A i \in 1 .. e.size : c[e.start + i - 1] = b[e.start + i - 1]
    BY <2>1, <2>2 DEF Written
  <2> QED
    BY <2>3 DEF DataIn, e
<1> QED
  BY <1>3, <1>4, <1>5 DEF Untouched

LEMMA SameContent ==
    ASSUME WellUsed, NEW b, NEW L, Table(b, L), b[0] = Partition, NEW c, NEW M, Table(c, M), c[0] = Partition,
           NEW n, Untouched(b, L, c, M, Final(n))
    PROVE  ContentIn(c, n) = ContentIn(b, n)
<1>1. CASE \E a : At(b, L, Final(n), a)
  <2>1. PICK a : At(b, L, Final(n), a)
    BY <1>1
  <2>2. At(c, M, Final(n), a) /\ EntryIn(c, a) = EntryIn(b, a)
        /\ DataIn(c, EntryIn(b, a)) = DataIn(b, EntryIn(b, a))
    BY <2>1 DEF Untouched
  <2>3. ContentIn(b, n) = DataIn(b, EntryIn(b, a)) /\ ContentIn(c, n) = DataIn(c, EntryIn(c, a))
    BY <2>1, <2>2, ContentIs
  <2> QED
    BY <2>2, <2>3
<1>2. CASE \A a : ~At(b, L, Final(n), a)
  <2>1. \A a : ~At(c, M, Final(n), a)
    BY <1>2 DEF Untouched
  <2>2. ContentIn(b, n) = NoFile /\ ContentIn(c, n) = NoFile
    BY <1>2, <2>1, ContentIs
  <2> QED
    BY <2>2
<1> QED
  BY <1>1, <1>2

LEMMA StillQuiet ==
    ASSUME NEW b, NEW L, NEW c, NEW M, NEW name, Untouched(b, L, c, M, name), NEW w, Quiet(b, L, w, name)
    PROVE  Quiet(c, M, w, name)
<1>1. \A a : At(c, M, name, a) => At(b, L, name, a) /\ EntryIn(c, a) = EntryIn(b, a)
  BY DEF Untouched
<1> HIDE DEF Area
<1> QED
  BY <1>1 DEF Quiet

\* The rest of writes that are quiet.
LEMMA QuietTail ==
    ASSUME WellUsed, NEW b, IsDisk(b), NEW L, Table(b, L), NEW td \in Seq(Writes), td # <<>>,
           NEW c, NEW M, Written(b, L, td[1], c, M), NEW name, Quietly(b, L, td, name)
    PROVE  Untouched(b, L, c, M, name) /\ Quietly(c, M, Tail(td), name)
<1>1. /\ Len(td) \in Nat \ {0} /\ Len(Tail(td)) = Len(td) - 1
      /\ \A i \in 1 .. Len(td) - 1 : Tail(td)[i] = td[i + 1]
  BY TailIs
<1>2. Quiet(b, L, td[1], name)
  <2>1. 1 \in 1 .. Len(td)
    BY <1>1
  <2> QED
    BY <2>1 DEF Quietly
<1>3. Untouched(b, L, c, M, name)
  BY <1>2, QuietWrite
<1>4. ASSUME NEW i \in 1 .. Len(Tail(td)) PROVE Quiet(c, M, Tail(td)[i], name)
  <2>1. i + 1 \in 1 .. Len(td) /\ Tail(td)[i] = td[i + 1]
    BY <1>1
  <2>2. Quiet(b, L, td[i + 1], name)
    BY <2>1 DEF Quietly
  <2> QED
    BY <1>3, <2>1, <2>2, StillQuiet
<1> QED
  BY <1>3, <1>4 DEF Quietly

\* The entry has been stored, and its blocks have the data D.
Stored(c, M, w, name, D) ==
    /\ At(c, M, name, w.addr) /\ EntryIn(c, w.addr) = w.val
    /\ \A i \in 1 .. w.val.size : c[w.val.start + i - 1] = D[i]

\* One of the writes of a file and its entry.
LEMMA FillingStep ==
    ASSUME WellUsed, NEW b, IsDisk(b), NEW L, Table(b, L), NEW td \in Seq(Writes),
           NEW c, NEW M, Written(b, L, td[1], c, M), NEW name, Stores(L, td, name),
           NEW D, Filling(b, td, D)
    PROVE  /\ Len(td) # 1 => Stores(M, Tail(td), name) /\ Filling(c, Tail(td), D) /\ td[1].use = "data"
           /\ Len(td) = 1 => Stored(c, M, td[1], name, D)
<1> DEFINE e == td[Len(td)].val
           k == Len(td) - 1
<1>1. /\ td # <<>> /\ e \in EntrySet /\ e.active /\ e.name = name
      /\ Area(e) \subseteq L + 1 .. Blocks - 1 /\ td[Len(td)].use = "entry"
  BY DEF Stores
<1>2. /\ td[1] \in Writes /\ Len(td) \in Nat \ {0} /\ Tail(td) \in Seq(Writes)
      /\ Len(Tail(td)) = Len(td) - 1
      /\ \A i \in 1 .. Len(td) - 1 : Tail(td)[i] = td[i + 1]
      /\ Len(td) = 1 <=> Tail(td) = <<>>
      /\ Len(td) # 1 => Tail(td)[Len(Tail(td))] = td[Len(td)]
  BY <1>1, TailIs
<1>3. /\ k <= e.size
      /\ \A j \in 1 .. k : /\ td[j].use = "data" /\ td[j].addr = e.start + e.size - k + j - 1
                           /\ td[j].val = D[e.size - k + j]
      /\ \A i \in 1 .. e.size - k : b[e.start + i - 1] = D[i]
  BY DEF Filling
<1>4. L \in Nat /\ Blocks \in Nat /\ FatStart = 2 /\ M \in {L, L + 1}
  BY TableEnd, Consts DEF Written
<1> HIDE DEF e
<1>5. Area(e) = e.start .. e.start + e.size - 1 /\ e.start \in Nat /\ e.size \in Nat
  BY <1>1, AreaIs
<1>6. \A i \in 1 .. e.size : e.start + i - 1 \in L + 1 .. Blocks - 1 /\ e.start + i - 1 \in Addrs
  <2>1. ASSUME NEW i \in 1 .. e.size PROVE e.start + i - 1 \in L + 1 .. Blocks - 1
    <3>1. e.start + i - 1 \in e.start .. e.start + e.size - 1
      BY <1>5
    <3> QED
      BY <1>1, <1>5, <3>1
  <2> QED
    BY <1>4, <2>1 DEF Addrs
<1>7. ASSUME Len(td) # 1
      PROVE  Stores(M, Tail(td), name) /\ Filling(c, Tail(td), D) /\ td[1].use = "data"
  <2>1. k \in Nat /\ 1 \in 1 .. k /\ k - 1 \in Nat
    BY <1>2, <1>7
  <2>2. td[1].use = "data" /\ td[1].addr = e.start + e.size - k /\ td[1].val = D[e.size - k + 1]
    <3>1. td[1].use = "data" /\ td[1].addr = e.start + e.size - k + 1 - 1 /\ td[1].val = D[e.size - k + 1]
      BY <1>3, <2>1
    <3>2. e.start + e.size - k + 1 - 1 = e.start + e.size - k
      BY <1>5, <2>1
    <3> QED
      BY <3>1, <3>2
  <2>3. M = L /\ c[td[1].addr] = td[1].val /\ \A x \in Addrs \ {td[1].addr} : c[x] = b[x]
    BY <2>2 DEF Written
  <2>4. Stores(M, Tail(td), name)
    BY <1>1, <1>2, <1>7, <2>3 DEF Stores, e
  <2>5. ASSUME NEW j \in 1 .. k - 1
        PROVE  /\ Tail(td)[j].use = "data" /\ Tail(td)[j].addr = e.start + e.size - (k - 1) + j - 1
               /\ Tail(td)[j].val = D[e.size - (k - 1) + j]
    <3>1. j + 1 \in 1 .. k /\ Tail(td)[j] = td[j + 1]
      BY <1>2, <2>1
    <3>2. /\ e.start + e.size - k + (j + 1) - 1 = e.start + e.size - (k - 1) + j - 1
          /\ e.size - k + (j + 1) = e.size - (k - 1) + j
      <4>1. k \in Nat /\ j \in Nat
        BY <2>1
      <4> HIDE DEF k
      <4> QED
        BY <1>5, <4>1
    <3> HIDE DEF k
    <3> QED
      BY <1>3, <3>1, <3>2
  <2>6. ASSUME NEW i \in 1 .. e.size - (k - 1) PROVE c[e.start + i - 1] = D[i]
    <3>1. i \in 1 .. e.size
      BY <1>3, <1>5, <2>1
    <3>2. CASE i = e.size - k + 1
      <4>1. e.start + i - 1 = td[1].addr
        BY <1>5, <2>1, <2>2, <3>2
      <4> QED
        BY <2>2, <2>3, <3>2, <4>1
    <3>3. CASE i # e.size - k + 1
      <4>1. i \in 1 .. e.size - k /\ e.start + i - 1 # td[1].addr
        BY <1>5, <2>1, <2>2, <3>3
      <4> QED
        BY <1>3, <1>6, <2>3, <3>1, <4>1
    <3> QED
      BY <3>2, <3>3
  <2>7. Tail(td)[Len(Tail(td))].val = e /\ Len(Tail(td)) - 1 = k - 1 /\ k - 1 <= e.size
    BY <1>2, <1>3, <1>5, <1>7, <2>1 DEF e
  <2>8. Filling(c, Tail(td), D)
    BY <2>5, <2>6, <2>7 DEF Filling
  <2> QED
    BY <2>2, <2>4, <2>8
<1>8. ASSUME Len(td) = 1
      PROVE  Stored(c, M, td[1], name, D)
  <2>1. e = td[1].val /\ td[1].use = "entry" /\ k = 0
    BY <1>1, <1>8 DEF e
  <2>2. EntryIn(c, td[1].addr) = e /\ td[1].addr \in FatStart .. L
        /\ \A x \in Addrs \ {td[1].addr} : c[x] = b[x]
    BY <2>1 DEF Written
  <2>3. At(c, M, name, td[1].addr)
    <3>1. td[1].addr \in FatStart .. M
      BY <1>4, <2>2
    <3> QED
      BY <1>1, <2>2, <3>1 DEF At
  <2>4. ASSUME NEW i \in 1 .. e.size PROVE c[e.start + i - 1] = D[i]
    <3>1. i \in 1 .. e.size - k
      BY <1>5, <1>8
    <3>2. e.start + i - 1 # td[1].addr
      BY <1>4, <1>5, <1>6, <2>2
    <3> QED
      BY <1>3, <1>6, <2>2, <3>1, <3>2
  <2> QED
    BY <2>1, <2>2, <2>3, <2>4 DEF Stored
<1> QED
  BY <1>7, <1>8

\* A block is written in place.
Placed(b, w, name, a, k, c, M) ==
    LET e == EntryIn(b, a)
    IN  /\ At(c, M, name, a) /\ EntryIn(c, a) = e /\ e.size \in Nat /\ e.start \in Nat
        /\ \A i \in 1 .. e.size :
              c[e.start + i - 1] = IF i = k THEN w.val ELSE b[e.start + i - 1]

LEMMA PlaceStep ==
    ASSUME WellUsed, NEW b, IsDisk(b), NEW L, Table(b, L), NEW td \in Seq(Writes), NEW name, NEW a, NEW k,
           PlaceAt(b, L, td, name, a, k), NEW c, NEW M, Written(b, L, td[1], c, M)
    PROVE  Tail(td) = <<>> /\ td # <<>> /\ Placed(b, td[1], name, a, k, c, M)
<1> DEFINE e == EntryIn(b, a)
<1>1. /\ Len(td) = 1 /\ td[1].use = "data" /\ At(b, L, name, a) /\ k \in 1 .. e.size
      /\ td[1].addr = e.start + k - 1
  BY DEF PlaceAt
<1>2. Tail(td) = <<>> /\ td # <<>>
  <2>1. td # <<>>
    <3>1. td = <<>> <=> Len(td) = 0
      BY Filled
    <3>2. Len(td) # 0
      BY <1>1
    <3> QED
      BY <3>1, <3>2, Zenon
  <2>2. Len(td) = 1 <=> Tail(td) = <<>>
    BY <2>1, TailIs
  <2> QED
    BY <1>1, <2>1, <2>2, Zenon
<1>3. /\ M = L /\ \A x \in FatStart .. L : EntryIn(c, x) = EntryIn(b, x)
      /\ c[td[1].addr] = td[1].val /\ \A x \in Addrs \ {td[1].addr} : c[x] = b[x]
  BY <1>1 DEF Written
<1>4. At(c, M, name, a) /\ EntryIn(c, a) = e
  BY <1>1, <1>3 DEF At
<1>5. e.start \in Nat /\ e.size \in Nat /\ \A i \in 1 .. e.size : e.start + i - 1 \in Addrs
  BY <1>1, FileIs
<1> HIDE DEF e
<1>6. ASSUME NEW i \in 1 .. e.size
      PROVE  c[e.start + i - 1] = IF i = k THEN td[1].val ELSE b[e.start + i - 1]
  <2>1. i # k => e.start + i - 1 # td[1].addr
    BY <1>1, <1>5
  <2> QED
    BY <1>1, <1>3, <1>5, <2>1
<1> QED
  BY <1>2, <1>4, <1>5, <1>6 DEF Placed, e

\* The entry of a file is cleared or renamed.
LEMMA ClearStep ==
    ASSUME WellUsed, NEW b, IsDisk(b), NEW L, Table(b, L), NEW w, NEW n,
           Clears(b, L, w, n), NEW c, NEW M, Written(b, L, w, c, M)
    PROVE  M = L /\ \A a : ~At(c, M, Final(n), a)
<1>1. w.use = "entry" /\ At(b, L, Final(n), w.addr) /\ ~(w.val.active /\ w.val.name = Final(n))
  BY DEF Clears
<1>2. w.addr # L
  BY <1>1, FileIs
<1>3. /\ M = L /\ EntryIn(c, w.addr) = w.val
      /\ \A a \in FatStart .. L : a # w.addr => EntryIn(c, a) = EntryIn(b, a)
  BY <1>1, <1>2 DEF Written
<1>4. ASSUME NEW a, At(c, M, Final(n), a) PROVE FALSE
  <2>1. a # w.addr
    BY <1>1, <1>3, <1>4 DEF At
  <2>2. At(b, L, Final(n), a)
    BY <1>3, <1>4, <2>1 DEF At
  <2> QED
    BY <1>1, <2>1, <2>2, OneAt
<1> QED
  BY <1>3, <1>4

\* The content of an object after one of the writes that change it.
LEMMA GivesStep ==
    ASSUME WellUsed, NEW b, IsDisk(b), NEW L, Table(b, L), b[0] = Partition,
           NEW td \in Seq(Writes), td # <<>>, NEW c, NEW M, Written(b, L, td[1], c, M),
           NEW n, NEW D, NEW B, Gives(b, L, td, n, D, B)
    PROVE  Gives(c, M, Tail(td), n, D, B) /\ ContentIn(c, n) \in B \cup {D}
<1>1. Table(c, M) /\ c[0] = Partition /\ IsDisk(c)
  BY DEF Written
<1>2. /\ td[1] \in Writes /\ Len(td) \in Nat \ {0} /\ Tail(td) \in Seq(Writes)
      /\ Len(Tail(td)) = Len(td) - 1
      /\ \A i \in 1 .. Len(td) - 1 : Tail(td)[i] = td[i + 1]
      /\ Len(td) = 1 <=> Tail(td) = <<>>
      /\ Len(td) # 1 => Tail(td)[Len(Tail(td))] = td[Len(td)]
  BY TailIs
<1>3. ContentIn(b, n) \in B
  BY DEF Gives
<1>4. ASSUME Tail(td) = <<>>, ContentIn(c, n) = D
      PROVE  Gives(c, M, Tail(td), n, D, B) /\ ContentIn(c, n) \in B \cup {D}
  BY <1>4 DEF Gives
<1>5. CASE Fill(b, L, td, n, D)
  <2>1. /\ Stores(L, td, Final(n)) /\ Filling(b, td, D)
        /\ \A i \in 1 .. Len(td) - 1 : Quiet(b, L, td[i], Final(n))
        /\ D = [i \in 1 .. td[Len(td)].val.size |-> D[i]]
    BY <1>5 DEF Fill
  <2>2. CASE Len(td) = 1
    <3> DEFINE e == td[1].val
    <3>1. /\ At(c, M, Final(n), td[1].addr) /\ EntryIn(c, td[1].addr) = e
          /\ \A i \in 1 .. e.size : c[e.start + i - 1] = D[i]
      <4>1. Stored(c, M, td[1], Final(n), D)
        BY <2>1, <2>2, FillingStep
      <4> QED
        BY <4>1 DEF Stored
    <3>2. ContentIn(c, n) = DataIn(c, e)
      BY <1>1, <3>1, ContentIs
    <3>3. D = [i \in 1 .. e.size |-> D[i]]
      BY <2>1, <2>2
    <3> HIDE DEF e
    <3>4. DataIn(c, e) = D
      BY <3>1, <3>3 DEF DataIn
    <3> QED
      BY <1>2, <1>4, <2>2, <3>2, <3>4
  <2>3. CASE Len(td) # 1
    <3>1. Stores(M, Tail(td), Final(n)) /\ Filling(c, Tail(td), D)
      BY <2>1, <2>3, FillingStep
    <3>2. 1 \in 1 .. Len(td) - 1 /\ Tail(td) # <<>>
      BY <1>2, <2>3
    <3>3. Untouched(b, L, c, M, Final(n))
      BY <2>1, <3>2, QuietWrite
    <3>4. ContentIn(c, n) \in B
      BY <1>1, <1>3, <3>3, SameContent
    <3>5. ASSUME NEW i \in 1 .. Len(Tail(td)) - 1 PROVE Quiet(c, M, Tail(td)[i], Final(n))
      <4>1. i + 1 \in 1 .. Len(td) - 1 /\ i \in 1 .. Len(td) - 1
        BY <1>2
      <4>2. Tail(td)[i] = td[i + 1]
        BY <1>2, <4>1
      <4> QED
        BY <2>1, <3>3, <4>1, <4>2, StillQuiet
    <3>6. Fill(c, M, Tail(td), n, D)
      BY <1>2, <2>1, <2>3, <3>1, <3>5 DEF Fill
    <3> QED
      BY <3>2, <3>4, <3>6 DEF Gives
  <2> QED
    BY <2>2, <2>3
<1>6. CASE PlaceOne(b, L, td, n, D)
  <2>1. PICK a, k : /\ PlaceAt(b, L, td, Final(n), a, k)
                    /\ D = [DataIn(b, EntryIn(b, a)) EXCEPT ![k] = td[1].val]
    BY <1>6 DEF PlaceOne
  <2> DEFINE e == EntryIn(b, a)
  <2>2. /\ Tail(td) = <<>> /\ At(c, M, Final(n), a) /\ EntryIn(c, a) = e
        /\ \A i \in 1 .. e.size :
              c[e.start + i - 1] = IF i = k THEN td[1].val ELSE b[e.start + i - 1]
    <3>1. Tail(td) = <<>> /\ Placed(b, td[1], Final(n), a, k, c, M)
      BY <2>1, PlaceStep
    <3> QED
      BY <3>1 DEF Placed
  <2>3. ContentIn(c, n) = DataIn(c, e)
    BY <1>1, <2>2, ContentIs
  <2>4. D = [DataIn(b, e) EXCEPT ![k] = td[1].val]
    BY <2>1
  <2> HIDE DEF e
  <2>5. DataIn(c, e) = D
    <3>1. D = [i \in 1 .. e.size |-> IF i = k THEN td[1].val ELSE b[e.start + i - 1]]
      BY <2>4 DEF DataIn
    <3> QED
      BY <2>2, <3>1 DEF DataIn
  <2> QED
    BY <1>4, <2>2, <2>3, <2>5
<1>7. CASE Clear(b, L, td, n, D)
  <2>1. Len(td) = 1 /\ Clears(b, L, td[1], n) /\ D = NoFile
    BY <1>7 DEF Clear
  <2>2. \A a : ~At(c, M, Final(n), a)
    BY <2>1, ClearStep
  <2>3. ContentIn(c, n) = D
    BY <1>1, <2>1, <2>2, ContentIs
  <2> QED
    BY <1>2, <1>4, <2>1, <2>3
<1>8. CASE Replace(b, L, td, n, D, B)
  <2>1. /\ Len(td) = 2 /\ Clears(b, L, td[1], n) /\ NoFile \in B /\ Stores(L, td, Final(n))
        /\ D = DataIn(b, td[2].val)
    BY <1>8 DEF Replace
  <2>2. M = L /\ \A a : ~At(c, M, Final(n), a)
    BY <2>1, ClearStep
  <2>3. ContentIn(c, n) \in B
    BY <1>1, <2>1, <2>2, ContentIs
  <2> DEFINE t == Tail(td)
  <2>4. t # <<>> /\ Len(t) = 1 /\ t[1] = td[2]
    <3>1. /\ Len(t) = Len(td) - 1 /\ (Len(td) = 1 <=> t = <<>>)
          /\ Len(td) # 1 => t[Len(t)] = td[Len(td)]
      BY <1>2
    <3> HIDE DEF t
    <3> QED
      BY <2>1, <3>1
  <2> HIDE DEF t
  <2> DEFINE e == td[2].val
  <2>5. /\ td[2].use = "entry" /\ e \in EntrySet /\ e.active /\ e.name = Final(n)
        /\ Area(e) \subseteq L + 1 .. Blocks - 1
    BY <2>1 DEF Stores
  <2>6. D = DataIn(b, e)
    BY <2>1
  <2> HIDE DEF e
  <2>7. Area(e) = e.start .. e.start + e.size - 1 /\ e.start \in Nat /\ e.size \in Nat
    BY <2>5, AreaIs
  <2>8. \A i \in 1 .. e.size : c[e.start + i - 1] = b[e.start + i - 1]
    <3>1. /\ L \in Nat /\ Blocks \in Nat /\ td[1].addr \in FatStart .. L /\ FatStart = 2
          /\ \A x \in Addrs \ {td[1].addr} : c[x] = b[x]
      BY <2>1, TableEnd, Consts DEF Clears, Written
    <3>2. ASSUME NEW i \in 1 .. e.size
          PROVE  e.start + i - 1 \in Addrs \ {td[1].addr}
      <4>1. e.start + i - 1 \in e.start .. e.start + e.size - 1
        BY <2>7
      <4>2. e.start + i - 1 \in L + 1 .. Blocks - 1
        BY <2>5, <2>7, <4>1
      <4> QED
        BY <3>1, <4>2 DEF Addrs
    <3> QED
      BY <3>1, <3>2
  <2>9. \A i \in 1 .. e.size : D[i] = b[e.start + i - 1]
    BY <2>6 DEF DataIn
  <2>10. Stores(M, t, Final(n))
    BY <2>2, <2>4, <2>5 DEF Stores, e
  <2>11. Filling(c, t, D)
    <3>1. t[Len(t)].val = e /\ Len(t) - 1 = 0 /\ 0 <= e.size
      BY <2>4, <2>7 DEF e
    <3>2. \A i \in 1 .. e.size - 0 : c[e.start + i - 1] = D[i]
      BY <2>7, <2>8, <2>9
    <3>3. 1 .. 0 = {}
      OBVIOUS
    <3> QED
      BY <3>1, <3>2, <3>3 DEF Filling
  <2>12. D = [i \in 1 .. e.size |-> D[i]]
    BY <2>6 DEF DataIn
  <2>13. Fill(c, M, t, n, D)
    <3>1. \A i \in 1 .. Len(t) - 1 : FALSE
      BY <2>4
    <3>2. t[Len(t)].val = e
      BY <2>4 DEF e
    <3> QED
      BY <2>10, <2>11, <2>12, <3>1, <3>2 DEF Fill
  <2> QED
    BY <2>3, <2>4, <2>13 DEF Gives, t
<1> QED
  BY <1>5, <1>6, <1>7, <1>8 DEF Gives

\* The file of a create after one of its writes.
LEMMA TempStep ==
    ASSUME WellUsed, NEW b, IsDisk(b), NEW L, Table(b, L),
           NEW td \in Seq(Writes), td # <<>>, NEW c, NEW M, Written(b, L, td[1], c, M),
           NEW name, NEW data, NEW pos, pos \in 0 .. Len(data), Len(data) \in Nat,
           TempOK(b, L, td, name, data, pos)
    PROVE  TempOK(c, M, Tail(td), name, data, pos)
<1>2. /\ td[1] \in Writes /\ Len(td) \in Nat \ {0} /\ Tail(td) \in Seq(Writes)
      /\ Len(td) = 1 <=> Tail(td) = <<>>
      /\ Len(td) # 1 => Tail(td)[Len(Tail(td))] = td[Len(td)]
  BY TailIs
<1>3. M \in {L, L + 1} /\ L \in Nat /\ FatStart = 2
  BY TableEnd, Consts DEF Written
<1>4. CASE pos = 0 /\ Stores(L, td, name) /\ td[Len(td)].val = Entry(name, 0, 0)
  <2> DEFINE e == td[Len(td)].val
  <2>1. e \in EntrySet /\ e.active /\ e.name = name /\ td[Len(td)].use = "entry"
    BY <1>4 DEF Stores
  <2>2. e.size = 0
    BY <1>4 DEF Entry
  <2>3. Area(e) = {}
    <3>1. e.start \in Nat
      BY <2>1, AreaIs
    <3> QED
      BY <1>4, <2>2, <3>1 DEF Area, Entry
  <2>4. CASE Len(td) # 1
    <3>1. Tail(td) # <<>> /\ Tail(td)[Len(Tail(td))] = td[Len(td)]
      BY <1>2, <2>4
    <3>2. Stores(M, Tail(td), name)
      BY <2>1, <2>3, <3>1 DEF Stores
    <3> QED
      BY <1>4, <3>1, <3>2 DEF TempOK
  <2>5. CASE Len(td) = 1
    <3>1. e = td[1].val /\ td[1].use = "entry" /\ Tail(td) = <<>>
      BY <1>2, <2>1, <2>5
    <3> HIDE DEF e
    <3>2. EntryIn(c, td[1].addr) = e /\ td[1].addr \in FatStart .. L
      BY <3>1 DEF Written
    <3>3. td[1].addr \in FatStart .. M
      BY <1>3, <3>2
    <3>4. At(c, M, name, td[1].addr)
      BY <2>1, <3>2, <3>3 DEF At
    <3>5. 0 \in 0 .. Len(data) /\ 1 .. 0 = {}
      OBVIOUS
    <3>6. Kept(c, M, name, data, td[1].addr, pos, pos)
      BY <1>4, <2>2, <3>2, <3>4, <3>5 DEF Kept
    <3> QED
      BY <3>1, <3>6 DEF TempOK
  <2> QED
    BY <2>4, <2>5
<1>5. CASE Stores(L, td, name) /\ td[Len(td)].val.size = pos /\ Filling(b, td, data)
  <2>1. CASE Len(td) # 1
    <3>1. Stores(M, Tail(td), name) /\ Filling(c, Tail(td), data) /\ Tail(td) # <<>>
          /\ Tail(td)[Len(Tail(td))] = td[Len(td)]
      BY <1>2, <1>5, <2>1, FillingStep
    <3> QED
      BY <1>5, <3>1 DEF TempOK
  <2>2. CASE Len(td) = 1
    <3>1. /\ At(c, M, name, td[1].addr) /\ EntryIn(c, td[1].addr) = td[1].val
          /\ \A i \in 1 .. td[1].val.size : c[td[1].val.start + i - 1] = data[i]
      <4>1. Stored(c, M, td[1], name, data)
        BY <1>5, <2>2, FillingStep
      <4> QED
        BY <4>1 DEF Stored
    <3>2. td[1].val.size = pos /\ pos \in pos .. Len(data)
      BY <1>5, <2>2
    <3>3. Kept(c, M, name, data, td[1].addr, pos, pos)
      BY <3>1, <3>2 DEF Kept
    <3> QED
      BY <1>2, <2>2, <3>3 DEF TempOK
  <2> QED
    BY <2>1, <2>2
<1>6. CASE \E a : /\ PlaceAt(b, L, td, name, a, pos) /\ Kept(b, L, name, data, a, pos - 1, pos)
                  /\ td[1].val = data[pos]
  <2>1. PICK a : /\ PlaceAt(b, L, td, name, a, pos) /\ Kept(b, L, name, data, a, pos - 1, pos)
                 /\ td[1].val = data[pos]
    BY <1>6
  <2> DEFINE e == EntryIn(b, a)
  <2>2. /\ Tail(td) = <<>> /\ At(c, M, name, a) /\ EntryIn(c, a) = e
        /\ e.size \in Nat /\ e.start \in Nat
        /\ \A i \in 1 .. e.size :
              c[e.start + i - 1] = IF i = pos THEN td[1].val ELSE b[e.start + i - 1]
    <3>1. Tail(td) = <<>> /\ Placed(b, td[1], name, a, pos, c, M)
      BY <2>1, PlaceStep
    <3> QED
      BY <3>1 DEF Placed
  <2>3. e.size \in pos .. Len(data) /\ \A i \in 1 .. pos - 1 : b[e.start + i - 1] = data[i]
    BY <2>1 DEF Kept
  <2> HIDE DEF e
  <2>4. ASSUME NEW i \in 1 .. pos PROVE c[e.start + i - 1] = data[i]
    <3>1. i \in 1 .. e.size /\ (i # pos => i \in 1 .. pos - 1)
      BY <2>2, <2>3
    <3> QED
      BY <2>1, <2>2, <2>3, <3>1
  <2>5. Kept(c, M, name, data, a, pos, pos)
    BY <2>2, <2>3, <2>4 DEF Kept
  <2> QED
    BY <2>2, <2>5 DEF TempOK
<1> QED
  BY <1>4, <1>5, <1>6 DEF TempOK

\* The next write of an operation.
LEMMA HeadForm ==
    ASSUME WellUsed, NEW b, NEW L, NEW td \in Seq(Writes), td # <<>>,
           NEW h, NEW o, o.kind \in FileOps, Static(h, o), FileOpOK(b, L, td, h, o)
    PROVE  WriteForm(b, L, td[1])
<1>0. Len(td) \in Nat \ {0}
  BY TailIs
<1>1. Storing(b, L, td) => WriteForm(b, L, td[1])
  <2>1. ASSUME Storing(b, L, td), Len(td) = 1 PROVE WriteForm(b, L, td[1])
    BY <2>1 DEF Storing, WriteForm
  <2>2. ASSUME Storing(b, L, td), Len(td) # 1 PROVE WriteForm(b, L, td[1])
    <3>1. \A k \in Nat \ {0} : k # 1 => 1 \in 1 .. k - 1
      OBVIOUS
    <3>2. 1 \in 1 .. Len(td) - 1
      BY <1>0, <2>2, <3>1, Zenon
    <3> QED
      BY <2>2, <3>2 DEF Storing, WriteForm
  <2> QED
    BY <2>1, <2>2
<1>2. Placing(L, td) \/ Extending(b, L, td) \/ Growing(b, L, td) => WriteForm(b, L, td[1])
  BY DEF Placing, Extending, Growing, WriteForm
<1>3. Replacing(b, L, td) => WriteForm(b, L, td[1])
  <2> SUFFICES ASSUME Replacing(b, L, td) PROVE WriteForm(b, L, td[1])
    OBVIOUS
  <2>1. /\ td[1].addr \in FatStart .. L - 1 /\ td[1].val = Cleared /\ td[1].use = "entry"
    BY DEF Replacing
  <2>2. ASSUME NEW e PROVE Apart(Cleared, e)
    BY Kinds DEF Apart
  <2>3. Fits(b, L, td[1].addr, Cleared)
    BY <2>2, Kinds DEF Fits
  <2> QED
    BY <2>1, <2>3 DEF StoreOK, WriteForm
<1>4. Moving(b, L, td) => WriteForm(b, L, td[1])
  BY <1>1, <1>2 DEF Moving
<1>5. CASE o.kind = "create"
  <2>1. CASE o.stage = "write"
    BY <1>1, <1>2, <1>4, <1>5, <2>1 DEF FileOpOK, CreatingOK
  <2>2. CASE o.stage = "rename"
    BY <1>1, <1>3, <1>5, <2>2 DEF FileOpOK, RenamingOK
  <2>3. CASE o.stage = "undo"
    BY <1>5, <2>3 DEF FileOpOK
  <2>4. CASE o.stage = "undoing"
    BY <1>1, <1>2, <1>5, <2>4 DEF FileOpOK, UndoingOK
  <2> QED
    BY <1>5, <2>1, <2>2, <2>3, <2>4 DEF Static
<1>6. CASE o.kind \in {"write", "truncate"}
  BY <1>4, <1>6 DEF FileOpOK, UpdateOK
<1>7. CASE o.kind \in {"rename", "remove"}
  BY <1>1, <1>7 DEF FileOpOK, SwitchOK
<1> QED
  BY <1>5, <1>6, <1>7 DEF FileOps

\* The contents after the next write of an operation.
PosOK(o) == o.kind = "create" => o.pos \in 0 .. Len(o.data) /\ Len(o.data) \in Nat
Follows(b, c, o) ==
    /\ \A n \in DOMAIN o.new : ContentIn(c, n) \in o.before[n] \cup o.mid \cup {o.new[n]}
    /\ \A n \in Names \ DOMAIN o.new : ContentIn(c, n) = ContentIn(b, n)

LEMMA OpDataStep ==
    ASSUME WellUsed, NEW b, IsDisk(b), NEW L, Table(b, L), b[0] = Partition,
           NEW td \in Seq(Writes), td # <<>>, NEW c, NEW M, Written(b, L, td[1], c, M),
           NEW o, OpData(b, L, td, o), PosOK(o)
    PROVE  OpData(c, M, Tail(td), o) /\ Follows(b, c, o)
<1>1. Table(c, M) /\ c[0] = Partition
  BY DEF Written
<1>2. ASSUME NEW n, Quietly(b, L, td, Final(n))
      PROVE  ContentIn(c, n) = ContentIn(b, n) /\ Quietly(c, M, Tail(td), Final(n))
  <2>1. Untouched(b, L, c, M, Final(n)) /\ Quietly(c, M, Tail(td), Final(n))
    BY <1>2, QuietTail
  <2> QED
    BY <1>1, <2>1, SameContent
<1>3. ASSUME NEW n \in DOMAIN o.new, Settles(o)
      PROVE  /\ Gives(c, M, Tail(td), n, o.new[n], o.before[n] \cup o.mid)
             /\ ContentIn(c, n) \in o.before[n] \cup o.mid \cup {o.new[n]}
  <2>1. Gives(b, L, td, n, o.new[n], o.before[n] \cup o.mid)
    BY <1>3 DEF OpData
  <2> DEFINE D == o.new[n]
             B == o.before[n] \cup o.mid
  <2>2. Gives(b, L, td, n, D, B)
    BY <2>1
  <2> HIDE DEF D, B
  <2>3. Gives(c, M, Tail(td), n, D, B) /\ ContentIn(c, n) \in B \cup {D}
    BY <2>2, GivesStep
  <2> QED
    BY <2>3 DEF D, B
<1>4. ASSUME NEW n \in DOMAIN o.new, ~Settles(o)
      PROVE  ContentIn(c, n) \in o.before[n] \cup o.mid /\ Quietly(c, M, Tail(td), Final(n))
  <2>1. ContentIn(b, n) \in o.before[n] \cup o.mid /\ Quietly(b, L, td, Final(n))
    BY <1>4 DEF OpData
  <2> QED
    BY <1>2, <2>1
<1>5. ASSUME NEW n \in Names \ DOMAIN o.new
      PROVE  ContentIn(c, n) = ContentIn(b, n) /\ Quietly(c, M, Tail(td), Final(n))
  BY <1>2 DEF OpData
<1>6. ASSUME o.kind = "create", o.stage = "write"
      PROVE  TempOK(c, M, Tail(td), Temporary(o.obj), o.data, o.pos)
  <2>1. TempOK(b, L, td, Temporary(o.obj), o.data, o.pos)
    BY <1>6 DEF OpData
  <2> QED
    BY <1>6, <2>1, TempStep DEF PosOK
<1>7. OpData(c, M, Tail(td), o)
  BY <1>3, <1>4, <1>5, <1>6 DEF OpData
<1>8. ASSUME NEW n \in DOMAIN o.new
      PROVE  ContentIn(c, n) \in o.before[n] \cup o.mid \cup {o.new[n]}
  BY <1>3, <1>4
<1> QED
  BY <1>5, <1>7, <1>8 DEF Follows

\* There are no files before and after a format.
LEMMA FormatContent ==
    ASSUME WellUsed, NEW b, IsDisk(b), NEW td \in Seq(Writes), td # <<>>, FormatOK(b, td), NEW n
    PROVE  ContentIn(b, n) = NoFile /\ ContentIn(Apply(b, Head(td)), n) = NoFile
<1> DEFINE c == Apply(b, Head(td))
           r2 == [addr |-> 0, val |-> Partition, use |-> "partition"]
<1>0. 0 \in Addrs /\ FatStart # 0 /\ FatStart = 2 /\ FatStart \in Addrs
  BY Consts DEF Addrs, WellUsed
<1>1. Plain(b)
  BY DEF FormatOK
<1>2. \A d : Plain(d) => d[0] # Partition
  BY <1>0, Kinds DEF Plain
<1>3. \A d : Plain(d) => ContentIn(d, n) = NoFile
  BY <1>2 DEF ContentIn
<1>4. Disk(c)
  BY FormatStep
<1>5. CASE td = FormatTodo
  <2>1. Head(td) = [addr |-> FatStart, val |-> LastEntry, use |-> "entry"]
    BY <1>5 DEF FormatTodo
  <2>2. c[0] = b[0]
    BY <1>0, <2>1, ApplyIs, Kinds
  <2>3. c[0] # Partition
    BY <1>1, <1>2, <2>2
  <2> QED
    BY <1>1, <1>3, <2>3 DEF ContentIn
<1>6. CASE td = Tail(FormatTodo)
  <2>1. td = <<r2>>
    BY <1>6 DEF FormatTodo
  <2>2. Head(td) = r2
    BY <2>1
  <2>3. /\ IsDisk(c) /\ c[0] = Partition /\ \A a \in Addrs \ {0} : c[a] = b[a]
    BY <1>0, <2>2, ApplyIs, Kinds
  <2> HIDE DEF c
  <2> DEFINE L == LastIn(c)
  <2>4. Table(c, L) /\ FatStart .. L \subseteq Addrs
    BY <1>4, <2>3, DiskTable, TableEnd
  <2> HIDE DEF L
  <2>5. ASSUME NEW a, At(c, L, Final(n), a) PROVE FALSE
    <3>1. a \in FatStart .. L /\ EntryIn(c, a).active
      BY <2>5 DEF At
    <3>2. a \in Addrs \ {0}
      BY <1>0, <2>4, <3>1
    <3>3. c[a] = Blank \/ c[a] = LastEntry
      BY <1>1, <2>3, <3>2 DEF Plain
    <3>4. ~EntryIn(c, a).active
      BY <3>3, Kinds DEF EntryIn
    <3> QED
      BY <3>1, <3>4
  <2>6. ContentIn(c, n) = NoFile
    BY <2>3, <2>4, <2>5, ContentIs
  <2> QED
    BY <1>1, <1>3, <2>6 DEF c
<1> QED
  BY <1>5, <1>6 DEF FormatOK

\* The contents when the request that is being made is taken.
LEMMA ReqData ==
    ASSUME WellUsed, Inv, DurInv, todo # <<>>, Fresh
    PROVE  /\ \A n \in Names : ContentIn(Apply(blk, Req), n) \in allowed[n]
           /\ op.kind \in FileOps =>
                 OpData(Apply(blk, Req), LastIn(Apply(blk, Req)), Tail(todo), op)
<1> DEFINE L == LastIn(blk)
           c == Apply(blk, Head(todo))
<1>1. /\ Apply(blk, Req) = c /\ todo \in Seq(Writes) /\ Live /\ IsDisk(blk) /\ Disk(blk)
      /\ op.kind \in FileOps \cup {"setup"} /\ Head(todo) = todo[1]
  BY ReqIs, TailIs DEF Inv, Types, Live, Disk
<1>2. CASE op.kind \in FileOps
  <2>1. /\ Static(fh, op) /\ FileOpOK(blk, L, todo, fh, op) /\ blk[0] = Partition
    BY <1>1, <1>2 DEF Inv, OpOK
  <2>2. Table(blk, L)
    BY <1>1, <2>1, DiskTable
  <2> HIDE DEF L
  <2>3. WriteForm(blk, L, todo[1])
    BY <1>1, <1>2, <2>1, HeadForm
  <2>4. Written(blk, L, todo[1], c, LastIn(c))
    BY <1>1, <2>2, <2>3, WriteEffect
  <2>5. History(op) /\ OpData(blk, L, todo, op)
    BY <1>1, <1>2 DEF DurInv, L
  <2> DEFINE M == LastIn(c)
  <2> HIDE DEF c
  <2>6. PosOK(op)
    <3>1. 1 .. 2 \subseteq Nat
      OBVIOUS
    <3> QED
      BY <2>1, <3>1, DataSeqsAre DEF Static, PosOK
  <2>7. Written(blk, L, todo[1], c, M)
    BY <2>4 DEF c
  <2> HIDE DEF M
  <2>8. OpData(c, M, Tail(todo), op) /\ Follows(blk, c, op)
    BY <1>1, <2>1, <2>2, <2>5, <2>6, <2>7, OpDataStep
  <2>9. ASSUME NEW n \in Names PROVE ContentIn(c, n) \in allowed[n]
    <3>1. CASE n \in DOMAIN op.new
      <4>1. op.before[n] \cup op.mid \cup {op.new[n]} \subseteq allowed[n]
        BY <2>5, <3>1 DEF History
      <4> QED
        BY <2>8, <3>1, <4>1 DEF Follows
    <3>2. CASE n \notin DOMAIN op.new
      BY <2>8, <3>2 DEF DurInv, Follows
    <3> QED
      BY <3>1, <3>2
  <2> QED
    BY <1>1, <2>8, <2>9 DEF c, M
<1>3. CASE op.kind = "setup"
  <2>1. SetupOK /\ op.kind \notin FileOps
    BY <1>3 DEF Inv, OpOK, FileOps
  <2>2. CASE op.stage = "dummy"
    <3>1. todo[1].addr = 0 /\ todo[1].val = blk[0]
      BY <2>1, <2>2 DEF SetupOK
    <3>2. c = blk
      BY <1>1, <3>1 DEF Apply, IsDisk
    <3> QED
      BY <1>1, <2>1, <3>2 DEF DurInv
  <2>3. CASE op.stage = "format"
    <3>1. FormatOK(blk, todo)
      BY <1>1, <2>1, <2>3 DEF SetupOK
    <3>2. ASSUME NEW n \in Names PROVE ContentIn(c, n) = ContentIn(blk, n)
      BY <1>1, <3>1, FormatContent
    <3> QED
      BY <1>1, <2>1, <3>2 DEF DurInv
  <2> QED
    BY <2>1, <2>2, <2>3 DEF SetupOK
<1> QED
  BY <1>1, <1>2, <1>3

----------------------------------------------------------------------------
(* The contents and the requests *)

LEMMA TryAgainData ==
    ASSUME WellUsed, Inv, DurInv, todo # <<>>, TryAgain,
           (cnt' = cnt /\ blk' = blk) \/ cnt' = cnt + 1,
           \A n \in Names : ContentIn(blk', n) \in allowed[n],
           \A h \in held' : \A n \in Names : ContentIn(Apply(blk', h), n) \in allowed[n]
    PROVE  DurInv'
<1>0. cnt \in Nat /\ Req.cnt \in 0 .. cnt /\ retry \in Nat /\ allowed' = allowed
  BY ReqIs, HeldIs DEF TryAgain
<1>1. CASE retry + 1 < MaxRetries
  <2>1. /\ retry' = retry + 1 /\ ram' = [ram EXCEPT !.wr_cnt = Req.cnt, !.synced = FALSE]
        /\ op' = op /\ todo' = todo
    BY <1>1 DEF TryAgain
  <2>2. ram'.wr_cnt = Req.cnt /\ retry' # 0
    BY <1>0, <2>1, RamTypes
  <2>3. Req'.cnt = Req.cnt
    BY <2>2 DEF Req
  <2>4. Fresh' => Fresh /\ blk' = blk
    BY <1>0, <2>3 DEF Fresh
  <2>5. Live' => Live /\ blk' = blk
    BY <2>1, <2>4 DEF Live
  <2>6. History(op)' <=> History(op)
    BY <1>0, <2>1 DEF History
  <2> QED
    BY <1>0, <2>1, <2>5, <2>6 DEF DurInv
<1>2. CASE ~(retry + 1 < MaxRetries)
  <2>1. op'.kind \notin FileOps
    BY <1>2, IdleTypes DEF TryAgain
  <2> QED
    BY <1>0, <2>1 DEF DurInv
<1> QED
  BY <1>1, <1>2

LEMMA SendOkData ==
    ASSUME WellUsed, Inv, DurInv, SendOk
    PROVE  DurInv'
<1>1. todo # <<>> /\ Commit(Req) /\ Answered
  BY DEF SendOk, Sending
<1>2. Fresh /\ held' = {} /\ blk' = Apply(blk, Req)
  BY <1>1, CommitIs DEF Fresh
<1>3. op' = op /\ todo' = Tail(todo) /\ allowed' = allowed
  BY <1>1 DEF Answered
<1>4. /\ \A n \in Names : ContentIn(blk', n) \in allowed[n]
      /\ op.kind \in FileOps => OpData(blk', LastIn(blk'), Tail(todo), op)
  BY <1>1, <1>2, ReqData
<1>5. op.kind \in FileOps => History(op)'
  BY <1>3 DEF DurInv, History
<1> QED
  BY <1>2, <1>3, <1>4, <1>5 DEF DurInv

LEMMA SendRefusedData ==
    ASSUME WellUsed, Inv, DurInv, SendRefused
    PROVE  DurInv'
<1>1. todo # <<>> /\ TryAgain /\ cnt' = cnt /\ blk' = blk /\ held' = held
  BY DEF SendRefused, Sending, Untaken
<1> QED
  BY <1>1, TryAgainData DEF DurInv

LEMMA SendLostData ==
    ASSUME WellUsed, Inv, DurInv, SendLost
    PROVE  DurInv'
<1>1. /\ todo # <<>> /\ TryAgain /\ cnt' = cnt /\ blk' = blk
      /\ held' = held \cup {r \in {Req} : r.cnt = cnt}
  BY DEF SendLost, Sending, Untaken
<1>2. Req.cnt = cnt => \A n \in Names : ContentIn(Apply(blk, Req), n) \in allowed[n]
  BY <1>1, ReqData DEF Fresh
<1>3. \A h \in held' : \A n \in Names : ContentIn(Apply(blk', h), n) \in allowed[n]
  BY <1>1, <1>2 DEF DurInv
<1>4. \A n \in Names : ContentIn(blk', n) \in allowed[n]
  BY <1>1 DEF DurInv
<1> QED
  BY <1>1, <1>3, <1>4, TryAgainData

LEMMA AnswerLostData ==
    ASSUME WellUsed, Inv, DurInv, AnswerLost
    PROVE  DurInv'
<1>1. todo # <<>> /\ TryAgain /\ Commit(Req)
  BY DEF AnswerLost, Sending
<1>2. Fresh /\ cnt' = cnt + 1 /\ held' = {} /\ blk' = Apply(blk, Req)
  BY <1>1, CommitIs DEF Fresh
<1>3. \A n \in Names : ContentIn(blk', n) \in allowed[n]
  BY <1>1, <1>2, ReqData
<1> QED
  BY <1>1, <1>2, <1>3, TryAgainData

LEMMA SendSwappedData ==
    ASSUME WellUsed, Inv, DurInv, SendSwapped
    PROVE  DurInv'
<1>1. PICK h \in held \ {Req} :
        /\ Commit(h)
        /\ IF h.addr = Req.addr /\ h.cnt = Req.cnt THEN Answered ELSE TryAgain
  BY DEF SendSwapped
<1>2. todo # <<>> /\ Dummy
  BY HeldIs DEF SendSwapped, Sending
<1>3. cnt' = cnt + 1 /\ held' = {} /\ blk' = Apply(blk, h)
  BY <1>1, CommitIs
<1>4. \A n \in Names : ContentIn(blk', n) \in allowed[n]
  BY <1>3 DEF DurInv
<1>5. CASE Answered
  <2>1. op'.kind \notin FileOps /\ allowed' = allowed
    BY <1>2, <1>5 DEF Answered, Dummy, FileOps
  <2> QED
    BY <1>3, <1>4, <2>1 DEF DurInv
<1>6. CASE TryAgain
  BY <1>2, <1>3, <1>4, <1>6, TryAgainData
<1> QED
  BY <1>1, <1>5, <1>6

LEMMA LateData ==
    ASSUME WellUsed, Inv, DurInv, Late
    PROVE  DurInv'
<1>1. PICK h \in held : Commit(h)
  BY DEF Late
<1>2. /\ ram' = ram /\ fh' = fh /\ op' = op /\ todo' = todo /\ retry' = retry /\ allowed' = allowed
  BY DEF Late
<1>3. h.cnt = cnt /\ cnt' = cnt + 1 /\ held' = {} /\ blk' = Apply(blk, h)
  BY <1>1, CommitIs
<1>4. \A n \in Names : ContentIn(blk', n) \in allowed'[n]
  BY <1>2, <1>3 DEF DurInv
<1>5. ASSUME op.kind \in FileOps PROVE ~Live'
  <2>1. ~Dummy /\ ram.par /\ ~ram.dead /\ op.kind # "idle"
    BY <1>5 DEF Dummy, FileOps, Inv, OpOK
  <2>2. retry > 0 /\ todo # <<>>
    BY <1>1, <2>1, HeldIs DEF Inv, CountOK
  <2>3. h = Req /\ retry # 0 /\ cnt \in Nat
    BY <1>1, <2>1, <2>2, HeldIs, ReqIs
  <2>4. Req'.cnt = Req.cnt
    BY <1>2, <2>3 DEF Req
  <2> QED
    BY <1>2, <1>3, <2>2, <2>3, <2>4 DEF Live, Fresh
<1>6. op.kind \in FileOps => History(op)'
  BY <1>2 DEF DurInv, History
<1> QED
  BY <1>2, <1>3, <1>4, <1>5, <1>6 DEF DurInv

\* No operation is under way, or begins, and the disk is left alone.
LEMMA IdleData ==
    ASSUME WellUsed, Inv, DurInv, blk' = blk, held' = held, allowed' = allowed, op'.kind \notin FileOps
    PROVE  DurInv'
BY DEF DurInv

\* An operation ends.
LEMMA EndData ==
    ASSUME WellUsed, Inv, DurInv, ram.par, ~ram.dead, retry = 0, blk' = blk, held' = held, op' = Idle,
           \A n \in Names : ContentIn(blk, n) \in allowed'[n]
    PROVE  DurInv'
<1>1. held = {}
  BY Steady
<1> QED
  BY <1>1, IdleTypes DEF DurInv

LEMMA SucceedData ==
    ASSUME WellUsed, Inv, DurInv, op.kind \in FileOps, todo = <<>>, Settles(op), Succeed,
           blk' = blk, held' = held
    PROVE  DurInv'
<1>1. ram.par /\ ~ram.dead /\ retry = 0
  BY Between
<1>2. Live
  BY DEF Live
<1>3. OpData(blk, LastIn(blk), todo, op)
  BY <1>2 DEF DurInv
<1>4. op' = Idle /\ allowed' = [n \in Names |-> IF n \in DOMAIN op.new THEN {op.new[n]} ELSE allowed[n]]
  BY DEF Succeed
<1>5. ASSUME NEW n \in Names PROVE ContentIn(blk, n) \in allowed'[n]
  <2>1. CASE n \in DOMAIN op.new
    <3>1. ContentIn(blk, n) = op.new[n]
      BY <1>3, <2>1 DEF OpData, Gives
    <3> QED
      BY <1>4, <2>1, <3>1
  <2>2. CASE n \notin DOMAIN op.new
    BY <1>4, <2>2 DEF DurInv
  <2> QED
    BY <2>1, <2>2
<1> QED
  BY <1>1, <1>4, <1>5, EndData

\* The contents before the operation, as long as it has writes left, or is given up.
LEMMA OldData ==
    ASSUME WellUsed, Inv, DurInv, op.kind \in FileOps, retry = 0, todo # <<>> \/ ~Settles(op),
           NEW n \in DOMAIN op.new
    PROVE  ContentIn(blk, n) \in op.before[n] \cup op.mid
<1>1. ram.par /\ ~ram.dead
  BY DEF Inv, OpOK
<1>2. Live
  BY <1>1, Steady
<1>3. OpData(blk, LastIn(blk), todo, op)
  BY <1>2 DEF DurInv
<1> QED
  BY <1>3 DEF OpData, Gives

LEMMA FailData ==
    ASSUME WellUsed, Inv, DurInv, op.kind \in FileOps, retry = 0, todo # <<>> \/ ~Settles(op), Fail,
           blk' = blk, held' = held
    PROVE  DurInv'
<1>1. ram.par /\ ~ram.dead
  BY DEF Inv, OpOK
<1>2. /\ op' = Idle
      /\ allowed' = [n \in Names |-> IF n \in DOMAIN op.new THEN op.before[n] \cup op.mid ELSE allowed[n]]
  BY DEF Fail
<1>3. ASSUME NEW n \in Names PROVE ContentIn(blk, n) \in allowed'[n]
  <2>1. CASE n \in DOMAIN op.new
    BY <1>2, <2>1, OldData
  <2>2. CASE n \notin DOMAIN op.new
    BY <1>2, <2>2 DEF DurInv
  <2> QED
    BY <2>1, <2>2
<1> QED
  BY <1>1, <1>2, <1>3, EndData

\* A create is given up.
LEMMA UndoData ==
    ASSUME WellUsed, Inv, DurInv, op.kind = "create", retry = 0, todo # <<>> \/ ~Settles(op),
           op' = [op EXCEPT !.stage = "undo"], todo' = <<>>, allowed' = allowed,
           blk' = blk, held' = held
    PROVE  DurInv'
<1>1. op.kind \in FileOps /\ OpForm(op)
  BY DEF FileOps, Inv, Types
<1>2. /\ op'.kind = "create" /\ op'.stage = "undo" /\ op'.new = op.new /\ op'.before = op.before
      /\ op'.mid = op.mid /\ op'.obj = op.obj /\ op'.data = op.data
  BY <1>1, StageIs
<1>3. History(op) /\ \A n \in DOMAIN op.new : ContentIn(blk, n) \in op.before[n] \cup op.mid
  BY <1>1, OldData DEF DurInv
<1>4. ~Settles(op')
  BY <1>2 DEF Settles
<1>5. \A L, name : Quietly(blk, L, <<>>, name)
  BY DEF Quietly
<1>6. OpData(blk, LastIn(blk), <<>>, op')
  BY <1>2, <1>3, <1>4, <1>5 DEF OpData
<1>7. History(op)'
  BY <1>2, <1>3 DEF History
<1> QED
  BY <1>6, <1>7 DEF DurInv

LEMMA UnsentData ==
    ASSUME WellUsed, Inv, DurInv, Unsent
    PROVE  DurInv'
<1>1. /\ todo # <<>> /\ retry = 0 /\ OpFails /\ todo' = <<>> /\ blk' = blk /\ held' = held
  BY DEF Unsent, Sending
<1>2. CASE op.kind = "setup"
  <2>1. op' = Idle /\ allowed' = allowed
    BY <1>1, <1>2 DEF OpFails
  <2> QED
    BY <1>1, <2>1, IdleData, IdleTypes
<1>3. CASE op.kind = "create" /\ op.stage # "undoing"
  <2>1. op' = [op EXCEPT !.stage = "undo"] /\ allowed' = allowed
    BY <1>1, <1>3 DEF OpFails
  <2> QED
    BY <1>1, <1>3, <2>1, UndoData
<1>4. CASE op.kind \in FileOps /\ Fail
  BY <1>1, <1>4, FailData
<1> QED
  BY <1>1, <1>2, <1>3, <1>4 DEF OpFails, FileOps

LEMMA PowerCutData ==
    ASSUME WellUsed, Inv, DurInv, PowerCut
    PROVE  DurInv'
BY IdleData, IdleTypes DEF PowerCut

----------------------------------------------------------------------------
(* The contents and the operations *)

\* What the model reads on the disk.
LEMMA ContentReads ==
    ASSUME WellUsed, Inv, NEW n
    PROVE  Content(n) = ContentIn(blk, n)
<1> DEFINE L == LastIn(blk)
           M == Matching(Final(n))
           x == Min(M)
<1>1. CASE blk[0] # Partition
  BY <1>1 DEF Content, ContentIn
<1>2. CASE blk[0] = Partition
  <2>1. Table(blk, L) /\ IsDisk(blk)
    BY <1>2, DiskTable DEF Inv
  <2> HIDE DEF L
  <2>2. Fat = FatStart .. L /\ \A a : EntryAt(a) = EntryIn(blk, a)
    BY <2>1, Reads
  <2>3. \A a : a \in M <=> At(blk, L, Final(n), a)
    BY <2>2 DEF Matching, At
  <2>4. CASE M = {}
    <3>1. Content(n) = NoFile
      BY <2>4 DEF Content
    <3>2. \A a : ~At(blk, L, Final(n), a)
      BY <2>3, <2>4
    <3> QED
      BY <1>2, <2>1, <3>1, <3>2, ContentIs
  <2>5. CASE M # {}
    <3>1. x \in M
      <4>1. M \subseteq Nat
        BY <2>1, <2>2, TableEnd, Consts DEF Matching
      <4> HIDE DEF M
      <4> QED
        BY <2>5, <4>1, MinIs
    <3>2. Content(n) = DataOf(EntryAt(x))
      BY <1>2, <2>5 DEF Content
    <3> HIDE DEF M, x
    <3>3. ContentIn(blk, n) = DataIn(blk, EntryIn(blk, x))
      BY <1>2, <2>1, <2>3, <3>1, ContentIs
    <3> QED
      BY <2>2, <3>2, <3>3 DEF DataOf, DataIn
  <2> QED
    BY <2>4, <2>5
<1> QED
  BY <1>1, <1>2

LEMMA SetupData ==
    ASSUME WellUsed, Inv, DurInv, Setup
    PROVE  DurInv'
<1>1. /\ blk' = blk /\ held' = held /\ allowed' = allowed
      /\ op' = [Idle EXCEPT !.kind = "setup", !.stage = "dummy"]
  BY DEF Setup
<1>2. op'.kind = "setup"
  BY <1>1 DEF Idle
<1> QED
  BY <1>1, <1>2, IdleData DEF FileOps

LEMMA SetupEndsData ==
    ASSUME WellUsed, Inv, DurInv, op.kind = "setup", todo = <<>>, SetupEnds, blk' = blk, held' = held
    PROVE  DurInv'
<1>1. held = {}
  BY SetupIs
<1>2. op' = Idle /\ allowed' = [n \in Names |-> {Content(n)}]
  BY DEF SetupEnds
<1>3. \A n \in Names : ContentIn(blk, n) \in allowed'[n]
  BY <1>2, ContentReads
<1> QED
  BY <1>1, <1>2, <1>3, IdleTypes DEF DurInv

LEMMA SetupDummyDoneData ==
    ASSUME WellUsed, Inv, DurInv, SetupDummyDone
    PROVE  DurInv'
<1>1. op.kind = "setup" /\ todo = <<>> /\ blk' = blk /\ held' = held
  BY DEF SetupDummyDone
<1>2. CASE SetupEnds
  BY <1>1, <1>2, SetupEndsData
<1>3. CASE op' = [op EXCEPT !.stage = "format"] /\ allowed' = allowed
  <2>1. OpForm(op)
    BY DEF Inv, Types
  <2>2. op'.kind = "setup"
    BY <1>1, <1>3, <2>1, StageIs
  <2> QED
    BY <1>1, <1>3, <2>2, IdleData DEF FileOps
<1> QED
  BY <1>2, <1>3 DEF SetupDummyDone

LEMMA SetupFormatDoneData ==
    ASSUME WellUsed, Inv, DurInv, SetupFormatDone
    PROVE  DurInv'
BY SetupEndsData DEF SetupFormatDone

LEMMA OpenCloseData ==
    ASSUME WellUsed, Inv, DurInv, Close \/ \E n \in Names : Open(n)
    PROVE  DurInv'
<1>1. blk' = blk /\ held' = held /\ allowed' = allowed /\ op' = Idle
  BY DEF Close, Open, Device, Ready
<1> QED
  BY <1>1, IdleData, IdleTypes

LEMMA OpDoneData ==
    ASSUME WellUsed, Inv, DurInv, OpDone
    PROVE  DurInv'
<1>1. /\ op.kind \in {"write", "truncate", "rename", "remove"} /\ todo = <<>> /\ Succeed
      /\ blk' = blk /\ held' = held
  BY DEF OpDone, Device
<1>2. op.kind \in FileOps /\ Settles(op)
  BY <1>1 DEF FileOps, Settles
<1> QED
  BY <1>1, <1>2, SucceedData

LEMMA CreateDoneData ==
    ASSUME WellUsed, Inv, DurInv, CreateDone
    PROVE  DurInv'
<1>1. /\ op.kind = "create" /\ op.stage = "rename" /\ todo = <<>> /\ Succeed
      /\ blk' = blk /\ held' = held
  BY DEF CreateDone, CreateAt, Device
<1>2. op.kind \in FileOps /\ Settles(op)
  BY <1>1 DEF FileOps, Settles
<1> QED
  BY <1>1, <1>2, SucceedData

LEMMA CreateFailsData ==
    ASSUME WellUsed, Inv, DurInv, CreateFails
    PROVE  DurInv'
<1>1. /\ op.kind = "create" /\ op.stage \in {"undo", "undoing"} /\ todo = <<>> /\ Fail
      /\ blk' = blk /\ held' = held
  BY DEF CreateFails, CreateAt, Device
<1>2. op.kind \in FileOps /\ ~Settles(op)
  BY <1>1 DEF FileOps, Settles
<1>3. retry = 0
  BY <1>1, <1>2, Between
<1> QED
  BY <1>1, <1>2, <1>3, FailData

\* An operation begins.
LEMMA BegunIs ==
    ASSUME NEW o, OpForm(o), NEW new, Begin(o, new)
    PROVE  op'.new = new /\ op'.before = allowed /\ op'.mid = o.mid
BY DEF OpForm, Begin

LEMMA BeginData ==
    ASSUME WellUsed, Inv, DurInv, Ready, blk' = blk, held' = held,
           NEW o, OpForm(o), o.mid = {}, o.kind \in FileOps, NEW new, Begin(o, new),
           DOMAIN new \subseteq Names,
           o.kind = "create" => /\ new = [m \in {o.obj} |-> o.data]
                                /\ o.stage = "write"
                                /\ \A n \in DOMAIN new : Quietly(blk, LastIn(blk), todo', Final(n))
                                /\ TempOK(blk, LastIn(blk), todo', Temporary(o.obj), o.data, o.pos),
           o.kind # "create" => \A n \in DOMAIN new :
                                   Gives(blk, LastIn(blk), todo', n, new[n], allowed[n]),
           \A n \in Names \ DOMAIN new : Quietly(blk, LastIn(blk), todo', Final(n))
    PROVE  DurInv'
<1>1. /\ op'.kind = o.kind /\ op'.stage = o.stage /\ op'.obj = o.obj
      /\ op'.data = o.data /\ op'.pos = o.pos
  BY BeginIs
<1>2. op'.new = new /\ op'.before = allowed /\ op'.mid = {}
  BY BegunIs
<1>3. allowed' = [n \in Names |-> allowed[n] \cup (IF n \in DOMAIN new THEN {new[n]} ELSE {})]
  BY DEF Begin
<1>4. held = {}
  BY ReadyIs, Steady
<1>5. \A n \in Names : ContentIn(blk, n) \in allowed[n]
  BY DEF DurInv
<1>6. \A n \in Names : ContentIn(blk, n) \in allowed'[n]
  BY <1>3, <1>5
<1>7. History(op)'
  <2>1. \A n \in DOMAIN new : allowed[n] \cup {} \cup {new[n]} \subseteq allowed'[n]
    BY <1>3
  <2> QED
    BY <1>1, <1>2, <2>1 DEF History
<1>8. OpData(blk, LastIn(blk), todo', op')
  <2>1. \A n : op'.before[n] \cup op'.mid = allowed[n]
    BY <1>2
  <2>2. Settles(op') <=> o.kind # "create"
    BY <1>1 DEF Settles
  <2>3. \A n \in DOMAIN new : ContentIn(blk, n) \in allowed[n]
    BY <1>5
  <2> QED
    BY <1>1, <1>2, <2>1, <2>2, <2>3 DEF OpData
<1> QED
  BY <1>4, <1>6, <1>7, <1>8 DEF DurInv

----------------------------------------------------------------------------
(* The contents and rpmb_fs_write_primitive() *)

LEMMA QuietBlock ==
    ASSUME WellUsed, NEW L, Table(blk, L), IsDisk(blk), NEW w, w.use = "data", w.addr \notin DataAddrs, NEW name
    PROVE  Quiet(blk, L, w, name)
<1>1. \A a \in FatStart .. L : Area(EntryIn(blk, a)) \subseteq DataAddrs
  BY Reads
<1> QED
  BY <1>1 DEF Quiet, At

\* An entry in the slot of another file.
LEMMA QuietEntry ==
    ASSUME NEW b, NEW L, NEW w, w.use = "entry", NEW name,
           EntryIn(b, w.addr).active => EntryIn(b, w.addr).name # name, w.val.active => w.val.name # name
    PROVE  Quiet(b, L, w, name)
BY DEF Quiet, At

\* A block of another file.
LEMMA QuietOther ==
    ASSUME WellUsed, NEW L, Table(blk, L), IsDisk(blk), NEW w, w.use = "data", NEW name, NEW other, name # other,
           NEW a, At(blk, L, other, a), w.addr \in Area(EntryIn(blk, a))
    PROVE  Quiet(blk, L, w, name)
<1>1. ASSUME NEW c, At(blk, L, name, c) PROVE w.addr \notin Area(EntryIn(blk, c))
  <2>1. a # c /\ a \in FatStart .. L /\ c \in FatStart .. L
    BY <1>1 DEF At
  <2>2. Apart(EntryIn(blk, a), EntryIn(blk, c))
    BY <2>1 DEF Table
  <2> QED
    BY <2>2 DEF Apart
<1> QED
  BY <1>1 DEF Quiet

\* All blocks of a file and its entry, written to a gap.
FillForm(L, name, td, D) ==
    /\ td \in Seq(Writes) /\ td # <<>> /\ Stores(L, td, name) /\ Filling(blk, td, D)
    /\ td[Len(td)].val.size = Len(D)
    /\ \A i \in 1 .. Len(td) - 1 : \A m : Quiet(blk, L, td[i], m)
    /\ \A m : m # name => Quietly(blk, L, td, m)

FillTodo(h, D) == Append(DataWrites(Place(h, Len(D)).ent.start, D), EntryWrite(Place(h, Len(D))))

LEMMA FillIs ==
    ASSUME WellUsed, NEW L, Table(blk, L), IsDisk(blk), NEW h \in HandleSet, Has(blk, L, h.name),
           PoolOk(h), NEW D \in Seq(BlockValues), Len(D) \in 1 .. MaxLen, Gaps(Used(h), Len(D)) # {}
    PROVE  FillForm(L, h.name, FillTodo(h, D), D)
<1> DEFINE n == Len(D)
           p == Place(h, n)
           s == p.ent.start
           w == EntryWrite(p)
           d == DataWrites(s, D)
           td == Append(d, w)
<1>1. n \in 1 .. MaxLen /\ n \in Nat /\ MaxLen \in Nat /\ L \in Nat /\ Blocks \in Nat
  BY TableEnd, Consts
<1>2. /\ s \in Nat /\ s >= L + 1 /\ s + n <= Blocks
      /\ p \in HandleSet /\ p.addr = Found(h).addr
      /\ p.ent.size = n /\ p.ent.active /\ p.ent.name = h.name
      /\ (s .. s + n - 1) \cap DataAddrs = {}
  <2> HIDE DEF n
  <2> QED
    BY <1>1, PlaceIs DEF n
<1>3. SlotOf(L, h.name, Found(h).addr)
  BY FoundHandle
<1> HIDE DEF p
<1>4. w \in Writes /\ w.addr = p.addr /\ w.val = p.ent /\ w.use = "entry" /\ p.ent \in EntrySet
  BY <1>2, EntryWriteIs DEF HandleSet
<1> HIDE DEF w
<1>5. /\ d \in Seq(Writes) /\ Len(d) = n
      /\ \A i \in 1 .. n : d[i].addr = s + i - 1 /\ d[i].val = D[i] /\ d[i].use = "data"
  BY <1>1, <1>2, DataWritesAre
<1> HIDE DEF d, n, s
<1>6. /\ td \in Seq(Writes) /\ td # <<>> /\ Len(td) = n + 1 /\ td[Len(td)] = w
      /\ \A i \in 1 .. n : td[i] = d[i]
  BY <1>4, <1>5, AppendIs
<1>7. td = FillTodo(h, D)
  BY DEF FillTodo, d, w, s, p, n
<1> HIDE DEF td
<1>8. Area(p.ent) \subseteq L + 1 .. Blocks - 1
  <2>1. Area(p.ent) = s .. s + n - 1
    BY <1>2, <1>4, AreaIs DEF s
  <2> QED
    BY <1>1, <1>2, <2>1
<1>9. Stores(L, td, h.name)
  BY <1>2, <1>4, <1>6, <1>8 DEF Stores
<1>10. n + 1 - 1 = n /\ n - n = 0 /\ \A j \in 1 .. n : n - n + j = j /\ s + n - n + j - 1 = s + j - 1
  BY <1>1, <1>2
<1>11. Filling(blk, td, D)
  <2>1. \A j \in 1 .. n : /\ td[j].use = "data" /\ td[j].addr = s + j - 1 /\ td[j].val = D[j]
    BY <1>5, <1>6
  <2>2. \A i \in 1 .. 0 : FALSE
    OBVIOUS
  <2>3. td[Len(td)].val.size = n /\ td[Len(td)].val.start = s /\ n <= n
    BY <1>1, <1>2, <1>4, <1>6 DEF s
  <2>4. Len(td) - 1 = n
    BY <1>1, <1>6
  <2>5. n - n = 0 /\ \A j \in 1 .. n : n - n + j = j /\ s + n - n + j - 1 = s + j - 1
    BY <1>10
  <2> QED
    BY <2>1, <2>2, <2>3, <2>4, <2>5 DEF Filling
<1>12. ASSUME NEW i \in 1 .. n, NEW m PROVE Quiet(blk, L, td[i], m)
  <2>1. s + i - 1 \in s .. s + n - 1
    BY <1>1, <1>2
  <2>2. td[i].use = "data" /\ td[i].addr = s + i - 1
    BY <1>5, <1>6
  <2>3. td[i].addr \notin DataAddrs
    BY <1>2, <2>1, <2>2 DEF s
  <2> QED
    BY <2>2, <2>3, QuietBlock
<1>13. ASSUME NEW m, m # h.name PROVE Quietly(blk, L, td, m)
  <2>1. Quiet(blk, L, w, m)
    <3>1. EntryIn(blk, w.addr).name = h.name /\ w.val.name = h.name
      BY <1>2, <1>3, <1>4 DEF SlotOf
    <3> QED
      BY <1>4, <1>13, <3>1, QuietEntry
  <2>2. ASSUME NEW i \in 1 .. Len(td) PROVE Quiet(blk, L, td[i], m)
    <3>1. i \in 1 .. n \/ i = Len(td)
      BY <1>1, <1>6
    <3> QED
      BY <1>6, <1>12, <2>1, <3>1
  <2> QED
    BY <2>2 DEF Quietly
<1>14. td[Len(td)].val.size = Len(D)
  BY <1>2, <1>4, <1>6 DEF n
<1>15. \A i \in 1 .. Len(td) - 1 : \A m : Quiet(blk, L, td[i], m)
  <2>1. Len(td) - 1 = n
    BY <1>1, <1>6
  <2> QED
    BY <1>12, <2>1
<1> QED
  BY <1>6, <1>7, <1>9, <1>11, <1>13, <1>14, <1>15 DEF FillForm

LEMMA FillGives ==
    ASSUME NEW L, NEW n, NEW td, NEW D \in Seq(BlockValues), FillForm(L, Final(n), td, D),
           NEW B, ContentIn(blk, n) \in B
    PROVE  Gives(blk, L, td, n, D, B)
<1>1. D = [i \in 1 .. Len(D) |-> D[i]]
  <2> HIDE DEF BlockValues
  <2> QED
    OBVIOUS
<1>2. Fill(blk, L, td, n, D)
  BY <1>1 DEF Fill, FillForm
<1> QED
  BY <1>2 DEF Gives, FillForm

\* One block of a file.
PlaceForm(L, name, td, a, k, v) ==
    /\ td # <<>> /\ PlaceAt(blk, L, td, name, a, k) /\ td[1].val = v
    /\ \A m : m # name => Quietly(blk, L, td, m)

LEMMA PlaceFormIs ==
    ASSUME WellUsed, NEW L, Table(blk, L), IsDisk(blk), NEW name, NEW a, SlotOf(L, name, a),
           NEW k \in 1 .. EntryIn(blk, a).size, NEW v \in BlockValues,
           NEW td \in Seq(Writes), Len(td) = 1, td[1].addr = EntryIn(blk, a).start + k - 1,
           td[1].val = v, td[1].use = "data"
    PROVE  PlaceForm(L, name, td, a, k, v)
<1> DEFINE e == EntryIn(blk, a)
<1>1. At(blk, L, name, a)
  BY DEF At, SlotOf
<1>2. e.start + k - 1 \in Area(e)
  BY <1>1, FileIs
<1> HIDE DEF e
<1>3. ASSUME NEW m, m # name PROVE Quietly(blk, L, td, m)
  <2>1. Quiet(blk, L, td[1], m)
    BY <1>1, <1>2, <1>3, QuietOther DEF e
  <2>2. \A i \in 1 .. 1 : i = 1
    OBVIOUS
  <2> QED
    BY <2>1, <2>2 DEF Quietly
<1>4. td # <<>>
  <2>1. td = <<>> <=> Len(td) = 0
    BY Filled
  <2> QED
    BY <2>1
<1>5. PlaceAt(blk, L, td, name, a, k)
  BY <1>1 DEF PlaceAt, e
<1> QED
  BY <1>3, <1>4, <1>5 DEF PlaceForm

\* What update_write_helper() does to the blocks up to the end of the new ones.
LEMMA HelperAt ==
    ASSUME NEW old \in Seq(BlockValues), NEW pos \in Nat, NEW new \in Seq(BlockValues)
    PROVE  LET u == UpdateWriteHelper(old, pos, new)
           IN  \A i \in 1 .. MaxOf(Len(old), pos + Len(new)) :
                  /\ i > pos /\ i <= pos + Len(new) => u[i] = new[i - pos]
                  /\ ~(i > pos /\ i <= pos + Len(new)) /\ ((i - 1) \div TmpBlocks) * TmpBlocks < pos
                        => u[i] = BlocksOf(old, i)
                  /\ i <= pos => u[i] = BlocksOf(old, i)
<1> DEFINE n == MaxOf(Len(old), pos + Len(new))
           off(i) == ((i - 1) \div TmpBlocks) * TmpBlocks
           v(i) == IF i > pos /\ i <= pos + Len(new) THEN new[i - pos]
                   ELSE IF off(i) < pos THEN BlocksOf(old, i) ELSE DataBlock(Zero)
           u == UpdateWriteHelper(old, pos, new)
<1>1. u = [i \in 1 .. n |-> v(i)]
  BY Zenon DEF UpdateWriteHelper
<1>2. Len(old) \in Nat /\ Len(new) \in Nat /\ n \in Nat
  <2>1. Len(old) \in Nat /\ Len(new) \in Nat
    OBVIOUS
  <2>2. pos + Len(new) \in Nat
    BY <2>1
  <2> QED
    BY <2>1, <2>2, MaxOfIs
<1> HIDE DEF u, n
<1>3. ASSUME NEW i \in 1 .. n, i <= pos PROVE off(i) < pos
  <2>1. i - 1 \in Nat /\ TmpBlocks \in Nat \ {0}
    BY <1>2, Consts
  <2>2. \A x \in Nat : (x \div TmpBlocks) * TmpBlocks <= x /\ (x \div TmpBlocks) * TmpBlocks \in Int
    BY <2>1
  <2>3. off(i) <= i - 1 /\ off(i) \in Int
    BY <2>1, <2>2
  <2> HIDE DEF off
  <2> QED
    BY <1>2, <1>3, <2>3
<1> HIDE DEF off
<1>4. ASSUME NEW i \in 1 .. n
      PROVE  /\ i > pos /\ i <= pos + Len(new) => u[i] = new[i - pos]
             /\ ~(i > pos /\ i <= pos + Len(new)) /\ off(i) < pos => u[i] = BlocksOf(old, i)
             /\ i <= pos => u[i] = BlocksOf(old, i)
  <2>1. u[i] = v(i)
    BY <1>1
  <2>2. i <= pos => ~(i > pos) /\ off(i) < pos
    BY <1>2, <1>3
  <2> QED
    BY <2>1, <2>2, Zenon
<1> QED
  BY <1>4, Zenon DEF u, n, off

\* It does what it is meant to do.
LEMMA HelperExact ==
    ASSUME HelperFits, NEW old \in Seq(BlockValues), NEW pos \in 1 .. MaxLen - 1, NEW new \in Seq(BlockValues),
           Len(new) \in 1 .. MaxLen - pos, Len(old) \in 0 .. MaxLen, ~(pos + Len(new) <= Len(old) /\ Len(new) = 1)
    PROVE  UpdateWriteHelper(old, pos, new) = Spliced(old, pos, new)
<1> DEFINE n == MaxOf(Len(old), pos + Len(new))
           u == UpdateWriteHelper(old, pos, new)
           v(i) == IF i > pos /\ i <= pos + Len(new) THEN new[i - pos] ELSE BlocksOf(old, i)
<1>1. pos \in Nat /\ Len(old) \in Nat /\ Len(new) \in Nat /\ pos + Len(new) \in Nat /\ MaxLen \in Nat
  BY Consts
<1>2. n \in Nat /\ n \in {Len(old), pos + Len(new)}
  BY <1>1, MaxOfIs
<1>3. u \in Seq(BlockValues) /\ Len(u) = n
  <2> HIDE DEF BlockValues
  <2> QED
    BY <1>1, HelperIs, Zenon
<1>4. u = [i \in 1 .. n |-> u[i]]
  <2> HIDE DEF u, n, BlockValues
  <2> QED
    BY <1>3
<1>5. \A i \in 1 .. n :
         /\ i > pos /\ i <= pos + Len(new) => u[i] = new[i - pos]
         /\ ~(i > pos /\ i <= pos + Len(new)) /\ ((i - 1) \div TmpBlocks) * TmpBlocks < pos
               => u[i] = BlocksOf(old, i)
         /\ i <= pos => u[i] = BlocksOf(old, i)
  BY <1>1, HelperAt, Zenon
<1>6. \A i \in pos + Len(new) + 1 .. Len(old) : ((i - 1) \div TmpBlocks) * TmpBlocks < pos
  BY Zenon DEF HelperFits
<1>7. Spliced(old, pos, new) = [i \in 1 .. n |-> v(i)]
  BY Zenon DEF Spliced
<1> HIDE DEF u, n
<1>8. ASSUME NEW i \in 1 .. n PROVE u[i] = v(i)
  <2>1. CASE i > pos /\ i <= pos + Len(new)
    BY <1>5, <2>1
  <2>2. CASE ~(i > pos)
    <3>1. i <= pos
      BY <1>1, <1>2, <2>2
    <3> QED
      BY <1>5, <2>2, <3>1
  <2>3. CASE i > pos /\ ~(i <= pos + Len(new))
    <3>1. i \in pos + Len(new) + 1 .. Len(old)
      BY <1>1, <1>2, <2>3
    <3> QED
      BY <1>5, <1>6, <2>3, <3>1, Zenon
  <2> QED
    BY <2>1, <2>2, <2>3
<1> HIDE DEF v
<1>9. [i \in 1 .. n |-> u[i]] = [i \in 1 .. n |-> v(i)]
  BY <1>8
<1> QED
  BY <1>4, <1>7, <1>9, Zenon DEF u

\* The block writes of rpmb_fs_write_primitive().
LEMMA WriteForms ==
    ASSUME WellUsed, NEW L, Table(blk, L), IsDisk(blk), NEW h \in HandleSet, Has(blk, L, h.name),
           NEW pos \in Nat, NEW new \in Seq(BlockValues), Len(new) > 0, pos + Len(new) <= MaxLen,
           WriteFits(h, pos, new)
    PROVE  LET c == Found(h)
               td == WriteTodo(h, pos, new)
               u == UpdateWriteHelper(DataOf(c.ent), pos, new)
           IN  /\ InPlace(c.ent, pos, new) => PlaceForm(L, h.name, td, c.addr, pos + 1, new[1])
               /\ ~InPlace(c.ent, pos, new) => FillForm(L, h.name, td, u) /\ u \in Seq(BlockValues)
<1> DEFINE c == Found(h)
           td == WriteTodo(h, pos, new)
           u == UpdateWriteHelper(DataOf(c.ent), pos, new)
<1>1. /\ c \in HandleSet /\ SlotOf(L, h.name, c.addr) /\ c.ent = EntryIn(blk, c.addr)
      /\ Chosen(h) = c /\ GrowFat(h) = <<>>
  BY FoundHandle
<1>2. L \in Nat /\ Len(new) \in Nat /\ MaxLen \in Nat /\ Blocks \in Nat
  BY TableEnd, Consts
<1>3. /\ DataOf(c.ent) \in Seq(BlockValues) /\ Len(DataOf(c.ent)) = c.ent.size
      /\ \A i \in 1 .. c.ent.size : c.ent.start + i - 1 \in L + 1 .. Blocks - 1
  <2> HIDE DEF c
  <2> QED
    BY <1>1, DataOfIs
<1>4. c.ent.start \in Nat /\ c.ent.size \in Nat /\ c.ent.size <= MaxLen
  BY <1>1, AreaIs DEF SlotOf
<1>5. ASSUME InPlace(c.ent, pos, new) PROVE PlaceForm(L, h.name, td, c.addr, pos + 1, new[1])
  <2> DEFINE start == c.ent.start + pos
             d == DataWrites(start, new)
  <2>1. pos + 1 <= c.ent.size /\ Len(new) = 1
    BY <1>5 DEF InPlace
  <2>2. /\ start >= L + 1 /\ start + Len(new) <= Blocks /\ start \in Nat
        /\ start = c.ent.start + (pos + 1) - 1 /\ pos + 1 \in 1 .. c.ent.size
    <3>1. pos + 1 \in 1 .. c.ent.size /\ c.ent.start + (pos + 1) - 1 = start
      BY <1>4, <2>1
    <3>2. start \in L + 1 .. Blocks - 1
      BY <1>3, <3>1
    <3> QED
      BY <1>2, <2>1, <3>1, <3>2
  <2>3. td = <<>> \o d
    <3>1. InPlace(Chosen(h).ent, pos, new)
      BY <1>1, <1>5
    <3>2. td = GrowFat(h) \o DataWrites(Chosen(h).ent.start + pos, new)
      BY <3>1, Zenon DEF WriteTodo
    <3> HIDE DEF td
    <3> QED
      BY <1>1, <3>2, Zenon
  <2> HIDE DEF start
  <2>4. /\ d \in Seq(Writes) /\ Len(d) = Len(new)
        /\ \A i \in 1 .. Len(new) : d[i].addr = start + i - 1 /\ d[i].val = new[i] /\ d[i].use = "data"
    <3>1. start \in Nat /\ start >= L + 1 /\ start + Len(new) <= Blocks /\ L \in Nat
      BY <1>2, <2>2
    <3> QED
      BY <3>1, DataWritesAre
  <2> HIDE DEF d, td
  <2>5. td = d /\ 1 \in 1 .. Len(new) /\ start + 1 - 1 = start
    BY <2>1, <2>2, <2>3, <2>4
  <2>6. td \in Seq(Writes) /\ Len(td) = 1 /\ td[1].addr = start /\ td[1].val = new[1] /\ td[1].use = "data"
    BY <2>1, <2>4, <2>5
  <2>7. new[1] \in BlockValues
    <3> HIDE DEF BlockValues
    <3> QED
      BY <2>5
  <2> HIDE DEF c
  <2> QED
    BY <1>1, <2>2, <2>6, <2>7, PlaceFormIs
<1>6. ASSUME ~InPlace(c.ent, pos, new) PROVE FillForm(L, h.name, td, u) /\ u \in Seq(BlockValues)
  <2> DEFINE n == NewSize(c.ent, pos, new)
             w == WriteHandle(h, pos, new)
  <2>1. n \in 1 .. MaxLen /\ Len(u) = n /\ u \in Seq(BlockValues)
    <3>1. pos + Len(new) \in Nat /\ pos + Len(new) > 0
      BY <1>2
    <3>2. n = MaxOf(c.ent.size, pos + Len(new))
      BY DEF NewSize
    <3>3. n \in Nat /\ n >= pos + Len(new) /\ n \in {c.ent.size, pos + Len(new)}
      BY <1>4, <3>1, <3>2, MaxOfIs
    <3>4. n \in 1 .. MaxLen
      BY <1>2, <1>4, <3>1, <3>3
    <3> DEFINE old == DataOf(c.ent)
    <3>5. old \in Seq(BlockValues) /\ Len(old) = c.ent.size
      BY <1>3
    <3> HIDE DEF old, n
    <3>6. /\ UpdateWriteHelper(old, pos, new) \in Seq(BlockValues)
          /\ Len(UpdateWriteHelper(old, pos, new)) = MaxOf(Len(old), pos + Len(new))
      <4> HIDE DEF BlockValues
      <4> QED
        BY <3>5, HelperIs, Zenon
    <3> QED
      BY <3>2, <3>4, <3>5, <3>6, Zenon DEF old
  <2>2. PoolOk(h) /\ Gaps(Used(h), n) # {}
    BY <1>1, <1>6 DEF WriteFits
  <2>3. w = Place(h, n)
    <3>1. w = [c EXCEPT !.ent.size = n, !.ent.start = Max(Gaps(Used(h), n))]
      BY <1>1, <1>6, Zenon DEF WriteHandle
    <3> QED
      BY <3>1, Zenon DEF Place
  <2>4. td = <<>> \o Append(DataWrites(w.ent.start, u), EntryWrite(w))
    BY <1>1, <1>6, Zenon DEF WriteTodo
  <2> HIDE DEF w, td, u, n
  <2>5. td = <<>> \o FillTodo(h, u)
    BY <2>1, <2>3, <2>4, Zenon DEF FillTodo
  <2>6. FillForm(L, h.name, FillTodo(h, u), u)
    BY <2>1, <2>2, FillIs
  <2>7. FillTodo(h, u) \in Seq(Writes)
    BY <2>6 DEF FillForm
  <2>8. td = FillTodo(h, u)
    <3> HIDE DEF FillTodo
    <3> QED
      BY <2>5, <2>7
  <2> QED
    BY <2>1, <2>6, <2>8
<1> QED
  BY <1>5, <1>6

----------------------------------------------------------------------------
(* The contents and the operations on a handle *)

LEMMA SplicedOne ==
    ASSUME NEW old \in Seq(BlockValues), NEW pos \in Nat, NEW new \in Seq(BlockValues), Len(new) = 1,
           pos + 1 <= Len(old)
    PROVE  Spliced(old, pos, new) = [old EXCEPT ![pos + 1] = new[1]]
<1> HIDE DEF BlockValues
<1>1. Len(old) \in Nat /\ MaxOf(Len(old), pos + Len(new)) = Len(old)
  BY DEF MaxOf
<1> DEFINE v(i) == IF i > pos /\ i <= pos + Len(new) THEN new[i - pos] ELSE BlocksOf(old, i)
<1>2. Spliced(old, pos, new) = [i \in 1 .. Len(old) |-> v(i)]
  BY <1>1, Zenon DEF Spliced
<1>3. ASSUME NEW i \in 1 .. Len(old) PROVE v(i) = IF i = pos + 1 THEN new[1] ELSE old[i]
  <2>1. i > pos /\ i <= pos + Len(new) <=> i = pos + 1
    BY <1>1
  <2>2. i = pos + 1 => i - pos = 1
    OBVIOUS
  <2>3. BlocksOf(old, i) = old[i]
    BY <1>1 DEF BlocksOf
  <2> QED
    BY <2>1, <2>2, <2>3
<1> HIDE DEF v
<1>4. [old EXCEPT ![pos + 1] = new[1]] = [i \in 1 .. Len(old) |-> IF i = pos + 1 THEN new[1] ELSE old[i]]
  <2>1. old \in [1 .. Len(old) -> BlockValues]
    OBVIOUS
  <2>2. \A S, T : \A f \in [S -> T] : \A j, x :
           [f EXCEPT ![j] = x] = [i \in S |-> IF i = j THEN x ELSE f[i]]
    OBVIOUS
  <2> QED
    BY <2>1, <2>2
<1>5. [i \in 1 .. Len(old) |-> v(i)] = [i \in 1 .. Len(old) |-> IF i = pos + 1 THEN new[1] ELSE old[i]]
  BY <1>3
<1> QED
  BY <1>2, <1>4, <1>5

LEMMA PlaceGives ==
    ASSUME NEW L, NEW n, NEW td, NEW a, NEW k, NEW v, PlaceForm(L, Final(n), td, a, k, v),
           NEW D, D = [DataIn(blk, EntryIn(blk, a)) EXCEPT ![k] = v], NEW B, ContentIn(blk, n) \in B
    PROVE  Gives(blk, L, td, n, D, B)
<1>1. PlaceOne(blk, L, td, n, D)
  BY DEF PlaceOne, PlaceForm
<1> QED
  BY <1>1 DEF Gives, PlaceForm

\* The objects that an operation on one object leaves alone.
LEMMA OthersQuiet ==
    ASSUME NEW L, NEW td, NEW x \in Names, \A m : m # Final(x) => Quietly(blk, L, td, m)
    PROVE  \A n \in Names \ {x} : Quietly(blk, L, td, Final(n))
<1>1. ASSUME NEW n \in Names \ {x} PROVE Final(n) # Final(x)
  BY DEF Final
<1> QED
  BY <1>1

LEMMA WriteData ==
    ASSUME WellUsed, HelperFits, Inv, DurInv,
           NEW pos \in 1 .. MaxLen - 1, NEW new \in DataSeqs(1 .. MaxLen - pos), Write(pos, new)
    PROVE  DurInv'
<1> DEFINE L == LastIn(blk)
           c == Found(fh)
           old == DataOf(c.ent)
           D == Spliced(old, pos, new)
           o == [Idle EXCEPT !.kind = "write", !.ent = c.ent]
           nf == [n \in {fh.obj} |-> D]
<1>1. Ready /\ Opened /\ blk' = blk /\ held' = held
  BY DEF Write, Device
<1>2. /\ op = Idle /\ Table(blk, L) /\ IsDisk(blk) /\ fh \in HandleSet
      /\ fh.obj \in Names /\ fh.name = Final(fh.obj) /\ Has(blk, L, fh.name)
  BY <1>1, OpenedIs
<1>3. /\ new \in Seq(BlockValues) /\ Len(new) \in 1 .. MaxLen - pos /\ pos \in Nat
      /\ Len(new) > 0 /\ pos + Len(new) <= MaxLen
  <2>1. 1 .. MaxLen - pos \subseteq Nat /\ pos \in Nat /\ MaxLen \in Nat
    BY Consts
  <2> QED
    BY <2>1, DataSeqsAre
<1>4. /\ c \in HandleSet /\ Chosen(fh) = c /\ SlotOf(L, fh.name, c.addr) /\ c.ent = EntryIn(blk, c.addr)
  BY <1>2, FoundHandle
<1>5. ContentIn(blk, fh.obj) \in allowed[fh.obj]
  BY <1>2 DEF DurInv
<1> HIDE DEF L
<1>6. CASE fh' = Chosen(fh) /\ op' = op /\ todo' = todo /\ allowed' = allowed
  BY <1>1, <1>2, <1>6, IdleData, IdleTypes
<1>7. CASE /\ WriteFits(fh, pos, new) /\ todo' = WriteTodo(fh, pos, new) /\ Begin(o, nf)
  <2>1. /\ InPlace(c.ent, pos, new) => PlaceForm(L, fh.name, todo', c.addr, pos + 1, new[1])
        /\ ~InPlace(c.ent, pos, new) =>
              /\ FillForm(L, fh.name, todo', UpdateWriteHelper(old, pos, new))
              /\ UpdateWriteHelper(old, pos, new) \in Seq(BlockValues)
    <3> HIDE DEF BlockValues
    <3> QED
      BY <1>2, <1>3, <1>7, WriteForms, Zenon
  <2>2. OpForm(o) /\ o.kind = "write" /\ o.mid = {}
    <3>1. c.ent \in EntrySet
      BY <1>4 DEF HandleSet
    <3> HIDE DEF c
    <3> QED
      BY <3>1, OpIs
  <2>3. /\ old \in Seq(BlockValues) /\ Len(old) = c.ent.size /\ c.ent.size \in 0 .. MaxLen
    <3> HIDE DEF c
    <3>1. old \in Seq(BlockValues) /\ Len(old) = c.ent.size
      BY <1>2, <1>4, DataOfIs
    <3>2. c.ent.size \in 0 .. MaxLen
      BY <1>4 DEF SlotOf, EntrySet
    <3> QED
      BY <3>1, <3>2
  <2> HIDE DEF c, o
  <2>4. Gives(blk, L, todo', fh.obj, D, allowed[fh.obj]) /\ \A m : m # Final(fh.obj) => Quietly(blk, L, todo', m)
    <3>1. CASE InPlace(c.ent, pos, new)
      <4>1. pos + 1 <= Len(old) /\ Len(new) = 1
        BY <2>3, <3>1 DEF InPlace
      <4>2. D = [old EXCEPT ![pos + 1] = new[1]]
        <5> HIDE DEF old, BlockValues
        <5> QED
          BY <1>3, <2>3, <4>1, SplicedOne
      <4>3. old = DataIn(blk, EntryIn(blk, c.addr))
        BY <1>4, Zenon DEF DataOf, DataIn
      <4> HIDE DEF old, D
      <4>4. PlaceForm(L, Final(fh.obj), todo', c.addr, pos + 1, new[1])
        BY <1>2, <2>1, <3>1
      <4>5. Gives(blk, L, todo', fh.obj, D, allowed[fh.obj])
        BY <1>5, <4>2, <4>3, <4>4, PlaceGives
      <4> QED
        BY <4>4, <4>5 DEF PlaceForm
    <3>2. CASE ~InPlace(c.ent, pos, new)
      <4>1. ~(pos + Len(new) <= Len(old) /\ Len(new) = 1) /\ Len(old) \in 0 .. MaxLen
        BY <2>3, <3>2 DEF InPlace
      <4> HIDE DEF old, BlockValues
      <4>2. UpdateWriteHelper(old, pos, new) = D
        BY <1>3, <2>3, <4>1, HelperExact
      <4> HIDE DEF D
      <4>3. FillForm(L, Final(fh.obj), todo', D) /\ D \in Seq(BlockValues)
        BY <1>2, <2>1, <3>2, <4>2
      <4>4. Gives(blk, L, todo', fh.obj, D, allowed[fh.obj])
        BY <1>5, <4>3, FillGives
      <4> QED
        BY <4>3, <4>4 DEF FillForm
    <3> QED
      BY <3>1, <3>2
  <2> HIDE DEF D
  <2>5. DOMAIN nf = {fh.obj} /\ nf[fh.obj] = D
    OBVIOUS
  <2>6. \A n \in Names \ {fh.obj} : Quietly(blk, L, todo', Final(n))
    BY <1>2, <2>4, OthersQuiet
  <2> HIDE DEF nf
  <2>7. o.kind \in FileOps /\ o.kind # "create" /\ DOMAIN nf \subseteq Names
    BY <1>2, <2>2, <2>5 DEF FileOps
  <2>8. \A n \in DOMAIN nf : Gives(blk, L, todo', n, nf[n], allowed[n])
    BY <2>4, <2>5
  <2> QED
    BY <1>1, <1>7, <2>2, <2>5, <2>6, <2>7, <2>8, BeginData DEF L
<1> QED
  BY <1>4, <1>6, <1>7, Zenon DEF Write

\* A single write of an entry.
LEMMA OneQuiet ==
    ASSUME NEW b, NEW L, NEW td, Len(td) = 1, NEW m, Quiet(b, L, td[1], m)
    PROVE  Quietly(b, L, td, m)
<1>1. \A i \in 1 .. 1 : i = 1
  OBVIOUS
<1> QED
  BY <1>1 DEF Quietly

LEMMA EntryGives ==
    ASSUME NEW L, NEW td \in Seq(Writes), Len(td) = 1, NEW n, td[1].use = "entry", td[1].val \in EntrySet,
           td[1].val.active, td[1].val.name = Final(n), Area(td[1].val) \subseteq L + 1 .. Blocks - 1,
           NEW D \in Seq(BlockValues), Len(D) = td[1].val.size,
           \A i \in 1 .. td[1].val.size : blk[td[1].val.start + i - 1] = D[i],
           NEW B, ContentIn(blk, n) \in B
    PROVE  Gives(blk, L, td, n, D, B)
<1> DEFINE e == td[1].val
<1>1. td # <<>>
  <2>1. td = <<>> <=> Len(td) = 0
    BY Filled
  <2> QED
    BY <2>1
<1>2. D = [i \in 1 .. e.size |-> D[i]]
  <2> HIDE DEF BlockValues
  <2> QED
    OBVIOUS
<1>3. e.size \in Nat
  BY DEF EntrySet
<1>4. Stores(L, td, Final(n))
  BY <1>1 DEF Stores
<1>5. 1 - 1 = 0 /\ e.size - 0 = e.size /\ 0 <= e.size /\ \A i \in 1 .. 0 : FALSE
  BY <1>3
<1>6. Filling(blk, td, D)
  BY <1>5 DEF Filling
<1>7. Fill(blk, L, td, n, D)
  BY <1>2, <1>4, <1>5, <1>6 DEF Fill
<1> QED
  BY <1>1, <1>7 DEF Gives

\* The start of an operation that gives D to one object.
LEMMA BeginOne ==
    ASSUME WellUsed, Inv, DurInv, Ready, blk' = blk, held' = held,
           NEW o, OpForm(o), o.mid = {}, o.kind \in FileOps \ {"create"}, NEW x \in Names, NEW D,
           Begin(o, [n \in {x} |-> D]), Gives(blk, LastIn(blk), todo', x, D, allowed[x]),
           \A m : m # Final(x) => Quietly(blk, LastIn(blk), todo', m)
    PROVE  DurInv'
<1> DEFINE nf == [n \in {x} |-> D]
<1>1. DOMAIN nf = {x} /\ nf[x] = D
  OBVIOUS
<1>2. \A n \in Names \ {x} : Quietly(blk, LastIn(blk), todo', Final(n))
  BY OthersQuiet
<1> HIDE DEF nf
<1>3. \A n \in DOMAIN nf : Gives(blk, LastIn(blk), todo', n, nf[n], allowed[n])
  BY <1>1
<1>4. Begin(o, nf) /\ DOMAIN nf \subseteq Names
  BY <1>1 DEF nf
<1> QED
  BY <1>1, <1>2, <1>3, <1>4, BeginData

LEMMA TruncateData ==
    ASSUME WellUsed, Inv, DurInv, NEW len \in 1 .. MaxLen, Truncate(len)
    PROVE  DurInv'
<1> DEFINE L == LastIn(blk)
           c == Found(fh)
           old == DataOf(c.ent)
           new == [i \in 1 .. len |-> BlocksOf(old, i)]
           o == [Idle EXCEPT !.kind = "truncate", !.ent = c.ent]
<1>1. Ready /\ Opened /\ blk' = blk /\ held' = held
  BY DEF Truncate, Device
<1>2. /\ op = Idle /\ Table(blk, L) /\ IsDisk(blk) /\ fh \in HandleSet
      /\ fh.obj \in Names /\ fh.name = Final(fh.obj) /\ Has(blk, L, fh.name)
  BY <1>1, OpenedIs
<1>3. /\ c \in HandleSet /\ c.obj = fh.obj /\ c.name = fh.name
      /\ SlotOf(L, fh.name, c.addr) /\ c.ent = EntryIn(blk, c.addr) /\ Found(c) = c
  <2>1. Found(c) = c
    BY <1>2, FoundAgain
  <2> QED
    BY <1>2, <2>1, FoundHandle
<1>4. OpForm(o) /\ o.mid = {} /\ o.kind \in FileOps \ {"create"}
  <2>1. c.ent \in EntrySet
    BY <1>3 DEF HandleSet
  <2> HIDE DEF c
  <2>2. OpForm(o) /\ o.kind = "truncate" /\ o.mid = {}
    BY <2>1, OpIs
  <2> QED
    BY <2>2 DEF FileOps
<1>5. ContentIn(blk, fh.obj) \in allowed[fh.obj]
  BY <1>2 DEF DurInv
<1>6. len \in 0 .. MaxLen /\ len \in Nat /\ MaxLen \in Nat
  BY Consts
<1>7. /\ old \in Seq(BlockValues) /\ Len(old) = c.ent.size /\ c.ent.size \in Nat
      /\ \A i \in 1 .. c.ent.size : old[i] = blk[c.ent.start + i - 1]
  <2> HIDE DEF c
  <2>1. /\ old \in Seq(BlockValues) /\ Len(old) = c.ent.size
        /\ \A i \in 1 .. c.ent.size : old[i] = blk[c.ent.start + i - 1]
    BY <1>2, <1>3, DataOfIs
  <2>2. c.ent.size \in Nat
    BY <1>3 DEF SlotOf, EntrySet
  <2> QED
    BY <2>1, <2>2
<1>8. new \in Seq(BlockValues) /\ Len(new) = len
  <2> HIDE DEF old
  <2>1. \A i \in 1 .. len : BlocksOf(old, i) \in BlockValues
    BY <1>6, <1>7, BlocksOfIs
  <2>2. new \in [1 .. len -> BlockValues]
    BY <2>1
  <2> QED
    BY <1>6, <2>2, SeqIs
<1> HIDE DEF L, o
<1>9. CASE /\ len <= c.ent.size /\ fh' = [c EXCEPT !.ent.size = len]
           /\ todo' = <<EntryWrite(fh')>> /\ Begin(o, [n \in {fh.obj} |-> new])
  <2> DEFINE w == EntryWrite(fh')
  <2>1. /\ fh' \in HandleSet /\ fh'.addr = c.addr
        /\ fh'.ent \in EntrySet /\ fh'.ent.size = len /\ fh'.ent.start = c.ent.start
        /\ fh'.ent.active = c.ent.active /\ fh'.ent.name = c.ent.name
    BY <1>3, <1>6, <1>9, WithSize
  <2>2. /\ c.ent \in EntrySet /\ c.ent.active /\ c.ent.name = fh.name /\ c.addr \in FatStart .. L
    BY <1>2, <1>3 DEF SlotOf
  <2>3. w \in Writes /\ w.addr = c.addr /\ w.val = fh'.ent /\ w.use = "entry"
    BY <2>1, EntryWriteIs
  <2> HIDE DEF w
  <2>4. todo' \in Seq(Writes) /\ Len(todo') = 1 /\ todo'[1] = w
    BY <1>9, <2>3, OneIs DEF w
  <2>5. Area(fh'.ent) \subseteq L + 1 .. Blocks - 1
    <3>1. /\ Area(c.ent) = c.ent.start .. c.ent.start + c.ent.size - 1
          /\ c.ent.start \in Nat /\ c.ent.size \in Nat
      BY <2>2, AreaIs
    <3>2. Area(fh'.ent) = c.ent.start .. c.ent.start + len - 1
      BY <2>1, <2>2, AreaIs
    <3>3. Area(c.ent) \subseteq L + 1 .. Blocks - 1
      BY <1>2, <1>3, <2>2 DEF Table
    <3>4. Area(fh'.ent) \subseteq Area(c.ent)
      BY <1>6, <1>9, <3>1, <3>2
    <3> QED
      BY <3>3, <3>4
  <2>6. \A i \in 1 .. len : blk[c.ent.start + i - 1] = new[i]
    <3>1. ASSUME NEW i \in 1 .. len PROVE blk[c.ent.start + i - 1] = new[i]
      <4>1. i \in 1 .. c.ent.size /\ i <= Len(old)
        BY <1>6, <1>7, <1>9
      <4>2. new[i] = BlocksOf(old, i)
        OBVIOUS
      <4>3. BlocksOf(old, i) = old[i]
        BY <4>1 DEF BlocksOf
      <4> QED
        BY <1>7, <4>1, <4>2, <4>3
    <3> QED
      BY <3>1
  <2> HIDE DEF c, new
  <2>7. Gives(blk, L, todo', fh.obj, new, allowed[fh.obj])
    <3> DEFINE e == fh'.ent
    <3>1. /\ e \in EntrySet /\ e.active /\ e.name = Final(fh.obj) /\ Area(e) \subseteq L + 1 .. Blocks - 1
          /\ Len(new) = e.size /\ \A i \in 1 .. e.size : blk[e.start + i - 1] = new[i]
      BY <1>2, <1>8, <2>1, <2>2, <2>5, <2>6
    <3>2. todo'[1].val = e /\ todo'[1].use = "entry"
      BY <2>3, <2>4
    <3> HIDE DEF e
    <3> QED
      BY <1>5, <1>8, <2>4, <3>1, <3>2, EntryGives
  <2>8. ASSUME NEW m, m # Final(fh.obj) PROVE Quietly(blk, L, todo', m)
    <3>1. Quiet(blk, L, w, m)
      BY <1>2, <1>3, <2>1, <2>2, <2>3, <2>8, QuietEntry
    <3> QED
      BY <2>4, <3>1, OneQuiet
  <2> QED
    BY <1>1, <1>2, <1>4, <1>9, <2>7, <2>8, BeginOne DEF L
<1>10. CASE /\ len > c.ent.size /\ PoolOk(c) /\ Gaps(Used(c), len) # {}
            /\ fh' = [c EXCEPT !.ent.size = len, !.ent.start = Max(Gaps(Used(c), len))]
            /\ todo' = GrowFat(c) \o Append(DataWrites(fh'.ent.start, new), EntryWrite(fh'))
            /\ Begin(o, [n \in {fh.obj} |-> new])
  <2>1. Has(blk, L, c.name) /\ GrowFat(c) = <<>>
    BY <1>2, <1>3, FoundHandle
  <2>2. fh' = Place(c, len)
    BY <1>3, <1>10 DEF Place
  <2> HIDE DEF c, new
  <2>3. FillForm(L, c.name, FillTodo(c, new), new)
    BY <1>2, <1>3, <1>8, <1>10, <2>1, FillIs
  <2>4. todo' = <<>> \o FillTodo(c, new)
    BY <1>8, <1>10, <2>1, <2>2, Zenon DEF FillTodo
  <2>5. FillTodo(c, new) \in Seq(Writes)
    BY <2>3 DEF FillForm
  <2> HIDE DEF FillTodo
  <2>6. todo' = FillTodo(c, new)
    BY <2>4, <2>5
  <2>7. FillForm(L, Final(fh.obj), todo', new)
    BY <1>2, <1>3, <2>3, <2>6
  <2>8. Gives(blk, L, todo', fh.obj, new, allowed[fh.obj])
    BY <1>5, <1>8, <2>7, FillGives
  <2>9. \A m : m # Final(fh.obj) => Quietly(blk, L, todo', m)
    BY <2>7 DEF FillForm
  <2> QED
    BY <1>1, <1>2, <1>4, <1>10, <2>8, <2>9, BeginOne DEF L
<1>11. CASE fh' = c /\ op' = op /\ todo' = todo /\ allowed' = allowed
  BY <1>1, <1>2, <1>11, IdleData, IdleTypes
<1> QED
  BY <1>9, <1>10, <1>11 DEF Truncate, o

LEMMA RemoveData ==
    ASSUME WellUsed, Inv, DurInv, Remove
    PROVE  DurInv'
<1> DEFINE L == LastIn(blk)
           g == NewHandle(fh.obj, Final(fh.obj))
           old == Found(g)
           new == [old EXCEPT !.ent = Cleared]
           w == EntryWrite(new)
           o == [Idle EXCEPT !.kind = "remove"]
<1>1. /\ Ready /\ Opened /\ blk' = blk /\ held' = held
      /\ todo' = <<w>> /\ Begin(o, [n \in {fh.obj} |-> NoFile])
  BY DEF Remove, Device
<1>2. /\ Table(blk, L) /\ IsDisk(blk) /\ fh \in HandleSet
      /\ fh.obj \in Names /\ fh.name = Final(fh.obj) /\ Has(blk, L, fh.name)
  BY <1>1, OpenedIs
<1>3. g \in HandleSet /\ g.name = fh.name
  BY <1>2, NamesAre, NewHandleIs
<1> HIDE DEF g, L
<1>4. /\ old \in HandleSet /\ SlotOf(L, fh.name, old.addr)
  BY <1>2, <1>3, FoundHandle
<1> HIDE DEF old
<1>5. new \in HandleSet /\ new.addr = old.addr /\ new.ent = Cleared
  BY <1>4, WithEnt, Kinds
<1> HIDE DEF new
<1>6. w \in Writes /\ w.addr = old.addr /\ w.val = Cleared /\ w.use = "entry"
  BY <1>5, EntryWriteIs
<1> HIDE DEF w
<1>7. Len(todo') = 1 /\ todo'[1] = w /\ todo' # <<>>
  BY <1>1, <1>6, OneIs
<1>8. OpForm(o) /\ o.mid = {} /\ o.kind \in FileOps \ {"create"}
  BY RemoveOp DEF FileOps
<1>9. At(blk, L, Final(fh.obj), old.addr)
  BY <1>2, <1>4 DEF At, SlotOf
<1>10. Clear(blk, L, todo', fh.obj, NoFile)
  BY <1>6, <1>7, <1>9, Kinds DEF Clear, Clears
<1>11. Gives(blk, L, todo', fh.obj, NoFile, allowed[fh.obj])
  BY <1>2, <1>7, <1>10 DEF Gives, DurInv
<1>12. ASSUME NEW m, m # Final(fh.obj) PROVE Quietly(blk, L, todo', m)
  <2>1. Quiet(blk, L, w, m)
    BY <1>6, <1>9, <1>12, Kinds, QuietEntry DEF At
  <2> QED
    BY <1>7, <2>1, OneQuiet
<1> HIDE DEF o
<1> QED
  BY <1>1, <1>2, <1>8, <1>11, <1>12, BeginOne DEF L

LEMMA RenameData ==
    ASSUME WellUsed, Inv, DurInv, NEW n \in Names, Rename(n)
    PROVE  DurInv'
<1> DEFINE L == LastIn(blk)
           g == NewHandle(fh.obj, Final(fh.obj))
           old == Found(g)
           D == DataOf(old.ent)
           new == [old EXCEPT !.ent.name = Final(n)]
           w == EntryWrite(new)
           o == [Idle EXCEPT !.kind = "rename", !.obj = n]
           nf == [m \in {n, fh.obj} |-> IF m = n THEN D ELSE NoFile]
<1>1. /\ Ready /\ Opened /\ blk' = blk /\ held' = held /\ n # fh.obj /\ todo' = <<w>> /\ Begin(o, nf)
  BY DEF Rename, Device
<1>2. /\ Table(blk, L) /\ IsDisk(blk) /\ fh \in HandleSet
      /\ fh.obj \in Names /\ fh.name = Final(fh.obj) /\ Has(blk, L, fh.name)
  BY <1>1, OpenedIs
<1>3. g \in HandleSet /\ g.name = fh.name
  BY <1>2, NamesAre, NewHandleIs
<1> HIDE DEF g, L
<1>4. /\ old \in HandleSet /\ SlotOf(L, fh.name, old.addr) /\ old.ent = EntryIn(blk, old.addr)
  BY <1>2, <1>3, FoundHandle
<1> HIDE DEF old
<1>5. /\ new \in HandleSet /\ new.addr = old.addr
      /\ new.ent \in EntrySet /\ new.ent.size = old.ent.size /\ new.ent.start = old.ent.start
      /\ new.ent.active = old.ent.active /\ new.ent.name = Final(n) /\ new.ent.last = old.ent.last
  BY <1>4, WithName, NamesAre
<1> HIDE DEF new
<1>6. w \in Writes /\ w.addr = old.addr /\ w.val = new.ent /\ w.use = "entry"
  BY <1>5, EntryWriteIs
<1> HIDE DEF w
<1>7. todo' \in Seq(Writes) /\ Len(todo') = 1 /\ todo'[1] = w /\ todo' # <<>>
  BY <1>1, <1>6, OneIs
<1>8. OpForm(o) /\ o.mid = {} /\ o.kind = "rename"
  BY RenameOp
<1>9. At(blk, L, Final(fh.obj), old.addr)
  BY <1>2, <1>4 DEF At, SlotOf
<1>10. Final(n) # Final(fh.obj)
  BY <1>1 DEF Final
<1>11. Clear(blk, L, todo', fh.obj, NoFile)
  BY <1>5, <1>6, <1>7, <1>9, <1>10 DEF Clear, Clears
<1>12. Gives(blk, L, todo', fh.obj, NoFile, allowed[fh.obj])
  BY <1>2, <1>7, <1>11 DEF Gives, DurInv
<1>13. Gives(blk, L, todo', n, D, allowed[n])
  <2>1. /\ D \in Seq(BlockValues) /\ Len(D) = old.ent.size
        /\ \A i \in 1 .. old.ent.size : D[i] = blk[old.ent.start + i - 1]
    BY <1>2, <1>4, DataOfIs
  <2>2. Area(new.ent) \subseteq L + 1 .. Blocks - 1 /\ new.ent.active
    <3>1. Area(new.ent) = Area(EntryIn(blk, old.addr)) /\ new.ent.active
      BY <1>2, <1>4, <1>5, RenameFits
    <3>2. Area(EntryIn(blk, old.addr)) \subseteq L + 1 .. Blocks - 1
      BY <1>2, <1>4 DEF Table, SlotOf
    <3> QED
      BY <3>1, <3>2
  <2>3. ContentIn(blk, n) \in allowed[n]
    BY DEF DurInv
  <2> HIDE DEF D
  <2> DEFINE e == new.ent
  <2>4. /\ e \in EntrySet /\ e.active /\ e.name = Final(n) /\ Area(e) \subseteq L + 1 .. Blocks - 1
        /\ Len(D) = e.size /\ \A i \in 1 .. e.size : blk[e.start + i - 1] = D[i]
    BY <1>5, <2>1, <2>2
  <2>5. todo'[1].val = e /\ todo'[1].use = "entry"
    BY <1>6, <1>7
  <2> HIDE DEF e, o, nf
  <2> QED
    BY <1>7, <2>1, <2>3, <2>4, <2>5, EntryGives
<1> HIDE DEF D
<1>14. DOMAIN nf = {n, fh.obj} /\ nf[n] = D /\ nf[fh.obj] = NoFile
  BY <1>1
<1> HIDE DEF nf, o
<1>15. ASSUME NEW x \in Names \ {n, fh.obj} PROVE Quietly(blk, L, todo', Final(x))
  <2>1. Final(x) # Final(n) /\ Final(x) # Final(fh.obj)
    BY DEF Final
  <2>2. Quiet(blk, L, w, Final(x))
    BY <1>5, <1>6, <1>9, <2>1, QuietEntry DEF At
  <2> QED
    BY <1>7, <2>2, OneQuiet
<1>16. o.kind \in FileOps /\ o.kind # "create" /\ DOMAIN nf \subseteq Names
  BY <1>2, <1>8, <1>14 DEF FileOps
<1>17. \A x \in DOMAIN nf : Gives(blk, L, todo', x, nf[x], allowed[x])
  BY <1>12, <1>13, <1>14
<1> QED
  BY <1>1, <1>8, <1>14, <1>15, <1>16, <1>17, BeginData DEF L

----------------------------------------------------------------------------
(* The contents and rpmb_fs_create() *)

LEMMA TempIsNotFinal ==
    ASSUME NEW n, NEW m
    PROVE  Final(n) # Temporary(m)
BY DEF Final, Temporary

LEMMA CreateData ==
    ASSUME WellUsed, Inv, DurInv, NEW n \in Names, NEW overwrite \in BOOLEAN,
           NEW data \in DataSeqs(1 .. 2), Create(n, overwrite, data)
    PROVE  DurInv'
<1> DEFINE L == LastIn(blk)
           h == NewHandle(n, Temporary(n))
           c == Chosen(h)
           o == CreateOf(n, overwrite, data, "write")
           e == Entry(Temporary(n), 0, 0)
           nf == [m \in {n} |-> data]
<1>1. /\ Ready /\ ~Opened /\ PoolOk(h) /\ Found(h).ent.size <= Len(data) /\ blk' = blk /\ held' = held
      /\ fh' = OpenInternal(n)
      /\ todo' = GrowFat(h) \o (IF c.ent.active THEN <<>> ELSE <<EntryWrite(fh')>>)
      /\ Begin(o, nf)
  <2>1. PoolOk(h) /\ Found(h).ent.size <= Len(data)
    BY DEF Create, WellUsed
  <2> QED
    BY <2>1 DEF Create, Device, CreateOf
<1>2. /\ ram.par /\ ~ram.dead /\ retry = 0
  BY <1>1, ReadyIs
<1>3. Table(blk, L) /\ IsDisk(blk)
  BY <1>2, Steady
<1>4. h \in HandleSet /\ h.obj = n /\ h.name = Temporary(n) /\ h.addr = 0
  BY NamesAre, NewHandleIs
<1>5. /\ OpForm(o) /\ o.kind = "create" /\ o.stage = "write" /\ o.obj = n
      /\ o.data = data /\ o.pos = 0 /\ o.mid = {}
  BY CreateOp
<1>6. fh' = IF c.ent.active THEN c ELSE [c EXCEPT !.ent = e]
  BY <1>1, Zenon DEF OpenInternal
<1>7. DOMAIN nf = {n}
  OBVIOUS
<1>8. Len(data) \in Nat
  <2>1. 1 .. 2 \subseteq Nat
    OBVIOUS
  <2>2. Len(data) \in 1 .. 2
    BY <2>1, DataSeqsAre
  <2> QED
    BY <2>2
<1> HIDE DEF L, h, o
<1>9. ASSUME \A x : Quietly(blk, L, todo', Final(x)), TempOK(blk, L, todo', Temporary(n), data, 0)
      PROVE  DurInv'
  <2>1. nf = [m \in {o.obj} |-> o.data]
    BY <1>5
  <2> HIDE DEF nf
  <2>2. o.kind \in FileOps /\ DOMAIN nf \subseteq Names
    BY <1>5, <1>7 DEF FileOps
  <2> QED
    BY <1>1, <1>5, <1>9, <2>1, <2>2, BeginData DEF L
<1>10. CASE Has(blk, L, h.name)
  <2>1. /\ c = Found(h) /\ c \in HandleSet
        /\ SlotOf(L, h.name, c.addr) /\ c.ent = EntryIn(blk, c.addr) /\ GrowFat(h) = <<>>
    BY <1>3, <1>4, <1>10, FoundHandle
  <2>2. c.ent.active /\ c.ent.size \in Nat /\ At(blk, L, Temporary(n), c.addr)
    BY <1>4, <2>1 DEF SlotOf, EntrySet, At
  <2>3. c.ent.size <= Len(data)
    BY <1>1, <2>1
  <2> HIDE DEF c
  <2>4. todo' = <<>> \o <<>>
    BY <1>1, <2>1, <2>2
  <2>5. todo' = <<>>
    BY <2>4
  <2>6. \A x : Quietly(blk, L, todo', Final(x))
    BY <2>5 DEF Quietly
  <2>7. EntryIn(blk, c.addr).size \in 0 .. Len(data) /\ \A i \in 1 .. 0 : FALSE
    BY <1>8, <2>1, <2>2, <2>3
  <2>8. Kept(blk, L, Temporary(n), data, c.addr, 0, 0)
    BY <2>2, <2>7 DEF Kept
  <2>9. TempOK(blk, L, todo', Temporary(n), data, 0)
    BY <2>5, <2>8 DEF TempOK
  <2> QED
    BY <1>9, <2>6, <2>9
<1>11. CASE ~Has(blk, L, h.name)
  <2> DEFINE w == EntryWrite(fh')
             v == [addr |-> L + 1, val |-> LastEntry, use |-> "last"]
  <2>1. /\ c \in HandleSet /\ c.addr \in FatStart .. L /\ c.ent = EntryIn(blk, c.addr) /\ ~c.ent.active
        /\ c.addr # L => GrowFat(h) = <<>>
        /\ c.addr = L => FatEnd(h) = L + 1 /\ GrowFat(h) = <<v>>
    BY <1>3, <1>4, <1>11, ChosenHandle
  <2> HIDE DEF c
  <2>2. e \in EntrySet /\ e.active /\ e.name = Temporary(n) /\ Area(e) = {}
    BY NewEntryIs, NamesAre
  <2> HIDE DEF e
  <2>3. fh' \in HandleSet /\ fh'.addr = c.addr /\ fh'.ent = e
    BY <1>6, <2>1, <2>2, WithEnt
  <2>4. w \in Writes /\ w.addr = c.addr /\ w.val = e /\ w.use = "entry"
    BY <2>3, EntryWriteIs
  <2> HIDE DEF w
  <2>5. todo' = GrowFat(h) \o <<w>>
    BY <1>1, <2>1 DEF w
  <2>6. ASSUME NEW x PROVE Quiet(blk, L, w, Final(x)) /\ Quiet(blk, L, v, Final(x))
    <3>1. Quiet(blk, L, w, Final(x))
      BY <2>1, <2>2, <2>4, TempIsNotFinal, QuietEntry
    <3>2. Quiet(blk, L, v, Final(x))
      BY DEF Quiet
    <3> QED
      BY <3>1, <3>2
  <2>7. L \in Nat
    BY <1>3, TableEnd, Consts
  <2>8. ASSUME todo' \in Seq(Writes), todo' # <<>>, todo'[Len(todo')] = w,
               \A i \in 1 .. Len(todo') : todo'[i] \in {v, w}
        PROVE  DurInv'
    <3>1. \A x : Quietly(blk, L, todo', Final(x))
      <4> HIDE DEF v
      <4> QED
        BY <2>6, <2>8, Zenon DEF Quietly
    <3>2. Stores(L, todo', Temporary(n))
      BY <2>2, <2>4, <2>8 DEF Stores
    <3>3. TempOK(blk, L, todo', Temporary(n), data, 0)
      BY <2>4, <2>8, <3>2 DEF TempOK, e
    <3> QED
      BY <1>9, <3>1, <3>3
  <2>9. CASE c.addr # L
    <3>1. todo' = <<w>>
      BY <2>1, <2>4, <2>5, <2>9, NoGrowth
    <3>2. <<w>> \in Seq(Writes) /\ Len(<<w>>) = 1 /\ <<w>>[1] = w /\ <<w>> # <<>>
      BY <2>4, OneIs
    <3>3. \A i \in 1 .. 1 : i = 1
      OBVIOUS
    <3> HIDE DEF v
    <3> QED
      BY <2>8, <3>1, <3>2, <3>3
  <2>10. CASE c.addr = L
    <3>1. FatEnd(h) = L + 1 /\ GrowFat(h) = <<v>>
      BY <2>1, <2>10
    <3>2. L + 1 < Blocks
      BY <1>1, <3>1 DEF PoolOk
    <3>3. v \in Writes
      BY <2>7, <3>2, Kinds, Consts DEF Writes, Addrs
    <3> HIDE DEF v
    <3>4. todo' \in Seq(Writes) /\ Len(todo') = 2 /\ todo'[1] = v /\ todo'[2] = w
      <4>1. todo' = Both(v, w)
        BY <2>5, <3>1 DEF Both
      <4>2. w \in Writes
        BY <2>4
      <4> QED
        BY <3>3, <4>1, <4>2, BothIs
    <3>5. todo' # <<>>
      <4>1. todo' = <<>> <=> Len(todo') = 0
        BY <3>4, Filled
      <4> QED
        BY <3>4, <4>1
    <3>6. \A i \in 1 .. 2 : i = 1 \/ i = 2
      OBVIOUS
    <3> QED
      BY <2>8, <3>4, <3>5, <3>6
  <2> QED
    BY <2>9, <2>10
<1> QED
  BY <1>10, <1>11

\* A create goes on, and the objects keep their contents.
LEMMA CreatingData ==
    ASSUME WellUsed, Inv, DurInv, op.kind = "create", todo = <<>>, ~Settles(op),
           blk' = blk, held' = held, allowed' = allowed,
           op'.kind = "create", op'.stage \in {"write", "undoing"}, op'.new = op.new, op'.before = op.before,
           op'.mid = op.mid, op'.obj = op.obj, op'.data = op.data,
           \A n \in Names : Quietly(blk, LastIn(blk), todo', Final(n)),
           op'.stage = "write" => TempOK(blk, LastIn(blk), todo', Temporary(op.obj), op.data, op'.pos)
    PROVE  DurInv'
<1>1. op.kind \in FileOps
  BY DEF FileOps
<1>2. retry = 0
  BY <1>1, Between
<1>3. History(op) /\ \A n \in DOMAIN op.new : ContentIn(blk, n) \in op.before[n] \cup op.mid
  BY <1>1, <1>2, OldData DEF DurInv
<1>4. ~Settles(op')
  BY DEF Settles
<1>5. History(op)'
  BY <1>3 DEF History
<1>6. DOMAIN op.new \subseteq Names
  BY <1>3 DEF History
<1>7. OpData(blk, LastIn(blk), todo', op')
  BY <1>3, <1>4, <1>6 DEF OpData
<1> QED
  BY <1>5, <1>7 DEF DurInv

\* The blocks of a create that are on the disk.
LEMMA CreatedData ==
    ASSUME WellUsed, Inv, DurInv, op.kind = "create", op.stage = "write", todo = <<>>,
           NEW a, At(blk, LastIn(blk), fh.name, a)
    PROVE  Kept(blk, LastIn(blk), fh.name, op.data, a, op.pos, op.pos)
<1> DEFINE L == LastIn(blk)
<1>1. op.kind \in FileOps /\ Live
  BY DEF FileOps, Live
<1>2. OpData(blk, L, todo, op)
  BY <1>1 DEF DurInv
<1>3. Table(blk, L) /\ Static(fh, op)
  BY CreateStateIs
<1> HIDE DEF L
<1>4. fh.name = Temporary(op.obj)
  BY <1>3 DEF Static
<1>5. TempOK(blk, L, <<>>, fh.name, op.data, op.pos)
  BY <1>2, <1>4 DEF OpData
<1>6. PICK x : Kept(blk, L, fh.name, op.data, x, op.pos, op.pos)
  BY <1>5 DEF TempOK
<1>7. x = a
  BY <1>3, <1>6, OneAt DEF Kept, L
<1> QED
  BY <1>6, <1>7 DEF L

LEMMA FillingSame ==
    ASSUME NEW b, NEW td \in Seq(Writes), td # <<>>, NEW D, NEW E, Filling(b, td, D),
           NEW n \in Nat, td[Len(td)].val.size = n, \A i \in 1 .. n : D[i] = E[i]
    PROVE  Filling(b, td, E)
<1> DEFINE e == td[Len(td)].val
           k == Len(td) - 1
<1>1. k \in Nat
  <2>1. Len(td) \in Nat /\ Len(td) # 0
    BY Filled
  <2> QED
    BY <2>1
<1> HIDE DEF e, k
<1>2. /\ e.size = n /\ k <= n
      /\ \A j \in 1 .. k : /\ td[j].use = "data" /\ td[j].addr = e.start + e.size - k + j - 1
                           /\ td[j].val = D[n - k + j]
      /\ \A i \in 1 .. n - k : b[e.start + i - 1] = D[i]
  BY DEF Filling, e, k
<1>3. \A j \in 1 .. k : n - k + j \in 1 .. n
  BY <1>1, <1>2
<1>4. \A i \in 1 .. n - k : i \in 1 .. n
  BY <1>1, <1>2
<1>5. \A j \in 1 .. k : td[j].val = E[n - k + j]
  BY <1>2, <1>3
<1>6. \A i \in 1 .. n - k : b[e.start + i - 1] = E[i]
  BY <1>2, <1>4
<1> QED
  BY <1>2, <1>5, <1>6 DEF Filling, e, k

LEMMA CreateWriteData ==
    ASSUME WellUsed, Inv, DurInv, CreateWrite
    PROVE  DurInv'
<1> DEFINE L == LastIn(blk)
           pos == op.pos
           data == op.data
           new == <<data[pos + 1]>>
           c == Found(fh)
           old == DataOf(c.ent)
<1>1. /\ op.kind = "create" /\ op.stage = "write" /\ todo = <<>> /\ pos < Len(data)
      /\ blk' = blk /\ held' = held /\ allowed' = allowed
  BY DEF CreateWrite, CreateAt, Device
<1>2. /\ Table(blk, L) /\ IsDisk(blk) /\ fh \in HandleSet /\ OpForm(op) /\ Static(fh, op) /\ retry = 0
  BY <1>1, CreateStateIs
<1>3. Has(blk, L, fh.name)
  BY <1>1, CreatedIs
<1>4. data \in Seq(BlockValues) /\ Len(data) \in 1 .. 2 /\ pos \in 0 .. Len(data) /\ fh.name = Temporary(op.obj)
  <2>1. 1 .. 2 \subseteq Nat
    OBVIOUS
  <2> QED
    BY <1>1, <1>2, <2>1, DataSeqsAre DEF Static
<1>5. ~Settles(op)
  BY <1>1 DEF Settles
<1>6. /\ c \in HandleSet /\ SlotOf(L, fh.name, c.addr) /\ c.ent = EntryIn(blk, c.addr)
  BY <1>2, <1>3, FoundHandle
<1>7. At(blk, L, fh.name, c.addr)
  BY <1>6 DEF At, SlotOf
<1>8. Kept(blk, L, fh.name, data, c.addr, pos, pos)
  BY <1>1, <1>7, CreatedData
<1>9. /\ pos \in Nat /\ Len(data) \in Nat /\ pos + 1 <= Len(data) /\ pos + 1 <= MaxLen /\ MaxLen \in Nat
  <2>1. ASSUME NEW k \in 1 .. 2, NEW p \in 0 .. k, p < k
        PROVE  p \in Nat /\ k \in Nat /\ p + 1 <= k /\ p + 1 <= MaxLen /\ MaxLen \in Nat
    BY <2>1, Consts DEF WellUsed
  <2> QED
    BY <1>1, <1>4, <2>1
<1>10. /\ old \in Seq(BlockValues) /\ Len(old) = c.ent.size /\ c.ent.size \in Nat
       /\ \A i \in 1 .. c.ent.size : old[i] = blk[c.ent.start + i - 1]
  <2> HIDE DEF c
  <2>1. /\ old \in Seq(BlockValues) /\ Len(old) = c.ent.size
        /\ \A i \in 1 .. c.ent.size : old[i] = blk[c.ent.start + i - 1]
    BY <1>2, <1>6, DataOfIs
  <2>2. c.ent.size \in Nat
    BY <1>6 DEF SlotOf, EntrySet
  <2> QED
    BY <2>1, <2>2
<1>11. c.ent.size \in pos .. Len(data) /\ \A i \in 1 .. pos : blk[c.ent.start + i - 1] = data[i]
  BY <1>6, <1>8 DEF Kept
<1>12. new \in Seq(BlockValues) /\ Len(new) = 1 /\ new[1] = data[pos + 1]
  <2>1. data[pos + 1] \in BlockValues
    <3> HIDE DEF BlockValues
    <3> QED
      BY <1>4, <1>9
  <2> HIDE DEF BlockValues
  <2> QED
    BY <2>1
<1> HIDE DEF L, new
<1>13. CASE /\ WriteFits(fh, pos, new) /\ todo' = WriteTodo(fh, pos, new)
            /\ op' = [op EXCEPT !.pos = @ + 1]
  <2>1. /\ op'.kind = "create" /\ op'.stage = "write" /\ op'.obj = op.obj
        /\ op'.data = data /\ op'.pos = pos + 1 /\ op'.new = op.new /\ op'.before = op.before
        /\ op'.mid = op.mid
    BY <1>1, <1>2, <1>13 DEF OpForm
  <2>2. /\ InPlace(c.ent, pos, new) => PlaceForm(L, fh.name, todo', c.addr, pos + 1, new[1])
        /\ ~InPlace(c.ent, pos, new) =>
              /\ FillForm(L, fh.name, todo', UpdateWriteHelper(old, pos, new))
              /\ UpdateWriteHelper(old, pos, new) \in Seq(BlockValues)
    <3> HIDE DEF BlockValues, pos
    <3>1. Len(new) > 0 /\ pos + Len(new) <= MaxLen
      BY <1>9, <1>12
    <3> QED
      BY <1>2, <1>3, <1>9, <1>12, <1>13, <3>1, WriteForms, Zenon
  <2>3. (\A m : m # fh.name => Quietly(blk, L, todo', m)) /\ TempOK(blk, L, todo', fh.name, data, pos + 1)
    <3>1. CASE InPlace(c.ent, pos, new)
      <4>1. PlaceForm(L, fh.name, todo', c.addr, pos + 1, new[1])
        BY <2>2, <3>1
      <4>2. c.ent.size \in pos + 1 .. Len(data) /\ (pos + 1) - 1 = pos
        BY <1>9, <1>10, <1>11, <1>12, <3>1 DEF InPlace
      <4> HIDE DEF pos, data, c
      <4>3. Kept(blk, L, fh.name, data, c.addr, (pos + 1) - 1, pos + 1)
        BY <1>6, <1>7, <1>11, <4>2 DEF Kept
      <4>4. TempOK(blk, L, todo', fh.name, data, pos + 1)
        BY <1>12, <4>1, <4>3 DEF TempOK, PlaceForm
      <4> QED
        BY <4>1, <4>4 DEF PlaceForm
    <3>2. CASE ~InPlace(c.ent, pos, new)
      <4> DEFINE u == UpdateWriteHelper(old, pos, new)
      <4>1. FillForm(L, fh.name, todo', u) /\ u \in Seq(BlockValues)
        BY <2>2, <3>2
      <4>2. c.ent.size = pos
        BY <1>9, <1>10, <1>11, <1>12, <3>2 DEF InPlace
      <4> HIDE DEF pos, data, c, old, BlockValues
      <4>3. MaxOf(Len(old), pos + Len(new)) = pos + 1 /\ pos + Len(new) = pos + 1
        BY <1>9, <1>10, <1>12, <4>2 DEF MaxOf
      <4>4. Len(u) = pos + 1
        BY <1>9, <1>10, <1>12, <4>3, HelperIs, Zenon
      <4>5. \A i \in 1 .. pos + 1 : /\ i > pos /\ i <= pos + 1 => u[i] = new[i - pos]
                                    /\ i <= pos => u[i] = BlocksOf(old, i)
        <5>1. \A i \in 1 .. MaxOf(Len(old), pos + Len(new)) :
                 /\ i > pos /\ i <= pos + Len(new) => u[i] = new[i - pos]
                 /\ i <= pos => u[i] = BlocksOf(old, i)
          BY <1>9, <1>10, <1>12, HelperAt, Zenon
        <5> HIDE DEF u
        <5> QED
          BY <4>3, <5>1
      <4> HIDE DEF u
      <4>6. ASSUME NEW i \in 1 .. pos + 1 PROVE u[i] = data[i]
        <5>1. CASE i <= pos
          <6>1. i \in 1 .. pos /\ i \in 1 .. c.ent.size /\ i <= Len(old)
            BY <1>9, <1>10, <4>2, <5>1
          <6>2. BlocksOf(old, i) = old[i]
            BY <6>1 DEF BlocksOf
          <6> QED
            BY <1>10, <1>11, <4>5, <5>1, <6>1, <6>2
        <5>2. CASE ~(i <= pos)
          <6>1. i > pos /\ i <= pos + 1 /\ i = pos + 1 /\ i - pos = 1
            BY <1>9, <5>2
          <6> QED
            BY <1>12, <4>5, <6>1
        <5> QED
          BY <5>1, <5>2
      <4>7. /\ todo' \in Seq(Writes) /\ todo' # <<>> /\ Stores(L, todo', fh.name) /\ Filling(blk, todo', u)
            /\ todo'[Len(todo')].val.size = pos + 1 /\ \A m : m # fh.name => Quietly(blk, L, todo', m)
        BY <4>1, <4>4 DEF FillForm
      <4>8. pos + 1 \in Nat
        BY <1>9
      <4>9. Filling(blk, todo', data)
        BY <4>6, <4>7, <4>8, FillingSame
      <4> QED
        BY <4>7, <4>9 DEF TempOK
    <3> QED
      BY <3>1, <3>2
  <2>4. \A n \in Names : Quietly(blk, L, todo', Final(n))
    BY <1>4, <2>3, TempIsNotFinal
  <2> QED
    BY <1>1, <1>4, <1>5, <2>1, <2>3, <2>4, CreatingData DEF L
<1>14. CASE op' = [op EXCEPT !.stage = "undo"] /\ todo' = todo
  BY <1>1, <1>2, <1>5, <1>14, UndoData
<1> QED
  BY <1>13, <1>14 DEF CreateWrite, new

LEMMA CreateUndoData ==
    ASSUME WellUsed, Inv, DurInv, CreateUndo
    PROVE  DurInv'
<1> DEFINE L == LastIn(blk)
           c == Found(fh)
           w == EntryWrite(fh')
<1>1. /\ op.kind = "create" /\ op.stage = "undo" /\ todo = <<>>
      /\ blk' = blk /\ held' = held /\ allowed' = allowed
      /\ fh' = [c EXCEPT !.ent = Cleared] /\ todo' = <<w>>
      /\ op' = [op EXCEPT !.stage = "undoing"]
  BY DEF CreateUndo, CreateAt, Device
<1>2. /\ Table(blk, L) /\ IsDisk(blk) /\ fh \in HandleSet /\ OpForm(op)
      /\ Static(fh, op) /\ FileOpOK(blk, L, todo, fh, op)
  BY <1>1, CreateStateIs
<1>3. UndoOK(blk, L, fh) /\ fh.name = Temporary(op.obj)
  BY <1>1, <1>2 DEF FileOpOK, Static
<1> HIDE DEF L, c
<1>4. c \in HandleSet /\ (EntryIn(blk, c.addr).active => EntryIn(blk, c.addr).name = Temporary(op.obj))
  <2>1. CASE Has(blk, L, fh.name)
    <3>1. c \in HandleSet /\ SlotOf(L, fh.name, c.addr)
      BY <1>2, <2>1, FoundHandle DEF c
    <3> QED
      BY <1>3, <3>1 DEF SlotOf
  <2>2. CASE ~Has(blk, L, fh.name)
    <3>1. c = fh
      BY <1>2, <2>2, FoundIs DEF c
    <3> QED
      BY <1>2, <1>3, <2>2, <3>1 DEF UndoOK
  <2> QED
    BY <2>1, <2>2
<1>5. fh' \in HandleSet /\ fh'.addr = c.addr /\ fh'.ent = Cleared
  BY <1>1, <1>4, WithEnt, Kinds
<1>6. w \in Writes /\ w.addr = c.addr /\ w.val = Cleared /\ w.use = "entry"
  BY <1>5, EntryWriteIs
<1> HIDE DEF w
<1>7. Len(todo') = 1 /\ todo'[1] = w
  BY <1>1, <1>6, OneIs
<1>8. ASSUME NEW n \in Names PROVE Quietly(blk, L, todo', Final(n))
  <2>1. Quiet(blk, L, w, Final(n))
    BY <1>4, <1>6, Kinds, TempIsNotFinal, QuietEntry
  <2> QED
    BY <1>7, <2>1, OneQuiet
<1>9. /\ op'.kind = "create" /\ op'.stage = "undoing" /\ op'.obj = op.obj /\ op'.data = op.data
      /\ op'.new = op.new /\ op'.before = op.before /\ op'.mid = op.mid
  BY <1>1, <1>2, StageIs
<1>10. ~Settles(op)
  BY <1>1 DEF Settles
<1> QED
  BY <1>1, <1>8, <1>9, <1>10, CreatingData DEF L

\* A create has all its blocks and begins to give its file the name.
LEMMA RenamingData ==
    ASSUME WellUsed, Inv, DurInv, op.kind = "create", op.stage = "write", todo = <<>>,
           blk' = blk, held' = held, op'.kind = "create", op'.stage = "rename", op'.new = op.new,
           op'.before = op.before, op'.obj = op.obj, op'.data = op.data, op.mid \subseteq op'.mid,
           op'.mid \subseteq {NoFile}, DOMAIN allowed = Names,
           allowed'[op.obj] = allowed[op.obj] \cup op'.mid,
           \A n \in Names \ {op.obj} : allowed'[n] = allowed[n],
           ContentIn(blk, op.obj) \in op.before[op.obj] \cup op'.mid =>
              Gives(blk, LastIn(blk), todo', op.obj, op.data, op.before[op.obj] \cup op'.mid),
           \A n \in Names \ {op.obj} : Quietly(blk, LastIn(blk), todo', Final(n))
    PROVE  DurInv'
<1>1. op.kind \in FileOps /\ ~Settles(op)
  BY DEF FileOps, Settles
<1>2. ram.par /\ ~ram.dead /\ retry = 0
  BY <1>1, Between
<1>3. held = {}
  BY <1>2, Steady
<1>4. History(op) /\ \A n \in DOMAIN op.new : ContentIn(blk, n) \in op.before[n] \cup op.mid
  BY <1>1, <1>2, OldData DEF DurInv
<1>5. DOMAIN op.new = {op.obj} /\ op.new[op.obj] = op.data /\ op.obj \in Names
  BY <1>4 DEF History
<1>6. allowed'[op.obj] = allowed[op.obj] \cup op'.mid /\ \A n \in Names \ {op.obj} : allowed'[n] = allowed[n]
  OBVIOUS
<1>7. \A n \in Names : ContentIn(blk, n) \in allowed'[n]
  BY <1>6 DEF DurInv
<1>8. History(op)'
  <2>1. op.before[op.obj] \cup op'.mid \cup {op.data} \subseteq allowed'[op.obj]
    BY <1>4, <1>5, <1>6 DEF History
  <2>2. op.new = [n \in {op.obj} |-> op.data]
    BY <1>4 DEF History
  <2> QED
    BY <1>5, <2>1, <2>2 DEF History
<1>9. Settles(op')
  BY DEF Settles
<1>10. ContentIn(blk, op.obj) \in op.before[op.obj] \cup op'.mid
  BY <1>4, <1>5
<1>11. OpData(blk, LastIn(blk), todo', op')
  BY <1>5, <1>9, <1>10 DEF OpData
<1> QED
  BY <1>3, <1>7, <1>8, <1>11 DEF DurInv

LEMMA CreateRenameData ==
    ASSUME WellUsed, Inv, DurInv, CreateRename
    PROVE  DurInv'
<1> DEFINE L == LastIn(blk)
           n == op.obj
           t == NewHandle(n, Temporary(n))
           f == NewHandle(n, Final(n))
           old == Found(t)
           new == Found(f)
           moved == [old EXCEPT !.ent.name = Final(n)]
           gone == [new EXCEPT !.ent = Cleared]
           w == EntryWrite(moved)
           v == EntryWrite(gone)
           D == op.data
<1>1. /\ op.kind = "create" /\ op.stage = "write" /\ todo = <<>> /\ op.pos = Len(op.data)
      /\ blk' = blk /\ held' = held
  BY DEF CreateRename, CreateAt, Device
<1>2. /\ Table(blk, L) /\ IsDisk(blk) /\ fh \in HandleSet /\ OpForm(op) /\ retry = 0
      /\ Static(fh, op) /\ DOMAIN allowed = Names /\ op.kind \in FileOps
  BY <1>1, CreateStateIs
<1>3. Has(blk, L, fh.name)
  BY <1>1, CreatedIs
<1>4. n \in Names /\ fh.name = Temporary(n) /\ D \in Seq(BlockValues) /\ Len(D) \in Nat
  <2>1. 1 .. 2 \subseteq Nat
    OBVIOUS
  <2> QED
    BY <1>1, <1>2, <2>1, DataSeqsAre DEF Static
<1>5. /\ t \in HandleSet /\ t.name = fh.name /\ f \in HandleSet /\ f.name = Final(n) /\ f.addr = 0
      /\ fh.name # Final(n) /\ Final(n) \in FileNames
  BY <1>4, NamesAre, NewHandleIs
<1>6. \/ /\ op' = [op EXCEPT !.stage = "undo"] /\ todo' = todo /\ allowed' = allowed
      \/ /\ new.addr # 0 /\ todo' = <<v, w>>
         /\ op' = [op EXCEPT !.stage = "rename", !.mid = {NoFile}]
         /\ allowed' = [allowed EXCEPT ![n] = @ \cup {NoFile}]
      \/ /\ new.addr = 0 /\ todo' = <<w>>
         /\ op' = [op EXCEPT !.stage = "rename"] /\ allowed' = allowed
  BY DEF CreateRename
<1>7. History(op)
  BY <1>2 DEF DurInv
<1> HIDE DEF n, t, f
<1>8. old \in HandleSet /\ SlotOf(L, fh.name, old.addr) /\ old.ent = EntryIn(blk, old.addr)
  BY <1>2, <1>3, <1>5, FoundHandle
<1> HIDE DEF old
<1>9. /\ moved \in HandleSet /\ moved.addr = old.addr
      /\ moved.ent \in EntrySet /\ moved.ent.size = old.ent.size /\ moved.ent.start = old.ent.start
      /\ moved.ent.active = old.ent.active /\ moved.ent.name = Final(n)
      /\ moved.ent.last = old.ent.last
  BY <1>5, <1>8, WithName
<1> HIDE DEF moved
<1>10. w \in Writes /\ w.addr = old.addr /\ w.val = moved.ent /\ w.use = "entry"
  BY <1>9, EntryWriteIs
<1> HIDE DEF w
<1>11. At(blk, L, fh.name, old.addr)
  BY <1>8 DEF At, SlotOf
<1>12. Kept(blk, L, fh.name, D, old.addr, Len(D), Len(D))
  BY <1>1, <1>11, CreatedData
<1> HIDE DEF L, D
<1>13. /\ moved.ent.size = Len(D)
       /\ \A i \in 1 .. Len(D) : blk[moved.ent.start + i - 1] = D[i]
  <2>1. old.ent.size = Len(D) /\ \A i \in 1 .. Len(D) : blk[old.ent.start + i - 1] = D[i]
    <3>1. old.ent.size \in Len(D) .. Len(D) /\ \A i \in 1 .. Len(D) : blk[old.ent.start + i - 1] = D[i]
      BY <1>8, <1>12 DEF Kept
    <3> QED
      BY <1>4, <3>1
  <2> QED
    BY <1>9, <2>1
<1>14. Area(moved.ent) \subseteq L + 1 .. Blocks - 1 /\ moved.ent.active
  <2>1. Area(moved.ent) = Area(EntryIn(blk, old.addr)) /\ moved.ent.active
    BY <1>2, <1>8, <1>9, RenameFits
  <2>2. Area(EntryIn(blk, old.addr)) \subseteq L + 1 .. Blocks - 1
    BY <1>2, <1>8 DEF Table, SlotOf
  <2> QED
    BY <2>1, <2>2
<1>15. ASSUME NEW x \in Names \ {n} PROVE Final(x) # Final(n) /\ Quiet(blk, L, w, Final(x))
  <2>1. Final(x) # Final(n) /\ Final(x) # Temporary(n)
    BY TempIsNotFinal DEF Final
  <2> QED
    BY <1>4, <1>8, <1>9, <1>10, <1>11, <2>1, QuietEntry DEF At
<1>16. CASE op' = [op EXCEPT !.stage = "undo"] /\ todo' = todo /\ allowed' = allowed
  <2>1. ~Settles(op)
    BY <1>1 DEF Settles
  <2> QED
    BY <1>1, <1>2, <1>16, <2>1, UndoData
<1>17. CASE /\ new.addr # 0 /\ todo' = <<v, w>>
            /\ op' = [op EXCEPT !.stage = "rename", !.mid = {NoFile}]
            /\ allowed' = [allowed EXCEPT ![n] = @ \cup {NoFile}]
  <2>1. Has(blk, L, Final(n))
    <3>1. SUFFICES ASSUME ~Has(blk, L, f.name) PROVE FALSE
      BY <1>5
    <3>2. Found(f) = f
      BY <1>2, <3>1, FoundIs DEF L
    <3> QED
      BY <1>5, <1>17, <3>2
  <2>2. new \in HandleSet /\ SlotOf(L, Final(n), new.addr)
    BY <1>2, <1>5, <2>1, FoundHandle DEF L
  <2> HIDE DEF new
  <2>3. gone \in HandleSet /\ gone.addr = new.addr /\ gone.ent = Cleared
    BY <2>2, WithEnt, Kinds
  <2> HIDE DEF gone
  <2>4. v \in Writes /\ v.addr = new.addr /\ v.val = Cleared /\ v.use = "entry"
    BY <2>3, EntryWriteIs
  <2> HIDE DEF v
  <2>5. /\ todo' \in Seq(Writes) /\ Len(todo') = 2 /\ todo'[1] = v /\ todo'[2] = w
    <3> DEFINE td == Two(v, w)
    <3>1. td \in Seq(Writes) /\ Len(td) = 2 /\ td[1] = v /\ td[2] = w
      BY <1>10, <2>4, TwoIs
    <3> HIDE DEF td
    <3>2. todo' = td
      BY <1>17 DEF td, Two
    <3> QED
      BY <3>1, <3>2
  <2>6. todo' # <<>>
    <3>1. todo' = <<>> <=> Len(todo') = 0
      BY <2>5, Filled
    <3> QED
      BY <2>5, <3>1
  <2>7. /\ op'.kind = "create" /\ op'.stage = "rename" /\ op'.obj = op.obj /\ op'.data = op.data
        /\ op'.new = op.new /\ op'.before = op.before /\ op'.mid = {NoFile}
    <3>1. op' = Renamed(op)
      BY <1>17, Zenon DEF Renamed
    <3> QED
      BY <1>1, <1>2, <3>1, RenamedIs
  <2>8. At(blk, L, Final(n), new.addr)
    BY <2>2 DEF At, SlotOf
  <2>9. Clears(blk, L, todo'[1], n)
    BY <2>4, <2>5, <2>8, Kinds DEF Clears
  <2>10. Stores(L, todo', Final(n))
    BY <1>9, <1>10, <1>14, <2>5, <2>6 DEF Stores
  <2>11. D = DataIn(blk, todo'[2].val)
    <3>1. D = [i \in 1 .. Len(D) |-> D[i]]
      <4> HIDE DEF BlockValues
      <4> QED
        BY <1>4
    <3> DEFINE e == moved.ent
    <3>2. e.size = Len(D) /\ \A i \in 1 .. Len(D) : blk[e.start + i - 1] = D[i]
      BY <1>13
    <3> HIDE DEF e
    <3>3. DataIn(blk, e) = [i \in 1 .. Len(D) |-> D[i]]
      BY <3>2 DEF DataIn
    <3> QED
      BY <1>10, <2>5, <3>1, <3>3 DEF e
  <2>12. ASSUME NEW B, NoFile \in B, ContentIn(blk, n) \in B PROVE Gives(blk, L, todo', n, D, B)
    <3>1. Replace(blk, L, todo', n, D, B)
      BY <2>5, <2>9, <2>10, <2>11, <2>12 DEF Replace
    <3> QED
      BY <2>6, <2>12, <3>1 DEF Gives
  <2>13. ASSUME NEW x \in Names \ {n} PROVE Quietly(blk, L, todo', Final(x))
    <3>1. Quiet(blk, L, v, Final(x))
      BY <1>15, <2>4, <2>8, Kinds, QuietEntry DEF At
    <3>2. \A i \in 1 .. 2 : i = 1 \/ i = 2
      OBVIOUS
    <3> QED
      BY <1>15, <2>5, <3>1, <3>2 DEF Quietly
  <2>14. op.mid \subseteq {NoFile}
    BY <1>7 DEF History
  <2>15. allowed'[n] = allowed[n] \cup op'.mid /\ \A x \in Names \ {n} : allowed'[x] = allowed[x]
    BY <1>2, <1>4, <1>17, <2>7
  <2> QED
    BY <1>1, <1>2, <2>7, <2>12, <2>13, <2>14, <2>15, RenamingData DEF n, D, L
<1>18. CASE /\ new.addr = 0 /\ todo' = <<w>>
            /\ op' = [op EXCEPT !.stage = "rename"] /\ allowed' = allowed
  <2>1. todo' \in Seq(Writes) /\ Len(todo') = 1 /\ todo'[1] = w
    BY <1>10, <1>18, OneIs
  <2>2. /\ op'.kind = "create" /\ op'.stage = "rename" /\ op'.obj = op.obj /\ op'.data = op.data
        /\ op'.new = op.new /\ op'.before = op.before /\ op'.mid = op.mid
    BY <1>1, <1>2, <1>18, StageIs
  <2>3. ASSUME NEW B, ContentIn(blk, n) \in B PROVE Gives(blk, L, todo', n, D, B)
    <3> DEFINE e == moved.ent
    <3>1. /\ e \in EntrySet /\ e.active /\ e.name = Final(n) /\ Area(e) \subseteq L + 1 .. Blocks - 1
          /\ Len(D) = e.size /\ \A i \in 1 .. e.size : blk[e.start + i - 1] = D[i]
      BY <1>9, <1>13, <1>14
    <3>2. todo'[1].val = e /\ todo'[1].use = "entry"
      BY <1>10, <2>1
    <3> HIDE DEF e
    <3> QED
      BY <1>4, <2>1, <2>3, <3>1, <3>2, EntryGives
  <2>4. ASSUME NEW x \in Names \ {n} PROVE Quietly(blk, L, todo', Final(x))
    BY <1>15, <2>1, OneQuiet
  <2>5. op.mid \subseteq {NoFile} /\ op.mid \subseteq allowed[n]
    <3>1. op.new = [x \in {op.obj} |-> op.data]
      BY <1>1, <1>7 DEF History
    <3>2. n \in DOMAIN op.new
      BY <3>1 DEF n
    <3> QED
      BY <1>7, <3>2 DEF History
  <2>6. allowed'[n] = allowed[n] \cup op'.mid /\ \A x \in Names \ {n} : allowed'[x] = allowed[x]
    BY <1>18, <2>2, <2>5
  <2> QED
    BY <1>1, <1>2, <2>2, <2>3, <2>4, <2>5, <2>6, RenamingData DEF n, D, L
<1> QED
  BY <1>6, <1>16, <1>17, <1>18

----------------------------------------------------------------------------
LEMMA InitData ==
    ASSUME WellUsed, Init
    PROVE  DurInv
<1>1. blk[0] # Partition
  <2>1. 0 \in 0 .. Blocks - 1
    BY Consts DEF WellUsed
  <2>2. blk[0] = Blank
    BY <2>1 DEF Init
  <2> QED
    BY <2>2, Kinds
<1>2. \A n \in Names : ContentIn(blk, n) \in allowed[n]
  BY <1>1 DEF ContentIn, Init
<1> QED
  BY <1>2, IdleTypes DEF DurInv, Init

LEMMA NextData ==
    ASSUME WellUsed, HelperFits, Inv, DurInv, [Next]_vars
    PROVE  DurInv'
<1>1. CASE UNCHANGED vars
  <2>1. /\ cnt' = cnt /\ blk' = blk /\ held' = held /\ ram' = ram /\ op' = op
        /\ todo' = todo /\ retry' = retry /\ allowed' = allowed
    BY <1>1 DEF vars
  <2>2. Live' <=> Live
    BY <2>1 DEF Live, Fresh, Req
  <2>3. History(op)' <=> History(op)
    BY <2>1 DEF History
  <2> QED
    BY <2>1, <2>2, <2>3 DEF DurInv
<1>2. CASE \E n \in Names : Open(n) \/ Rename(n)
  BY <1>2, OpenCloseData, RenameData
<1>3. CASE \E pos \in 1 .. MaxLen - 1 : \E new \in DataSeqs(1 .. MaxLen - pos) : Write(pos, new)
  BY <1>3, WriteData
<1>4. CASE \E len \in 1 .. MaxLen : Truncate(len)
  BY <1>4, TruncateData
<1>5. CASE \E n \in Names, overwrite \in BOOLEAN, data \in DataSeqs(1 .. 2) :
              Create(n, overwrite, data)
  BY <1>5, CreateData
<1> QED
  BY <1>1, <1>2, <1>3, <1>4, <1>5, SendOkData, SendRefusedData, SendLostData, AnswerLostData,
     SendSwappedData, UnsentData, LateData, PowerCutData, SetupData, SetupDummyDoneData,
     SetupFormatDoneData, OpenCloseData, RemoveData, OpDoneData, CreateWriteData, CreateRenameData,
     CreateDoneData, CreateUndoData, CreateFailsData DEF Next

\* Every object has the old or the new content of the operation that runs or
\* was cut short, and the one that its result tells after it, however many
\* requests and answers normal world loses, holds back or delivers in place
\* of others and wherever the power is cut; HelperFits keeps out the writes
\* whose rewritten tail update_write_helper() fills with zeros.
THEOREM ContentsDurable == ASSUME WellUsed, HelperFits PROVE Spec => []Durable
<1>1. Init => DurInv
  BY InitData
<1>2. Inv /\ DurInv /\ [Next]_vars => DurInv'
  BY NextData
<1>3. Inv /\ DurInv => Durable
  BY ContentReads DEF Durable, DurInv
<1> QED
  BY <1>1, <1>2, <1>3, InvHolds, PTL DEF Spec

=============================================================================
