--------------------------- MODULE StorageProofs ----------------------------
(***************************************************************************)
(* Proofs about Storage for every set of clients, of names and of flags,   *)
(* every number of files and of failures.                                  *)
(***************************************************************************)
EXTENDS Storage, FiniteSetTheorems, SequenceTheorems, TLAPS

-----------------------------------------------------------------------------
(* What the callers keep to *)

\* A handle is given up after an error, enumerations run alone, and no two
\* handles write to one object.
WellUsed ==
    /\ ~Retry /\ EnumAlone
    /\ \A flags \in OpenFlags \cup CreateFlags : "SHARE_WRITE" \notin flags

-----------------------------------------------------------------------------
(* The inductive invariant *)

\* Labels of calls that hold ree_fs_mutex, and of those that use "to".
MutexLabels == {"set_name", "remove_old", "update", "remove_file"}
ToLabels == {"rename", "rename_pobj", "release_to", "enum_open"}
EnumLabels == {"idle", "enum_get", "enum_open", "release_to", "stale_dirh"}
RemoveLabels == {"remove_old", "remove_file"}

\* What a client keeps.
ClientRecs == [pc : Labels, po : PObjs \cup {Null}, to : PObjs \cup {Null},
               flags : SUBSET FlagNames, num : Numbers \cup {Null},
               h : Handles \cup {Null}, failed : BOOLEAN,
               enum : Enumerators \cup {Null}, ent : Names \cup {Null}]

\* A call between the reservation of the new name and its release.
RenameRec(t) == t.pc \in {"rename", "rename_pobj", "release_to"} /\ t.enum = Null
Renames(c) == RenameRec(th[c])

\* The locals of a client fit the function it is in.
LocalRec(t) ==
    /\ t.pc \notin {"assert", "null_tree", "null_dir"}
    /\ t.po = Null => t.h = Null
    /\ (t.pc \in EnumLabels /\ t.po # Null) => t.h # Null
    /\ t.pc \in {"open", "create", "release"} => t.po # Null /\ t.h = Null
    /\ t.pc \in {"set_name", "remove_old", "created", "update", "remove", "remove_file"}
          => t.h # Null
    /\ t.pc = "close" => t.po # Null
    /\ RenameRec(t) => t.h # Null
    /\ (RenameRec(t) \/ t.pc \in {"remove", "remove_file"}) => "META" \in t.flags
    /\ t.to # Null <=> t.pc \in ToLabels
    /\ t.num # Null <=> t.pc \in RemoveLabels
    /\ t.pc = "enum_get" => t.ent # Null
    /\ "SHARE_WRITE" \notin t.flags
    /\ t.pc = "update" => ~t.failed /\ "WRITE" \in t.flags
    /\ (t.h # Null /\ ~t.failed) => t.h.tree
    /\ t.pc \in {"enum_get", "enum_open", "stale_dirh"} => t.enum # Null
    /\ t.enum # Null => t.pc \in EnumLabels

\* ree_fs_mutex has its holder.
MutexOK(c) == fsMutex = c <=> th[c].pc \in MutexLabels

\* Nothing runs during an enumeration, and its directory is open.
EnumOK(c) ==
    th[c].enum # Null =>
       /\ th[c].enum.dir = "current" => dirh # Null
       /\ \A u \in Clients : u # c => At(u, "idle") /\ th[u].enum = Null

LocalInv ==
    /\ \A c \in Clients : LocalRec(th[c]) /\ MutexOK(c) /\ EnumOK(c)
    /\ fsMutex # Null => dirh # Null

\* The two parts of RefsExact.
PobjRefs ==
    \A p \in PObjs :
        /\ pobj[p].refcnt = Cardinality({c \in Clients : th[c].po = p})
                            + Cardinality({c \in Clients : th[c].to = p})
        /\ pobj[p].refcnt > 0 <=> \E i \in DOMAIN tee_pobjs : tee_pobjs[i] = p
DirRefs ==
    dirhRefs = Cardinality({c \in Clients : th[c].h # Null})
               + Cardinality({c \in Clients : th[c].enum # Null /\ th[c].enum.dir # "none"})
               + Cardinality({c \in Clients : th[c].pc \in {"update", "remove_file"}})

\* The list has each object once, and the objects that have references.
ListOK ==
    /\ \A i, j \in DOMAIN tee_pobjs : tee_pobjs[i] = tee_pobjs[j] => i = j
    /\ \A p \in PObjs : pobj[p].refcnt > 0 => pobj[p].name # Null

\* Clients that share an object were opened with flags that allow it.
SharesOK(c, u) ==
    (c # u /\ th[c].po # Null /\ th[c].po = th[u].po) => CheckAccess(th[c].flags, th[u].flags)
FlagsOK(c) ==
    th[c].po # Null => \/ th[c].flags = pobj[th[c].po].flags
                       \/ CheckAccess(pobj[th[c].po].flags, th[c].flags)

\* The object that reserves the new name belongs to the rename alone.
ReservedOK(c, u) ==
    Renames(c) => /\ "META" \in pobj[th[c].to].flags
                  /\ th[u].po # th[c].to
                  /\ u # c => th[u].to # th[c].to

\* Two objects have one name only at the end of a rename.
NamesOK(p, q) ==
    (p # q /\ pobj[p].refcnt > 0 /\ pobj[q].refcnt > 0 /\ pobj[p].name = pobj[q].name) =>
        \E c \in Clients : /\ Renames(c) /\ th[c].pc = "release_to"
                           /\ \/ p = th[c].po /\ q = th[c].to
                              \/ q = th[c].po /\ p = th[c].to

SharingInv ==
    /\ ListOK
    /\ \A c \in Clients : FlagsOK(c)
    /\ \A c, u \in Clients : SharesOK(c, u) /\ ReservedOK(c, u)
    /\ \A p, q \in PObjs : NamesOK(p, q)

\* The directory: the entries in memory are those on disk, no two have one name
\* or one file, and their numbers are in use.
DirInv ==
    /\ \A i, j \in Used(dirf) : i # j => dirf[i].name # dirf[j].name /\ dirf[i].num # dirf[j].num
    /\ \A i \in Used(dirf) : dirf[i].name # Null
    /\ dirh # Null => dirh.dir = dirf /\ \A i \in Used(dirf) : dirf[i].num \in dirh.bits

\* The object whose name the entry of a client has.
ObjRec(t) == IF t.pc = "rename_pobj" THEN t.to ELSE t.po
ObjOf(c) == ObjRec(th[c])
Listed(c) ==
    /\ th[c].h.idx \in Used(dirf)
    /\ dirf[th[c].h.idx].num = th[c].h.num
    /\ dirf[th[c].h.idx].name = pobj[ObjOf(c)].name

\* A call that removes the file of a client.
Removing(c, u) ==
    /\ th[u].pc \in RemoveLabels
    /\ th[u].num = th[c].h.num /\ th[u].po = th[c].po

Exclusive(c) == "WRITE" \in th[c].flags \/ "META" \in th[c].flags
Ending == {"set_name", "remove_file", "close"}

\* A handle has the file of an entry, or a file that is being removed.
HandleOK(c) ==
    /\ (th[c].h # Null /\ th[c].h.linked /\ th[c].pc # "set_name") =>
          Listed(c) \/ \E u \in Clients : Removing(c, u)
    /\ (th[c].h # Null /\ th[c].pc \notin Ending /\ (Exclusive(c) \/ th[c].pc = "remove_old")) =>
          th[c].h.linked /\ Listed(c)

\* A handle that writes has the version that the entry names, or that the
\* entry is going to name.
VersionOK(c) ==
    (th[c].h # Null /\ "WRITE" \in th[c].flags /\ th[c].pc \notin Ending /\ ~th[c].failed) =>
        /\ files[th[c].h.num] # NoFile
        /\ files[th[c].h.num][th[c].h.slot] = th[c].h.hash
        /\ th[c].pc # "update" => dirf[th[c].h.idx].hash = th[c].h.hash

\* A file that gets its name, or is removed, has no entry.
NewOK(c) ==
    /\ th[c].pc = "set_name" =>
          /\ th[c].h.linked /\ th[c].h.slot = 2
          /\ files[th[c].h.num] = <<0, th[c].h.hash>>
          /\ th[c].h.num \in dirh.bits
          /\ \A i \in Used(dirf) : dirf[i].num # th[c].h.num
    /\ th[c].pc \in RemoveLabels => \A i \in Used(dirf) : dirf[i].num # th[c].num

\* A file without an entry belongs to a call in progress.
OrphanOK(n) ==
    (bad = 0 /\ files[n] # NoFile) =>
        \/ \E i \in Used(dirf) : dirf[i].num = n
        \/ \E c \in Clients : \/ th[c].pc = "set_name" /\ th[c].h.num = n
                              \/ th[c].pc \in RemoveLabels /\ th[c].num = n

FilesInv ==
    /\ DirInv
    /\ EntriesOpen
    /\ \A c \in Clients : HandleOK(c) /\ VersionOK(c) /\ NewOK(c)
    /\ \A n \in Numbers : OrphanOK(n)

Inv == TypeOK /\ LocalInv /\ PobjRefs /\ DirRefs /\ SharingInv /\ FilesInv

-----------------------------------------------------------------------------
(* Sets of numbers, and directories *)

\* A non-empty set of naturals has a least element, a bounded one a greatest.
LEMMA Least ==
    ASSUME NEW S, S \subseteq Nat, S # {}
    PROVE  \E m \in S : \A k \in S : m <= k
<1> DEFINE R == OpToRel(<, Nat)
<1>1. IsWellFoundedOn(R, Nat)
  BY NatLessThanWellFounded
<1>2. ASSUME NEW x \in Nat, NEW y \in Nat, x < y PROVE <<x, y>> \in R
  BY <1>2 DEF OpToRel
<1> HIDE DEF R
<1>3. PICK m \in S : \A y \in S : ~(<<y, m>> \in R)
  BY <1>1, WFMin
<1>4. ASSUME NEW k \in S PROVE m <= k
  <2>1. m \in Nat /\ k \in Nat
    OBVIOUS
  <2>2. ~(k < m)
    BY <1>2, <1>3, <2>1, Zenon
  <2> QED
    BY <2>1, <2>2
<1> QED
  BY <1>4

LEMMA MinIn ==
    ASSUME NEW S, S \subseteq Nat, S # {}
    PROVE  Min(S) \in S /\ \A y \in S : Min(S) <= y
BY Least DEF Min

LEMMA MaxIn ==
    ASSUME NEW n \in Nat, NEW S \in SUBSET (0 .. n), S # {}
    PROVE  Max(S) \in S
<1> DEFINE R == {n - x : x \in S}
<1>1. R \in SUBSET Nat
  <2>1. \A x \in S : n - x \in Nat
    OBVIOUS
  <2>2. QED
    BY <2>1
<1>2. R # {}
  OBVIOUS
<1>3. Min(R) \in R /\ \A y \in R : Min(R) <= y
  BY <1>1, <1>2, MinIn
<1>4. PICK x \in S : \A y \in S : x >= y
  <2>1. PICK x \in S : Min(R) = n - x
    BY <1>3
  <2>2. ASSUME NEW y \in S PROVE x >= y
    <3>1. n - x <= n - y
      BY <1>3, <2>1
    <3>2. x \in Int /\ y \in Int
      OBVIOUS
    <3>3. QED
      BY <3>1, <3>2
  <2>3. QED
    BY <2>2
<1>5. QED
  BY <1>4 DEF Max

LEMMA Sizes == Cardinality(Names) \in Nat /\ Cardinality(Clients) \in Nat
BY ConstantsAssumption, FS_CardinalityType

LEMMA IdxNat == Idx \subseteq Nat /\ 0 \notin Idx /\ Numbers \subseteq Nat
BY Sizes, ConstantsAssumption DEF Idx, Numbers

\* An operation always works with the entries that are on disk.
LEMMA DirhIs ==
    ASSUME TypeOK, DirInv
    PROVE  /\ Dirh \in Directories /\ Dirh # Null
           /\ Dirh.dir = dirf
           /\ \A i \in Used(dirf) : dirf[i].num \in Dirh.bits
<1>1. dirf \in [Idx -> Entries] /\ dirh \in Directories \cup {Null}
  BY DEF TypeOK
<1>2. CASE dirh = Null
  <2>1. Dirh = DirfileOpen
    BY <1>2 DEF Dirh
  <2>2. DirfileOpen.dir = dirf
    <3>1. ASSUME NEW i \in Used(dirf) PROVE ~\E j \in Used(dirf) : j < i /\ dirf[j].num = dirf[i].num
      <4>1. \A j \in Used(dirf) : j \in Nat /\ i \in Nat
        BY IdxNat DEF Used
      <4>2. QED
        BY <4>1 DEF DirInv
    <3>2. DirfileOpen.dir = [i \in Idx |-> dirf[i]]
      BY <3>1 DEF DirfileOpen
    <3>3. QED
      BY <1>1, <3>2
  <2>3. DirfileOpen.bits = {dirf[i].num : i \in Used(dirf)}
    BY DEF DirfileOpen
  <2>4. DirfileOpen.bits \subseteq Numbers
    BY <1>1, <2>3 DEF Used, Entries
  <2>5. DirfileOpen \in Directories
    BY <1>1, <2>2, <2>4 DEF DirfileOpen, Directories
  <2>6. QED
    BY <2>1, <2>2, <2>3, <2>5, NullAssumption
<1>3. CASE dirh # Null
  BY <1>1, <1>3, NullAssumption DEF Dirh, DirInv
<1>4. QED
  BY <1>2, <1>3


-----------------------------------------------------------------------------
(* Steps of a client *)

\* What f leaves of a record after the directory may have been closed.
Agree(t, f) ==
    /\ t.pc = f.pc /\ t.po = f.po /\ t.to = f.to /\ t.flags = f.flags
    /\ t.num = f.num /\ t.h = f.h /\ t.failed = f.failed /\ t.ent = f.ent
    /\ t.enum = Null <=> f.enum = Null
    /\ f.enum # Null => (t.enum.dir = "none" <=> f.enum.dir = "none")

\* A step of c, after which it is as f says and the others are as they were.
Change(c, f) ==
    /\ th' \in [Clients -> ClientRecs]
    /\ f \in ClientRecs
    /\ Agree(th'[c], f)
    /\ \A u \in Clients : u # c => Agree(th'[u], th[u])

\* The same, but for the parts of a handle that the locals do not depend on.
Near(t, f) ==
    /\ t.pc = f.pc /\ t.po = f.po /\ t.to = f.to /\ t.flags = f.flags
    /\ t.num = f.num /\ t.failed = f.failed /\ t.ent = f.ent
    /\ t.h = Null <=> f.h = Null
    /\ f.h # Null => t.h.tree = f.h.tree
    /\ t.enum = Null <=> f.enum = Null
    /\ f.enum # Null => (t.enum.dir = "none" <=> f.enum.dir = "none")
NearChange(c, f) ==
    /\ th' \in [Clients -> ClientRecs]
    /\ f \in ClientRecs
    /\ Near(th'[c], f)
    /\ \A u \in Clients : u # c => Near(th'[u], th[u])

LEMMA ChangeIsNear ==
    ASSUME NEW c \in Clients, NEW f, Change(c, f)
    PROVE  NearChange(c, f)
BY DEF Change, NearChange, Agree, Near

\* The enumerators that have a directory have the one that is open.
Current == \A u \in Clients : (th[u].enum # Null /\ th[u].enum.dir = "current") => dirh # Null

LEMMA SetChanges ==
    ASSUME TypeOK, NEW c \in Clients, NEW f \in ClientRecs, th' = Set(c, f)
    PROVE  Change(c, f)
<1>1. th \in [Clients -> ClientRecs]
  BY DEF TypeOK, ClientRecs
<1>2. th' \in [Clients -> ClientRecs] /\ th'[c] = f /\ \A u \in Clients : u # c => th'[u] = th[u]
  BY <1>1 DEF Set
<1>3. QED
  BY <1>2 DEF Change, Agree

\* Closing the directory changes nothing but the enumerators.
LEMMA StaleAgrees ==
    ASSUME NEW T \in [Clients -> ClientRecs], NEW u \in Clients
    PROVE  /\ Stale(T)[u] \in ClientRecs /\ Agree(Stale(T)[u], T[u])
           /\ Stale(T)[u].enum # Null => Stale(T)[u].enum.dir # "current"
<1>1. T[u] \in ClientRecs
  OBVIOUS
<1>2. CASE T[u].enum # Null /\ T[u].enum.dir = "current"
  <2>1. Stale(T)[u] = [T[u] EXCEPT !.enum.dir = "stale"]
    BY <1>2 DEF Stale
  <2>2. PICK e \in Enumerators : e = T[u].enum
    BY <1>1, <1>2 DEF ClientRecs
  <2>3. [e EXCEPT !.dir = "stale"] \in Enumerators /\ [e EXCEPT !.dir = "stale"].dir = "stale"
    BY DEF Enumerators
  <2>4. Stale(T)[u] = [T[u] EXCEPT !.enum = [e EXCEPT !.dir = "stale"]]
    BY <2>1, <2>2
  <2>5. [e EXCEPT !.dir = "stale"] # Null /\ e # Null
    BY <2>3, NullAssumption
  <2>6. PICK g \in Enumerators : g = [e EXCEPT !.dir = "stale"]
    BY <2>3
  <2>7. Stale(T)[u] = [T[u] EXCEPT !.enum = g]
    BY <2>4, <2>6
  <2>8. Stale(T)[u] \in ClientRecs /\ Stale(T)[u].enum = g
    BY <1>1, <2>7 DEF ClientRecs
  <2>9. g.dir = "stale" /\ g # Null
    BY <2>3, <2>5, <2>6
  <2>10. /\ Stale(T)[u].pc = T[u].pc /\ Stale(T)[u].po = T[u].po /\ Stale(T)[u].to = T[u].to
         /\ Stale(T)[u].flags = T[u].flags /\ Stale(T)[u].num = T[u].num
         /\ Stale(T)[u].h = T[u].h /\ Stale(T)[u].failed = T[u].failed
         /\ Stale(T)[u].ent = T[u].ent
    BY <1>1, <2>7 DEF ClientRecs
  <2>11. QED
    BY <1>2, <2>8, <2>9, <2>10 DEF Agree
<1>3. CASE ~(T[u].enum # Null /\ T[u].enum.dir = "current")
  <2>1. Stale(T)[u] = T[u]
    BY <1>3 DEF Stale
  <2>2. QED
    BY <1>1, <1>3, <2>1 DEF Agree
<1>4. QED
  BY <1>2, <1>3

\* put_dirh_primitive() for a step of c: the directory stays or is closed.
LEMMA PutChanges ==
    ASSUME TypeOK, NEW c \in Clients, NEW f \in ClientRecs,
           NEW d \in Directories \cup {Null}, NEW refs \in Int, NEW close \in BOOLEAN,
           PutDirh(d, refs, close, Set(c, f))
    PROVE  /\ Change(c, f)
           /\ dirhRefs' = refs
           /\ dirh' = IF close \/ refs = 0 THEN Null ELSE d
           /\ (dirh' = Null /\ d # Null) => Current'
<1>1. th \in [Clients -> ClientRecs]
  BY DEF TypeOK, ClientRecs
<1>2. PICK T : T = Set(c, f)
  OBVIOUS
<1>3. T \in [Clients -> ClientRecs] /\ T[c] = f /\ \A u \in Clients : u # c => T[u] = th[u]
  BY <1>1, <1>2 DEF Set
<1>4. CASE close \/ refs = 0
  <2>1. dirhRefs' = refs /\ dirh' = Null /\ th' = Stale(T)
    BY <1>2, <1>4 DEF PutDirh
  <2>2. \A u \in Clients : th'[u] \in ClientRecs /\ Agree(th'[u], T[u])
                           /\ (th'[u].enum # Null => th'[u].enum.dir # "current")
    BY <1>3, <2>1, StaleAgrees
  <2>3. th' \in [Clients -> ClientRecs]
    <3>1. th' = [u \in Clients |-> th'[u]]
      BY <2>1 DEF Stale
    <3>2. QED
      BY <2>2, <3>1
  <2>4. Change(c, f)
    BY <1>3, <2>2, <2>3 DEF Change
  <2>5. Current'
    BY <2>2 DEF Current
  <2>6. QED
    BY <1>4, <2>1, <2>4, <2>5
<1>5. CASE ~(close \/ refs = 0)
  <2>1. dirhRefs' = refs /\ dirh' = d /\ th' = Set(c, f)
    BY <1>2, <1>5 DEF PutDirh
  <2>2. QED
    BY <1>5, <2>1, SetChanges
<1>6. QED
  BY <1>4, <1>5


-----------------------------------------------------------------------------
(* Parts of the invariant that a step leaves alone *)

LEMMA LocalAgrees ==
    ASSUME NEW t, NEW f, Near(t, f), LocalRec(f)
    PROVE  LocalRec(t)
BY DEF Near, LocalRec, RenameRec

\* The locals, the mutex and the enumerators after a step of c.
LEMMA LocalNear ==
    ASSUME TypeOK, LocalInv, NEW c \in Clients, NEW f, NearChange(c, f), LocalRec(f), Current',
           \/ fsMutex' = fsMutex /\ (f.pc \in MutexLabels <=> th[c].pc \in MutexLabels)
           \/ fsMutex = Null /\ fsMutex' = c /\ f.pc \in MutexLabels
           \/ fsMutex = c /\ fsMutex' = Null /\ f.pc \notin MutexLabels,
           fsMutex' # Null => dirh' # Null,
           th[c].pc # "idle" \/ \A u \in Clients : u # c => th[u].enum = Null,
           f.enum # Null => \/ th[c].enum # Null
                            \/ \A u \in Clients : u # c => At(u, "idle") /\ th[u].enum = Null
    PROVE  LocalInv'
<1>1. \A u \in Clients : LocalRec(th'[u])
  BY LocalAgrees DEF NearChange, LocalInv
<1>2. Null \notin Clients
  BY NullAssumption
<1>3. \A u \in Clients : u # c => th'[u].pc = th[u].pc /\ (th'[u].enum = Null <=> th[u].enum = Null)
  BY DEF NearChange, Near
<1>4. th'[c].pc = f.pc /\ (th'[c].enum = Null <=> f.enum = Null)
  BY DEF NearChange, Near
<1>5. \A u \in Clients : MutexOK(u)'
  BY <1>2, <1>3, <1>4 DEF MutexOK, LocalInv
<1>6. ASSUME NEW u \in Clients PROVE EnumOK(u)'
  <2>1. (th'[u].enum # Null /\ th'[u].enum.dir = "current") => dirh' # Null
    BY DEF Current
  <2>2. SUFFICES ASSUME th'[u].enum # Null, NEW v \in Clients, v # u
                 PROVE  th'[v].pc = "idle" /\ th'[v].enum = Null
    BY <2>1 DEF EnumOK, At
  <2>3. \A w, x \in Clients : (th[w].enum # Null /\ w # x) => th[x].pc = "idle" /\ th[x].enum = Null
    BY DEF LocalInv, EnumOK, At
  <2>4. CASE u = c
    BY <1>3, <1>4, <2>2, <2>3, <2>4 DEF At
  <2>5. CASE u # c
    <3>1. th[u].enum # Null /\ th[c].pc = "idle"
      BY <1>3, <2>2, <2>3, <2>5
    <3>2. FALSE
      BY <3>1, <2>5
    <3>3. QED
      BY <3>2
  <2>6. QED
    BY <2>4, <2>5
<1>7. QED
  BY <1>1, <1>5, <1>6 DEF LocalInv

LEMMA LocalStep ==
    ASSUME TypeOK, LocalInv, NEW c \in Clients, NEW f, Change(c, f), LocalRec(f), Current',
           \/ fsMutex' = fsMutex /\ (f.pc \in MutexLabels <=> th[c].pc \in MutexLabels)
           \/ fsMutex = Null /\ fsMutex' = c /\ f.pc \in MutexLabels
           \/ fsMutex = c /\ fsMutex' = Null /\ f.pc \notin MutexLabels,
           fsMutex' # Null => dirh' # Null,
           th[c].pc # "idle" \/ \A u \in Clients : u # c => th[u].enum = Null,
           f.enum # Null => \/ th[c].enum # Null
                            \/ \A u \in Clients : u # c => At(u, "idle") /\ th[u].enum = Null
    PROVE  LocalInv'
BY ChangeIsNear, LocalNear

Bit(b) == IF b THEN 1 ELSE 0

\* Two sets of clients that differ in c at most.
LEMMA CardMoves ==
    ASSUME NEW A \in SUBSET Clients, NEW B \in SUBSET Clients, NEW c \in Clients,
           \A u \in Clients : u # c => (u \in A <=> u \in B)
    PROVE  /\ Cardinality(A) \in Nat /\ Cardinality(B) \in Nat
           /\ Cardinality(B) = Cardinality(A) + Bit(c \in B) - Bit(c \in A)
<1>1. IsFiniteSet(A) /\ IsFiniteSet(B)
  BY ConstantsAssumption, FS_Subset
<1>2. Cardinality(A) \in Nat /\ Cardinality(B) \in Nat
  BY <1>1, FS_CardinalityType
<1>3. CASE c \in A /\ c \in B
  <2>1. A = B
    BY <1>3
  <2>2. QED
    BY <1>2, <1>3, <2>1 DEF Bit
<1>4. CASE c \notin A /\ c \notin B
  <2>1. A = B
    BY <1>4
  <2>2. QED
    BY <1>2, <1>4, <2>1 DEF Bit
<1>5. CASE c \in A /\ c \notin B
  <2>1. B = A \ {c}
    BY <1>5
  <2>2. Cardinality(B) = Cardinality(A) - 1
    BY <1>1, <1>5, <2>1, FS_RemoveElement
  <2>3. QED
    BY <1>2, <1>5, <2>2 DEF Bit
<1>6. CASE c \notin A /\ c \in B
  <2>1. B = A \cup {c}
    BY <1>6
  <2>2. Cardinality(B) = Cardinality(A) + 1
    BY <1>1, <1>6, <2>1, FS_AddElement
  <2>3. QED
    BY <1>2, <1>6, <2>2 DEF Bit
<1>7. QED
  BY <1>3, <1>4, <1>5, <1>6

\* The references that a client has to the directory.
HasDir(t) == t.enum # Null /\ t.enum.dir # "none"
Calls(t) == t.pc \in {"update", "remove_file"}
RefsOf(t) == Bit(t.h # Null) + Bit(HasDir(t)) + Bit(Calls(t))

LEMMA DirRefsNear ==
    ASSUME DirRefs, NEW c \in Clients, NEW f, NearChange(c, f),
           dirhRefs' = dirhRefs + RefsOf(f) - RefsOf(th[c])
    PROVE  DirRefs' /\ dirhRefs' \in Nat
<1> DEFINE A == {u \in Clients : th[u].h # Null}
           AA == {u \in Clients : th'[u].h # Null}
           B == {u \in Clients : th[u].enum # Null /\ th[u].enum.dir # "none"}
           BB == {u \in Clients : th'[u].enum # Null /\ th'[u].enum.dir # "none"}
           C == {u \in Clients : th[u].pc \in {"update", "remove_file"}}
           CC == {u \in Clients : th'[u].pc \in {"update", "remove_file"}}
<1>1. /\ A \in SUBSET Clients /\ AA \in SUBSET Clients /\ B \in SUBSET Clients
      /\ BB \in SUBSET Clients /\ C \in SUBSET Clients /\ CC \in SUBSET Clients
  OBVIOUS
<1>2. \A u \in Clients : u # c => /\ (u \in A <=> u \in AA) /\ (u \in B <=> u \in BB)
                                 /\ (u \in C <=> u \in CC)
  BY DEF NearChange, Near
<1>3. /\ (c \in A <=> th[c].h # Null) /\ (c \in AA <=> f.h # Null)
      /\ (c \in B <=> HasDir(th[c])) /\ (c \in BB <=> HasDir(f))
      /\ (c \in C <=> Calls(th[c])) /\ (c \in CC <=> Calls(f))
  BY DEF NearChange, Near, HasDir, Calls
<1>4. dirhRefs = Cardinality(A) + Cardinality(B) + Cardinality(C)
  BY DEF DirRefs
<1>5. DirRefs' <=> dirhRefs' = Cardinality(AA) + Cardinality(BB) + Cardinality(CC)
  BY DEF DirRefs
<1> HIDE DEF A, AA, B, BB, C, CC
<1>6. /\ Cardinality(A) \in Nat /\ Cardinality(AA) \in Nat
      /\ Cardinality(AA) = Cardinality(A) + Bit(f.h # Null) - Bit(th[c].h # Null)
  <2>1. /\ Cardinality(A) \in Nat /\ Cardinality(AA) \in Nat
        /\ Cardinality(AA) = Cardinality(A) + Bit(c \in AA) - Bit(c \in A)
    BY <1>1, <1>2, CardMoves
  <2>2. QED
    BY <1>3, <2>1 DEF Bit
<1>7. /\ Cardinality(B) \in Nat /\ Cardinality(BB) \in Nat
      /\ Cardinality(BB) = Cardinality(B) + Bit(HasDir(f)) - Bit(HasDir(th[c]))
  <2>1. /\ Cardinality(B) \in Nat /\ Cardinality(BB) \in Nat
        /\ Cardinality(BB) = Cardinality(B) + Bit(c \in BB) - Bit(c \in B)
    BY <1>1, <1>2, CardMoves
  <2>2. QED
    BY <1>3, <2>1 DEF Bit
<1>8. /\ Cardinality(C) \in Nat /\ Cardinality(CC) \in Nat
      /\ Cardinality(CC) = Cardinality(C) + Bit(Calls(f)) - Bit(Calls(th[c]))
  <2>1. /\ Cardinality(C) \in Nat /\ Cardinality(CC) \in Nat
        /\ Cardinality(CC) = Cardinality(C) + Bit(c \in CC) - Bit(c \in C)
    BY <1>1, <1>2, CardMoves
  <2>2. QED
    BY <1>3, <2>1 DEF Bit
<1>9. /\ Bit(f.h # Null) \in Int /\ Bit(th[c].h # Null) \in Int
      /\ Bit(HasDir(f)) \in Int /\ Bit(HasDir(th[c])) \in Int
      /\ Bit(Calls(f)) \in Int /\ Bit(Calls(th[c])) \in Int
  BY DEF Bit
<1>10. QED
  BY <1>4, <1>5, <1>6, <1>7, <1>8, <1>9 DEF RefsOf

LEMMA DirRefsStep ==
    ASSUME DirRefs, NEW c \in Clients, NEW f, Change(c, f),
           dirhRefs' = dirhRefs + RefsOf(f) - RefsOf(th[c])
    PROVE  DirRefs' /\ dirhRefs' \in Nat
BY ChangeIsNear, DirRefsNear

\* The references to objects after a step that takes and drops none.
LEMMA PobjRefsNear ==
    ASSUME PobjRefs, NEW c \in Clients, NEW f, NearChange(c, f),
           f.po = th[c].po, f.to = th[c].to,
           tee_pobjs' = tee_pobjs, \A p \in PObjs : pobj'[p].refcnt = pobj[p].refcnt
    PROVE  PobjRefs'
<1>1. \A u \in Clients : th'[u].po = th[u].po /\ th'[u].to = th[u].to
  BY DEF NearChange, Near
<1>2. ASSUME NEW p \in PObjs
      PROVE  /\ {u \in Clients : th'[u].po = p} = {u \in Clients : th[u].po = p}
             /\ {u \in Clients : th'[u].to = p} = {u \in Clients : th[u].to = p}
  BY <1>1
<1>3. QED
  BY <1>2 DEF PobjRefs

LEMMA PobjRefsKept ==
    ASSUME PobjRefs, NEW c \in Clients, NEW f, Change(c, f),
           f.po = th[c].po, f.to = th[c].to,
           tee_pobjs' = tee_pobjs, \A p \in PObjs : pobj'[p].refcnt = pobj[p].refcnt
    PROVE  PobjRefs'
BY ChangeIsNear, PobjRefsNear


\* Names and flags after a step that takes and drops no object.
LEMMA SharingNear ==
    ASSUME SharingInv, NEW c \in Clients, NEW f, NearChange(c, f),
           f.po = th[c].po, f.to = th[c].to, f.flags = th[c].flags,
           RenameRec(f) <=> RenameRec(th[c]), th[c].pc = "release_to" => f.pc = "release_to",
           tee_pobjs' = tee_pobjs,
           \A p \in PObjs : /\ pobj'[p].refcnt = pobj[p].refcnt /\ pobj'[p].name = pobj[p].name
                            /\ pobj'[p].flags = pobj[p].flags,
           TypeOK, LocalInv
    PROVE  SharingInv'
<1>1. \A u \in Clients : /\ th'[u].po = th[u].po /\ th'[u].to = th[u].to
                         /\ th'[u].flags = th[u].flags
                         /\ RenameRec(th'[u]) <=> RenameRec(th[u])
                         /\ th[u].pc = "release_to" => th'[u].pc = "release_to"
  BY DEF NearChange, Near, RenameRec
<1>2. \A u \in Clients : th[u].po \in PObjs \cup {Null} /\ th[u].to \in PObjs \cup {Null}
  BY DEF TypeOK
<1>3. ListOK'
  BY DEF ListOK, SharingInv
<1>4. \A u \in Clients : FlagsOK(u)'
  BY <1>1, <1>2 DEF FlagsOK, SharingInv
<1>5. \A u, v \in Clients : SharesOK(u, v)'
  BY <1>1 DEF SharesOK, SharingInv
<1>6. ASSUME NEW u \in Clients, NEW v \in Clients PROVE ReservedOK(u, v)'
  <2>1. Renames(u)' <=> Renames(u)
    BY <1>1 DEF Renames
  <2>2. Renames(u) => th[u].to \in PObjs
    BY <1>2 DEF LocalInv, LocalRec, Renames, RenameRec, ToLabels
  <2>3. QED
    BY <1>1, <2>1, <2>2 DEF ReservedOK, SharingInv
<1>7. ASSUME NEW p \in PObjs, NEW q \in PObjs PROVE NamesOK(p, q)'
  <2>1. NamesOK(p, q)
    BY DEF SharingInv
  <2>2. \A u \in Clients : Renames(u)' <=> Renames(u)
    BY <1>1 DEF Renames
  <2>3. QED
    BY <1>1, <2>1, <2>2 DEF NamesOK
<1>8. QED
  BY <1>3, <1>4, <1>5, <1>6, <1>7 DEF SharingInv

LEMMA SharingKept ==
    ASSUME SharingInv, NEW c \in Clients, NEW f, Change(c, f),
           f.po = th[c].po, f.to = th[c].to, f.flags = th[c].flags,
           RenameRec(f) <=> RenameRec(th[c]), th[c].pc = "release_to" => f.pc = "release_to",
           tee_pobjs' = tee_pobjs,
           \A p \in PObjs : /\ pobj'[p].refcnt = pobj[p].refcnt /\ pobj'[p].name = pobj[p].name
                            /\ pobj'[p].flags = pobj[p].flags,
           TypeOK, LocalInv
    PROVE  SharingInv'
BY ChangeIsNear, SharingNear

\* Files and handles after a step that changes neither the storage nor the
\* part of a handle that the invariant is about.
LEMMA FilesKept ==
    ASSUME TypeOK, LocalInv, FilesInv, NEW c \in Clients, NEW f, Change(c, f),
           dirf' = dirf, files' = files, bad' = 0 => bad = 0,
           \/ dirh' = Null
           \/ dirh'.dir = dirf /\ \A i \in Used(dirf) : dirf[i].num \in dirh'.bits,
           (fsMutex # Null /\ fsMutex # c) => dirh' = dirh,
           th[c].pc \notin RemoveLabels \cup {"set_name"},
           f.pc \notin RemoveLabels \cup {"set_name", "update"},
           f.h # Null =>
              /\ th[c].h # Null
              /\ f.h.num = th[c].h.num /\ f.h.idx = th[c].h.idx /\ f.h.hash = th[c].h.hash
              /\ f.h.slot = th[c].h.slot /\ f.h.linked = th[c].h.linked
              /\ f.flags = th[c].flags /\ f.po = th[c].po
              /\ (th[c].failed \/ th[c].pc = "update") => f.failed
              /\ th[c].pc \in Ending => f.pc \in Ending
              /\ pobj'[ObjRec(f)].name = pobj[ObjOf(c)].name,
           \A u \in Clients : (u # c /\ th[u].h # Null) =>
                                 pobj'[ObjOf(u)].name = pobj[ObjOf(u)].name
    PROVE  FilesInv'
<1>1. DirInv'
  BY DEF DirInv, FilesInv, Used
<1>2. EntriesOpen'
  BY DEF EntriesOpen, FilesInv, Opens, Used
<1>3. \A u \in Clients : u # c =>
         /\ th'[u].pc = th[u].pc /\ th'[u].h = th[u].h /\ th'[u].po = th[u].po
         /\ th'[u].to = th[u].to /\ th'[u].num = th[u].num
         /\ th'[u].flags = th[u].flags /\ th'[u].failed = th[u].failed
  BY DEF Change, Agree
<1>4. /\ th'[c].pc = f.pc /\ th'[c].h = f.h /\ th'[c].po = f.po /\ th'[c].to = f.to
      /\ th'[c].flags = f.flags /\ th'[c].failed = f.failed
  BY DEF Change, Agree
<1>5. \A u \in Clients : (u # c \/ f.h # Null) => (Listed(u)' <=> Listed(u)) \/ th[u].h = Null
  <2>1. \A u \in Clients : u # c => ObjOf(u)' = ObjOf(u)
    BY <1>3 DEF ObjOf, ObjRec
  <2>2. ObjOf(c)' = ObjRec(f)
    BY <1>4 DEF ObjOf, ObjRec
  <2>3. Used(dirf)' = Used(dirf)
    BY DEF Used
  <2>4. ASSUME NEW u \in Clients, u # c, th[u].h # Null PROVE Listed(u)' <=> Listed(u)
    BY <1>3, <2>1, <2>3, <2>4 DEF Listed
  <2>5. ASSUME f.h # Null PROVE Listed(c)' <=> Listed(c)
    BY <1>4, <2>2, <2>3, <2>5 DEF Listed
  <2>6. QED
    BY <2>4, <2>5
<1>6. ASSUME NEW u \in Clients, th'[u].h # Null, NEW v \in Clients, Removing(u, v)
      PROVE  Removing(u, v)'
  BY <1>3, <1>4, <1>6 DEF Removing
<1>7. ASSUME NEW u \in Clients PROVE HandleOK(u)'
  <2>1. HandleOK(u)
    BY DEF FilesInv
  <2>2. CASE u # c
    BY <1>3, <1>5, <1>6, <2>1, <2>2 DEF HandleOK, Exclusive
  <2>3. CASE u = c
    BY <1>4, <1>5, <1>6, <2>1, <2>3 DEF HandleOK, Exclusive, Ending, RemoveLabels
  <2>4. QED
    BY <2>2, <2>3
<1>8. ASSUME NEW u \in Clients PROVE VersionOK(u)'
  <2>1. VersionOK(u)
    BY DEF FilesInv
  <2>2. CASE u # c
    BY <1>3, <2>1, <2>2 DEF VersionOK
  <2>3. CASE u = c
    BY <1>4, <2>1, <2>3 DEF VersionOK, Ending
  <2>4. QED
    BY <2>2, <2>3
<1>9. ASSUME NEW u \in Clients PROVE NewOK(u)'
  <2>1. CASE u # c
    <3>1. th[u].pc = "set_name" => dirh' = dirh
      BY <2>1, NullAssumption DEF LocalInv, MutexOK, MutexLabels
    <3>2. QED
      BY <1>3, <2>1, <3>1 DEF NewOK, FilesInv, Used
  <2>2. CASE u = c
    BY <1>4, <2>2 DEF NewOK, RemoveLabels
  <2>3. QED
    BY <2>1, <2>2
<1>10. ASSUME NEW n \in Numbers PROVE OrphanOK(n)'
  BY <1>3 DEF OrphanOK, FilesInv, Used, RemoveLabels
<1>11. QED
  BY <1>1, <1>2, <1>7, <1>8, <1>9, <1>10 DEF FilesInv


-----------------------------------------------------------------------------
(* Steps that change neither the storage nor an object *)

\* f is a later state of a client that was in state t.
QuietRec(t, f) ==
    /\ f \in ClientRecs /\ LocalRec(f)
    /\ f.po = t.po /\ f.to = t.to /\ f.flags = t.flags
    /\ RenameRec(f) <=> RenameRec(t)
    /\ t.pc = "release_to" => f.pc = "release_to"
    /\ t.pc \notin RemoveLabels \cup {"set_name"}
    /\ f.pc \notin RemoveLabels \cup {"set_name", "update"}
    /\ f.h # Null =>
          /\ t.h # Null
          /\ f.h.num = t.h.num /\ f.h.idx = t.h.idx /\ f.h.hash = t.h.hash
          /\ f.h.slot = t.h.slot /\ f.h.linked = t.h.linked
          /\ (t.failed \/ t.pc = "update") => f.failed
          /\ t.pc \in Ending => f.pc \in Ending
          /\ ObjRec(f) = ObjRec(t)

\* No enumeration of another client is running, and c may start one.
Alone(c, f) ==
    /\ th[c].pc # "idle" \/ \A u \in Clients : u # c => th[u].enum = Null
    /\ f.enum # Null => \/ th[c].enum # Null
                        \/ \A u \in Clients : u # c => At(u, "idle") /\ th[u].enum = Null

\* The mutex stays with a call that goes on, or is given back.
MutexStep(c, f) ==
    \/ fsMutex' = fsMutex /\ (f.pc \in MutexLabels <=> th[c].pc \in MutexLabels)
    \/ fsMutex = c /\ fsMutex' = Null /\ f.pc \notin MutexLabels

LEMMA QuietStep ==
    ASSUME Inv, NEW c \in Clients, NEW f, Change(c, f), QuietRec(th[c], f), Alone(c, f),
           Current', MutexStep(c, f), fsMutex' # Null => dirh' # Null,
           dirhRefs' = dirhRefs + RefsOf(f) - RefsOf(th[c]),
           dirf' = dirf, files' = files, hashes' = hashes, pobj' = pobj, tee_pobjs' = tee_pobjs,
           bad' \in 0 .. MaxBad, bad' = 0 => bad = 0,
           dirh' \in {Null, dirh, Dirh},
           (fsMutex # Null /\ fsMutex # c) => dirh' = dirh
    PROVE  Inv'
<1>1. LocalInv'
  BY LocalStep DEF Inv, QuietRec, Alone, MutexStep
<1>2. DirRefs' /\ dirhRefs' \in Nat
  BY DirRefsStep DEF Inv
<1>3. PobjRefs'
  BY PobjRefsKept DEF Inv, QuietRec
<1>4. SharingInv'
  BY SharingKept DEF Inv, QuietRec
<1>5. /\ Dirh \in Directories /\ Dirh.dir = dirf
      /\ \A i \in Used(dirf) : dirf[i].num \in Dirh.bits
  BY DirhIs DEF Inv, FilesInv
<1>6. \/ dirh' = Null
      \/ dirh'.dir = dirf /\ \A i \in Used(dirf) : dirf[i].num \in dirh'.bits
  BY <1>5 DEF Inv, FilesInv, DirInv
<1>7. FilesInv'
  BY <1>6, FilesKept DEF Inv, QuietRec, ObjOf
<1>8. dirh' \in Directories \cup {Null} /\ fsMutex' \in Clients \cup {Null}
  BY <1>5 DEF Inv, TypeOK, MutexStep
<1>9. TypeOK'
  BY <1>2, <1>8 DEF Inv, TypeOK, Change, ClientRecs
<1>10. QED
  BY <1>1, <1>2, <1>3, <1>4, <1>7, <1>9 DEF Inv

LEMMA InvTypes ==
    ASSUME Inv, NEW c \in Clients
    PROVE  /\ th \in [Clients -> ClientRecs] /\ th[c] \in ClientRecs /\ LocalRec(th[c])
           /\ dirhRefs \in Nat /\ bad \in 0 .. MaxBad /\ bad \in Int /\ MaxBad \in Nat
           /\ Dirh \in Directories /\ Dirh # Null /\ Dirh.dir = dirf
           /\ dirh \in Directories \cup {Null} /\ (fsMutex # Null => dirh # Null)
           /\ Current /\ (fsMutex = c <=> th[c].pc \in MutexLabels) /\ c # Null
<1>1. /\ th \in [Clients -> ClientRecs] /\ th[c] \in ClientRecs
      /\ dirhRefs \in Nat /\ bad \in 0 .. MaxBad /\ dirh \in Directories \cup {Null}
  BY DEF Inv, TypeOK, ClientRecs
<1>2. Dirh \in Directories /\ Dirh # Null /\ Dirh.dir = dirf
  BY DirhIs DEF Inv, FilesInv
<1>3. LocalRec(th[c]) /\ (fsMutex # Null => dirh # Null) /\ (fsMutex = c <=> th[c].pc \in MutexLabels)
  BY DEF Inv, LocalInv, MutexOK
<1>4. Current
  BY DEF Inv, LocalInv, EnumOK, Current
<1>5. QED
  BY <1>1, <1>2, <1>3, <1>4, ConstantsAssumption, NullAssumption

\* A step that only moves the client.
LEMMA QuietSet ==
    ASSUME Inv, NEW c \in Clients, NEW f, th' = Set(c, f), QuietRec(th[c], f), Alone(c, f),
           f.pc \in MutexLabels <=> th[c].pc \in MutexLabels, RefsOf(f) = RefsOf(th[c]),
           f.enum # Null => th[c].enum # Null /\ f.enum.dir = th[c].enum.dir,
           UNCHANGED <<diskVars, dirhVars, pobjVars, bad>>
    PROVE  Inv'
<1>1. f \in ClientRecs
  BY DEF QuietRec
<1>2. Change(c, f)
  BY <1>1, SetChanges DEF Inv
<1>3. Current'
  <2>1. th \in [Clients -> ClientRecs] /\ Current
    BY InvTypes
  <2>2. \A u \in Clients : th'[u] = IF u = c THEN f ELSE th[u]
    BY <2>1 DEF Set
  <2>3. QED
    BY <2>1, <2>2 DEF Current, dirhVars
<1>4. dirhRefs' = dirhRefs + RefsOf(f) - RefsOf(th[c])
  <2>1. dirhRefs \in Nat
    BY InvTypes
  <2>2. RefsOf(f) \in Int
    BY DEF RefsOf, Bit
  <2>3. QED
    BY <2>1, <2>2 DEF dirhVars
<1>5. bad' \in 0 .. MaxBad /\ (fsMutex' # Null => dirh' # Null)
  BY InvTypes DEF dirhVars
<1>6. QED
  BY <1>2, <1>3, <1>4, <1>5, QuietStep DEF MutexStep, diskVars, dirhVars, pobjVars

\* A step that ends with put_dirh_primitive().
LEMMA QuietPut ==
    ASSUME Inv, NEW c \in Clients, NEW f, NEW d \in {dirh, Dirh}, NEW refs \in Int,
           NEW close \in BOOLEAN, PutDirh(d, refs, close, Set(c, f)),
           QuietRec(th[c], f), Alone(c, f), MutexStep(c, f), f.pc \notin MutexLabels,
           fsMutex \in {Null, c},
           f.enum # Null => \/ th[c].enum # Null /\ f.enum.dir = th[c].enum.dir
                            \/ d = Dirh,
           refs = dirhRefs + RefsOf(f) - RefsOf(th[c]),
           UNCHANGED <<dirf, files, hashes, pobj, tee_pobjs>>,
           bad' = bad \/ (bad < MaxBad /\ bad' = bad + 1)
    PROVE  Inv'
<1>1. /\ f \in ClientRecs /\ dirh \in Directories \cup {Null} /\ Dirh \in Directories
      /\ Dirh # Null /\ Current /\ bad \in 0 .. MaxBad /\ MaxBad \in Nat
      /\ fsMutex = c <=> th[c].pc \in MutexLabels
      /\ c # Null
  BY InvTypes DEF QuietRec
<1>2. /\ Change(c, f) /\ dirhRefs' = refs
      /\ dirh' = IF close \/ refs = 0 THEN Null ELSE d
      /\ (dirh' = Null /\ d # Null) => Current'
  BY <1>1, PutChanges DEF Inv
<1>3. Current'
  <2>1. CASE dirh' # Null
    BY <2>1 DEF Current
  <2>2. CASE dirh' = Null /\ d = Null
    <3>1. d = dirh /\ d # Dirh
      BY <1>1, <2>2
    <3>2. \A u \in Clients : th[u].enum # Null => th[u].enum.dir # "current"
      BY <1>1, <2>2, <3>1 DEF Current
    <3>3. PICK T : T = Set(c, f)
      OBVIOUS
    <3>4. T \in [Clients -> ClientRecs] /\ T[c] = f /\ \A u \in Clients : u # c => T[u] = th[u]
      <4>1. th \in [Clients -> ClientRecs]
        BY InvTypes
      <4>2. QED
        BY <1>1, <3>3, <4>1 DEF Set
    <3>5. CASE close \/ refs = 0
      <4>1. th' = Stale(T)
        BY <3>3, <3>5 DEF PutDirh
      <4>2. QED
        BY <3>4, <4>1, StaleAgrees DEF Current
    <3>6. CASE ~(close \/ refs = 0)
      <4>1. th' = T
        BY <3>3, <3>6 DEF PutDirh
      <4>2. QED
        BY <3>1, <3>2, <3>4, <4>1 DEF Current
    <3>7. QED
      BY <3>5, <3>6
  <2>3. QED
    BY <1>2, <2>1, <2>2
<1>4. dirh' \in {Null, dirh, Dirh}
  BY <1>2
<1>5. fsMutex' = Null
  BY <1>1 DEF MutexStep
<1>6. bad' \in 0 .. MaxBad /\ (bad' = 0 => bad = 0)
  BY <1>1
<1>7. QED
  BY <1>2, <1>3, <1>4, <1>5, <1>6, QuietStep


\* The fields of a client.
Fields(f, pc, po, to, flags, num, h, failed, enum, ent) ==
    /\ f \in ClientRecs
    /\ f.pc = pc /\ f.po = po /\ f.to = to /\ f.flags = flags /\ f.num = num
    /\ f.h = h /\ f.failed = failed /\ f.enum = enum /\ f.ent = ent

LEMMA Moved ==
    ASSUME NEW t \in ClientRecs, NEW l \in Labels
    PROVE  Fields([t EXCEPT !.pc = l],
                  l, t.po, t.to, t.flags, t.num, t.h, t.failed, t.enum, t.ent)
BY DEF Fields, ClientRecs

LEMMA CloseStep ==
    ASSUME Inv, WellUsed, NEW c \in Clients, Close(c)
    PROVE  Inv'
<1>1. th[c] \in ClientRecs /\ LocalRec(th[c])
  BY InvTypes
<1>2. PICK f : f = [th[c] EXCEPT !.pc = "close"]
  OBVIOUS
<1>3. Fields(f, "close", th[c].po, th[c].to, th[c].flags, th[c].num, th[c].h, th[c].failed, th[c].enum, th[c].ent)
  BY <1>1, <1>2, Moved DEF Labels
<1>4. th' = Set(c, f)
  BY <1>2 DEF Close, Goto
<1>5. QuietRec(th[c], f)
  BY <1>1, <1>3 DEF Close, At, MayStart, WellUsed, Fields, QuietRec, LocalRec, RenameRec,
     ObjRec, Ending, RemoveLabels, ToLabels, EnumLabels, MutexLabels
<1>6. Alone(c, f)
  BY <1>3 DEF Close, At, MayStart, Alone, Fields, WellUsed
<1>7. RefsOf(f) = RefsOf(th[c])
  BY <1>3 DEF Close, At, MayStart, RefsOf, HasDir, Calls, Fields
<1>8. QED
  BY <1>3, <1>4, <1>5, <1>6, <1>7, QuietSet DEF Close, At, MayStart, Fields, MutexLabels

LEMMA CreateTransformedStep ==
    ASSUME Inv, WellUsed, NEW c \in Clients, CreateTransformed(c)
    PROVE  Inv'
<1>1. th[c] \in ClientRecs /\ LocalRec(th[c])
  BY InvTypes
<1>2. PICK f : f = [th[c] EXCEPT !.pc = "idle"]
  OBVIOUS
<1>3. Fields(f, "idle", th[c].po, th[c].to, th[c].flags, th[c].num, th[c].h, th[c].failed, th[c].enum, th[c].ent)
  BY <1>1, <1>2, Moved DEF Labels
<1>4. th' = Set(c, f)
  BY <1>2 DEF CreateTransformed, Goto
<1>5. QuietRec(th[c], f)
  BY <1>1, <1>3 DEF CreateTransformed, At, WellUsed, Fields, QuietRec, LocalRec, RenameRec,
     ObjRec, Ending, RemoveLabels, ToLabels, EnumLabels, MutexLabels
<1>6. Alone(c, f)
  BY <1>3 DEF CreateTransformed, At, Alone, Fields, WellUsed
<1>7. RefsOf(f) = RefsOf(th[c])
  BY <1>3 DEF CreateTransformed, At, RefsOf, HasDir, Calls, Fields
<1>8. QED
  BY <1>3, <1>4, <1>5, <1>6, <1>7, QuietSet DEF CreateTransformed, At, Fields, MutexLabels

LEMMA DeleteStep ==
    ASSUME Inv, WellUsed, NEW c \in Clients, Delete(c)
    PROVE  Inv'
<1>1. th[c] \in ClientRecs /\ LocalRec(th[c])
  BY InvTypes
<1>2. PICK f : f = [th[c] EXCEPT !.pc = "remove"]
  OBVIOUS
<1>3. Fields(f, "remove", th[c].po, th[c].to, th[c].flags, th[c].num, th[c].h, th[c].failed, th[c].enum, th[c].ent)
  BY <1>1, <1>2, Moved DEF Labels
<1>4. th' = Set(c, f)
  BY <1>2 DEF Delete, Goto
<1>5. QuietRec(th[c], f)
  BY <1>1, <1>3 DEF Delete, At, MayStart, WellUsed, Fields, QuietRec, LocalRec, RenameRec,
     ObjRec, Ending, RemoveLabels, ToLabels, EnumLabels, MutexLabels
<1>6. Alone(c, f)
  BY <1>3 DEF Delete, At, MayStart, Alone, Fields, WellUsed
<1>7. RefsOf(f) = RefsOf(th[c])
  BY <1>3 DEF Delete, At, MayStart, RefsOf, HasDir, Calls, Fields
<1>8. QED
  BY <1>3, <1>4, <1>5, <1>6, <1>7, QuietSet DEF Delete, At, MayStart, Fields, MutexLabels

LEMMA CloseFopStep ==
    ASSUME Inv, WellUsed, NEW c \in Clients, CloseFop(c)
    PROVE  Inv'
<1>1. CASE th[c].h = Null
  <2>1. th[c] \in ClientRecs /\ LocalRec(th[c])
    BY InvTypes
  <2>2. PICK f : f = [th[c] EXCEPT !.pc = "release"]
    OBVIOUS
  <2>3. Fields(f, "release", th[c].po, th[c].to, th[c].flags, th[c].num, th[c].h, th[c].failed, th[c].enum, th[c].ent)
    BY <2>1, <2>2, Moved DEF Labels
  <2>4. th' = Set(c, f)
    BY <2>2, <1>1 DEF CloseFop, Goto
  <2>5. QuietRec(th[c], f)
    BY <2>1, <2>3, <1>1 DEF CloseFop, At, WellUsed, Fields, QuietRec, LocalRec, RenameRec,
       ObjRec, Ending, RemoveLabels, ToLabels, EnumLabels, MutexLabels
  <2>6. Alone(c, f)
    BY <2>3, <1>1 DEF CloseFop, At, WellUsed, Alone, Fields
  <2>7. RefsOf(f) = RefsOf(th[c])
    BY <2>3, <1>1 DEF CloseFop, At, WellUsed, RefsOf, HasDir, Calls, Fields
  <2>8. UNCHANGED <<diskVars, dirhVars, pobjVars, bad>>
    BY <1>1 DEF CloseFop, At, WellUsed, diskVars, dirhVars, pobjVars
  <2>9. QED
    BY <2>3, <2>4, <2>5, <2>6, <2>7, <2>8, <1>1, QuietSet DEF CloseFop, At, WellUsed, Fields,
       MutexLabels
<1>2. CASE th[c].h # Null
  <2>1. th[c] \in ClientRecs /\ LocalRec(th[c]) /\ dirhRefs \in Nat /\ bad \in Int /\ c # Null
       /\ (fsMutex = c <=> th[c].pc \in MutexLabels)
    BY InvTypes
  <2>2. PICK f : f = [th[c] EXCEPT !.pc = "release", !.h = Null]
    OBVIOUS
  <2>3. Fields(f, "release", th[c].po, th[c].to, th[c].flags, th[c].num, Null, th[c].failed, th[c].enum, th[c].ent)
    BY <2>1, <2>2, <1>2 DEF Fields, ClientRecs, Labels
  <2>4. PutDirh(dirh, dirhRefs - 1, FALSE, Set(c, f))
    BY <2>2, <1>2 DEF CloseFop, Goto
  <2>5. QuietRec(th[c], f)
    BY <2>1, <2>3, <1>2 DEF CloseFop, At, WellUsed, Fields, QuietRec, LocalRec, RenameRec,
       ObjRec, Ending, RemoveLabels, ToLabels, EnumLabels, MutexLabels
  <2>6. Alone(c, f)
    BY <2>3, <1>2 DEF CloseFop, At, WellUsed, Alone, Fields
  <2>7. dirhRefs - 1 = dirhRefs + RefsOf(f) - RefsOf(th[c])
    BY <2>1, <2>3, <1>2 DEF CloseFop, At, WellUsed, RefsOf, HasDir, Calls, Bit, Fields, LocalRec
  <2>8. bad' = bad \/ (bad < MaxBad /\ bad' = bad + 1)
    BY <2>1, <1>2 DEF CloseFop, At, WellUsed
  <2>9. MutexStep(c, f) /\ f.pc \notin MutexLabels /\ fsMutex \in {Null, c}
    BY <2>1, <2>3, <1>2 DEF CloseFop, At, WellUsed, Fields, MutexStep, MutexLabels
  <2>10. f.enum # Null => (th[c].enum # Null /\ f.enum.dir = th[c].enum.dir) \/ dirh = Dirh
    BY <2>3, <1>2 DEF Fields
  <2>11. UNCHANGED <<dirf, files, hashes, pobj, tee_pobjs>>
    BY <1>2 DEF CloseFop, diskVars, pobjVars
  <2>12. dirhRefs - 1 \in Int /\ FALSE \in BOOLEAN /\ dirh \in {dirh, Dirh}
    BY <2>1
  <2>13. QED
    BY <2>4, <2>5, <2>6, <2>7, <2>8, <2>9, <2>10, <2>11, <2>12, QuietPut
<1>3. QED
  BY <1>1, <1>2

LEMMA CreateFileFailsStep ==
    ASSUME Inv, WellUsed, NEW c \in Clients, CreateFileFails(c)
    PROVE  Inv'
<1>1. th[c] \in ClientRecs /\ LocalRec(th[c]) /\ dirhRefs \in Nat /\ bad \in Int /\ c # Null
     /\ (fsMutex = c <=> th[c].pc \in MutexLabels)
  BY InvTypes
<1>2. PICK f : f = [th[c] EXCEPT !.pc = "release"]
  OBVIOUS
<1>3. Fields(f, "release", th[c].po, th[c].to, th[c].flags, th[c].num, th[c].h, th[c].failed, th[c].enum, th[c].ent)
  BY <1>1, <1>2, Moved DEF Labels
<1>4. PutDirh(Dirh, dirhRefs, TRUE, Set(c, f))
  BY <1>2 DEF CreateFileFails, Goto
<1>5. QuietRec(th[c], f)
  BY <1>1, <1>3 DEF CreateFileFails, At, WellUsed, Fails, Fields, QuietRec, LocalRec, RenameRec,
     ObjRec, Ending, RemoveLabels, ToLabels, EnumLabels, MutexLabels
<1>6. Alone(c, f)
  BY <1>3 DEF CreateFileFails, At, WellUsed, Fails, Alone, Fields
<1>7. dirhRefs = dirhRefs + RefsOf(f) - RefsOf(th[c])
  BY <1>1, <1>3 DEF CreateFileFails, At, WellUsed, Fails, RefsOf, HasDir, Calls, Bit, Fields,
     LocalRec
<1>8. bad' = bad \/ (bad < MaxBad /\ bad' = bad + 1)
  BY <1>1 DEF CreateFileFails, At, WellUsed, Fails
<1>9. MutexStep(c, f) /\ f.pc \notin MutexLabels /\ fsMutex \in {Null, c}
  BY <1>1, <1>3 DEF CreateFileFails, At, WellUsed, Fails, Fields, MutexStep, MutexLabels
<1>10. f.enum # Null => (th[c].enum # Null /\ f.enum.dir = th[c].enum.dir) \/ Dirh = Dirh
  BY <1>3 DEF Fields
<1>11. UNCHANGED <<dirf, files, hashes, pobj, tee_pobjs>>
  BY DEF CreateFileFails, diskVars, pobjVars
<1>12. dirhRefs \in Int /\ TRUE \in BOOLEAN /\ Dirh \in {dirh, Dirh}
  BY <1>1
<1>13. QED
  BY <1>4, <1>5, <1>6, <1>7, <1>8, <1>9, <1>10, <1>11, <1>12, QuietPut

LEMMA WriteFailsStep ==
    ASSUME Inv, WellUsed, NEW c \in Clients, WriteFails(c)
    PROVE  Inv'
<1>1. PICK g \in Handles : g = th[c].h
  BY InvTypes DEF WriteFails, MayWrite, ClientRecs
<1>2. PICK k \in Handles : k = [g EXCEPT !.tree = FALSE]
  BY DEF Handles
<1>3. /\ k.num = g.num /\ k.idx = g.idx /\ k.hash = g.hash /\ k.slot = g.slot
      /\ k.linked = g.linked /\ k # Null
  BY <1>2, NullAssumption DEF Handles
<1>4. [th[c] EXCEPT !.failed = TRUE, !.h.tree = FALSE] = [th[c] EXCEPT !.failed = TRUE, !.h = k]
  <2>1. th[c] \in ClientRecs
    BY InvTypes
  <2>2. QED
    BY <1>1, <1>2, <2>1 DEF ClientRecs
<1>5. QED
  <2>1. th[c] \in ClientRecs /\ LocalRec(th[c]) /\ dirhRefs \in Nat /\ bad \in Int /\ c # Null
       /\ (fsMutex = c <=> th[c].pc \in MutexLabels)
    BY InvTypes
  <2>2. PICK f : f = [th[c] EXCEPT !.failed = TRUE, !.h = k]
    OBVIOUS
  <2>3. Fields(f, th[c].pc, th[c].po, th[c].to, th[c].flags, th[c].num, k, TRUE, th[c].enum, th[c].ent)
    BY <2>1, <2>2, <1>1, <1>3, <1>4 DEF Fields, ClientRecs, Labels
  <2>4. PutDirh(Dirh, dirhRefs, TRUE, Set(c, f))
    BY <2>2, <1>1, <1>3, <1>4 DEF WriteFails
  <2>5. QuietRec(th[c], f)
    BY <2>1, <2>3, <1>1, <1>3, <1>4 DEF WriteFails, At, MayStart, MayWrite, WellUsed, Fails,
       Fields, QuietRec, LocalRec, RenameRec, ObjRec, Ending, RemoveLabels, ToLabels,
       EnumLabels, MutexLabels
  <2>6. Alone(c, f)
    BY <2>3, <1>1, <1>3, <1>4 DEF WriteFails, At, MayStart, MayWrite, WellUsed, Fails, Alone, Fields
  <2>7. dirhRefs = dirhRefs + RefsOf(f) - RefsOf(th[c])
    BY <2>1, <2>3, <1>1, <1>3, <1>4 DEF WriteFails, At, MayStart, MayWrite, WellUsed, Fails,
       RefsOf, HasDir, Calls, Bit, Fields, LocalRec
  <2>8. bad' = bad \/ (bad < MaxBad /\ bad' = bad + 1)
    BY <2>1, <1>1, <1>3, <1>4 DEF WriteFails, At, MayStart, MayWrite, WellUsed, Fails
  <2>9. MutexStep(c, f) /\ f.pc \notin MutexLabels /\ fsMutex \in {Null, c}
    BY <2>1, <2>3, <1>1, <1>3, <1>4 DEF WriteFails, At, MayStart, MayWrite, WellUsed, Fails,
       Fields, MutexStep, MutexLabels
  <2>10. f.enum # Null => (th[c].enum # Null /\ f.enum.dir = th[c].enum.dir) \/ Dirh = Dirh
    BY <2>3, <1>1, <1>3, <1>4 DEF Fields
  <2>11. UNCHANGED <<dirf, files, hashes, pobj, tee_pobjs>>
    BY <1>1, <1>3, <1>4 DEF WriteFails, diskVars, pobjVars
  <2>12. dirhRefs \in Int /\ TRUE \in BOOLEAN /\ Dirh \in {dirh, Dirh}
    BY <2>1
  <2>13. QED
    BY <2>4, <2>5, <2>6, <2>7, <2>8, <2>9, <2>10, <2>11, <2>12, QuietPut

LEMMA UpdateHashFailsStep ==
    ASSUME Inv, WellUsed, NEW c \in Clients, UpdateHashFails(c)
    PROVE  Inv'
<1>1. th[c] \in ClientRecs /\ LocalRec(th[c]) /\ dirhRefs \in Nat /\ bad \in Int /\ c # Null
     /\ (fsMutex = c <=> th[c].pc \in MutexLabels)
  BY InvTypes
<1>2. PICK f : f = [th[c] EXCEPT !.pc = "idle", !.failed = TRUE]
  OBVIOUS
<1>3. Fields(f, "idle", th[c].po, th[c].to, th[c].flags, th[c].num, th[c].h, TRUE, th[c].enum, th[c].ent)
  BY <1>1, <1>2 DEF Fields, ClientRecs, Labels
<1>4. PutDirh(dirh, dirhRefs - 1, TRUE, Set(c, f))
  BY <1>2 DEF UpdateHashFails
<1>5. QuietRec(th[c], f)
  BY <1>1, <1>3 DEF UpdateHashFails, At, WellUsed, Fails, Fields, QuietRec, LocalRec, RenameRec,
     ObjRec, Ending, RemoveLabels, ToLabels, EnumLabels, MutexLabels
<1>6. Alone(c, f)
  BY <1>3 DEF UpdateHashFails, At, WellUsed, Fails, Alone, Fields
<1>7. dirhRefs - 1 = dirhRefs + RefsOf(f) - RefsOf(th[c])
  BY <1>1, <1>3 DEF UpdateHashFails, At, WellUsed, Fails, RefsOf, HasDir, Calls, Bit, Fields,
     LocalRec
<1>8. bad' = bad \/ (bad < MaxBad /\ bad' = bad + 1)
  BY <1>1 DEF UpdateHashFails, At, WellUsed, Fails
<1>9. MutexStep(c, f) /\ f.pc \notin MutexLabels /\ fsMutex \in {Null, c}
  BY <1>1, <1>3 DEF UpdateHashFails, At, WellUsed, Fails, Fields, MutexStep, MutexLabels
<1>10. f.enum # Null => (th[c].enum # Null /\ f.enum.dir = th[c].enum.dir) \/ dirh = Dirh
  BY <1>3 DEF Fields
<1>11. UNCHANGED <<dirf, files, hashes, pobj, tee_pobjs>>
  BY DEF UpdateHashFails, diskVars, pobjVars
<1>12. dirhRefs - 1 \in Int /\ TRUE \in BOOLEAN /\ dirh \in {dirh, Dirh}
  BY <1>1
<1>13. QED
  BY <1>4, <1>5, <1>6, <1>7, <1>8, <1>9, <1>10, <1>11, <1>12, QuietPut


\* What two of the file operations do when they fail.
LEMMA FopFails ==
    ASSUME Inv, WellUsed, NEW c \in Clients, NEW l, fsMutex = Null,
           \/ At(c, "rename") /\ l = "release_to"
           \/ At(c, "remove") /\ l = "close"
           \/ At(c, "open") /\ l = "release",
           PutDirh(Dirh, dirhRefs, TRUE, Goto(c, l)),
           UNCHANGED <<diskVars, pobjVars, fsMutex>>,
           bad' = bad \/ (bad < MaxBad /\ bad' = bad + 1)
    PROVE  Inv'
<1>1. th[c] \in ClientRecs /\ LocalRec(th[c]) /\ dirhRefs \in Nat /\ bad \in Int /\ c # Null
     /\ (fsMutex = c <=> th[c].pc \in MutexLabels)
  BY InvTypes
<1>2. PICK f : f = [th[c] EXCEPT !.pc = l]
  OBVIOUS
<1>3. Fields(f, l, th[c].po, th[c].to, th[c].flags, th[c].num, th[c].h, th[c].failed, th[c].enum, th[c].ent)
  BY <1>1, <1>2, Moved DEF Labels
<1>4. PutDirh(Dirh, dirhRefs, TRUE, Set(c, f))
  BY <1>2 DEF At, Goto
<1>5. QuietRec(th[c], f)
  BY <1>1, <1>3 DEF At, WellUsed, Fields, QuietRec, LocalRec, RenameRec, ObjRec, Ending,
     RemoveLabels, ToLabels, EnumLabels, MutexLabels
<1>6. Alone(c, f)
  BY <1>3 DEF At, WellUsed, Alone, Fields
<1>7. dirhRefs = dirhRefs + RefsOf(f) - RefsOf(th[c])
  BY <1>1, <1>3 DEF At, WellUsed, RefsOf, HasDir, Calls, Bit, Fields, LocalRec
<1>8. bad' = bad \/ (bad < MaxBad /\ bad' = bad + 1)
  BY <1>1 DEF At, WellUsed
<1>9. MutexStep(c, f) /\ f.pc \notin MutexLabels /\ fsMutex \in {Null, c}
  BY <1>1, <1>3 DEF At, WellUsed, Fields, MutexStep, MutexLabels
<1>10. f.enum # Null => (th[c].enum # Null /\ f.enum.dir = th[c].enum.dir) \/ Dirh = Dirh
  BY <1>3 DEF Fields
<1>11. UNCHANGED <<dirf, files, hashes, pobj, tee_pobjs>>
  BY DEF At, diskVars, pobjVars
<1>12. dirhRefs \in Int /\ TRUE \in BOOLEAN /\ Dirh \in {dirh, Dirh}
  BY <1>1
<1>13. QED
  BY <1>4, <1>5, <1>6, <1>7, <1>8, <1>9, <1>10, <1>11, <1>12, QuietPut

LEMMA StartEnumStep ==
    ASSUME Inv, WellUsed, NEW c \in Clients, StartEnum(c)
    PROVE  Inv'
<1>1. CASE Used(Dirh.dir) = {}
  <2>0. PICK e \in Enumerators : e = [idx |-> 0, dir |-> "none"]
    BY DEF Enumerators
  <2>e. e # Null /\ e.dir = "none"
    BY <2>0, NullAssumption
  <2>1. th[c] \in ClientRecs /\ LocalRec(th[c]) /\ dirhRefs \in Nat /\ bad \in Int /\ c # Null
       /\ (fsMutex = c <=> th[c].pc \in MutexLabels)
    BY InvTypes
  <2>2. PICK f : f = [th[c] EXCEPT !.enum = e]
    OBVIOUS
  <2>3. Fields(f, th[c].pc, th[c].po, th[c].to, th[c].flags, th[c].num, th[c].h, th[c].failed, e, th[c].ent)
    BY <2>1, <2>2, <1>1, <2>0, <2>e DEF Fields, ClientRecs, Labels
  <2>4. PutDirh(Dirh, dirhRefs, FALSE, Set(c, f))
    BY <2>2, <1>1, <2>0, <2>e DEF StartEnum
  <2>5. QuietRec(th[c], f)
    BY <2>1, <2>3, <1>1, <2>0, <2>e DEF StartEnum, At, MayEnum, WellUsed, Fields, QuietRec,
       LocalRec, RenameRec, ObjRec, Ending, RemoveLabels, ToLabels, EnumLabels, MutexLabels
  <2>6. Alone(c, f)
    BY <2>3, <1>1, <2>0, <2>e DEF StartEnum, At, MayEnum, WellUsed, Alone, Fields
  <2>7. dirhRefs = dirhRefs + RefsOf(f) - RefsOf(th[c])
    BY <2>1, <2>3, <1>1, <2>0, <2>e DEF StartEnum, At, MayEnum, WellUsed, RefsOf, HasDir, Calls,
       Bit, Fields, LocalRec
  <2>8. bad' = bad \/ (bad < MaxBad /\ bad' = bad + 1)
    BY <2>1, <1>1, <2>0, <2>e DEF StartEnum, At, MayEnum, WellUsed
  <2>9. MutexStep(c, f) /\ f.pc \notin MutexLabels /\ fsMutex \in {Null, c}
    BY <2>1, <2>3, <1>1, <2>0, <2>e DEF StartEnum, At, MayEnum, WellUsed, Fields, MutexStep,
       MutexLabels
  <2>10. f.enum # Null => (th[c].enum # Null /\ f.enum.dir = th[c].enum.dir) \/ Dirh = Dirh
    BY <2>3, <1>1, <2>0, <2>e DEF Fields
  <2>11. UNCHANGED <<dirf, files, hashes, pobj, tee_pobjs>>
    BY <1>1, <2>0, <2>e DEF StartEnum, diskVars, pobjVars
  <2>12. dirhRefs \in Int /\ FALSE \in BOOLEAN /\ Dirh \in {dirh, Dirh}
    BY <2>1
  <2>13. QED
    BY <2>4, <2>5, <2>6, <2>7, <2>8, <2>9, <2>10, <2>11, <2>12, QuietPut
<1>2. CASE Used(Dirh.dir) # {}
  <2>0. PICK e \in Enumerators : e = [idx |-> 0, dir |-> "current"]
    BY DEF Enumerators
  <2>e. e # Null /\ e.dir = "current"
    BY <2>0, NullAssumption
  <2>1. th[c] \in ClientRecs /\ LocalRec(th[c]) /\ dirhRefs \in Nat /\ bad \in Int /\ c # Null
       /\ (fsMutex = c <=> th[c].pc \in MutexLabels)
    BY InvTypes
  <2>2. PICK f : f = [th[c] EXCEPT !.enum = e]
    OBVIOUS
  <2>3. Fields(f, th[c].pc, th[c].po, th[c].to, th[c].flags, th[c].num, th[c].h, th[c].failed, e, th[c].ent)
    BY <2>1, <2>2, <1>2, <2>0, <2>e DEF Fields, ClientRecs, Labels
  <2>4. PutDirh(Dirh, dirhRefs + 1, FALSE, Set(c, f))
    BY <2>2, <1>2, <2>0, <2>e DEF StartEnum
  <2>5. QuietRec(th[c], f)
    BY <2>1, <2>3, <1>2, <2>0, <2>e DEF StartEnum, At, MayEnum, WellUsed, Fields, QuietRec,
       LocalRec, RenameRec, ObjRec, Ending, RemoveLabels, ToLabels, EnumLabels, MutexLabels
  <2>6. Alone(c, f)
    BY <2>3, <1>2, <2>0, <2>e DEF StartEnum, At, MayEnum, WellUsed, Alone, Fields
  <2>7. dirhRefs + 1 = dirhRefs + RefsOf(f) - RefsOf(th[c])
    BY <2>1, <2>3, <1>2, <2>0, <2>e DEF StartEnum, At, MayEnum, WellUsed, RefsOf, HasDir, Calls,
       Bit, Fields, LocalRec
  <2>8. bad' = bad \/ (bad < MaxBad /\ bad' = bad + 1)
    BY <2>1, <1>2, <2>0, <2>e DEF StartEnum, At, MayEnum, WellUsed
  <2>9. MutexStep(c, f) /\ f.pc \notin MutexLabels /\ fsMutex \in {Null, c}
    BY <2>1, <2>3, <1>2, <2>0, <2>e DEF StartEnum, At, MayEnum, WellUsed, Fields, MutexStep,
       MutexLabels
  <2>10. f.enum # Null => (th[c].enum # Null /\ f.enum.dir = th[c].enum.dir) \/ Dirh = Dirh
    BY <2>3, <1>2, <2>0, <2>e DEF Fields
  <2>11. UNCHANGED <<dirf, files, hashes, pobj, tee_pobjs>>
    BY <1>2, <2>0, <2>e DEF StartEnum, diskVars, pobjVars
  <2>12. dirhRefs + 1 \in Int /\ FALSE \in BOOLEAN /\ Dirh \in {dirh, Dirh}
    BY <2>1
  <2>13. QED
    BY <2>4, <2>5, <2>6, <2>7, <2>8, <2>9, <2>10, <2>11, <2>12, QuietPut
<1>3. QED
  BY <1>1, <1>2

LEMMA NextEnumStep ==
    ASSUME Inv, WellUsed, NEW c \in Clients, NextEnum(c)
    PROVE  Inv'
<1>1. th[c].enum \in Enumerators /\ th[c].enum.dir # "none"
  BY InvTypes DEF NextEnum, WellUsed, ClientRecs
<1>2. CASE th[c].enum.dir = "stale"
  <2>1. th[c] \in ClientRecs /\ LocalRec(th[c])
    BY InvTypes
  <2>2. PICK f : f = [th[c] EXCEPT !.pc = "stale_dirh"]
    OBVIOUS
  <2>3. Fields(f, "stale_dirh", th[c].po, th[c].to, th[c].flags, th[c].num, th[c].h, th[c].failed, th[c].enum, th[c].ent)
    BY <2>1, <2>2, Moved DEF Labels
  <2>4. th' = Set(c, f)
    BY <2>2, <1>1, <1>2 DEF NextEnum, Goto
  <2>5. QuietRec(th[c], f)
    BY <2>1, <2>3, <1>1, <1>2 DEF NextEnum, At, MayEnum, WellUsed, Fields, QuietRec, LocalRec,
       RenameRec, ObjRec, Ending, RemoveLabels, ToLabels, EnumLabels, MutexLabels
  <2>6. Alone(c, f)
    BY <2>3, <1>1, <1>2 DEF NextEnum, At, MayEnum, WellUsed, Alone, Fields
  <2>7. RefsOf(f) = RefsOf(th[c])
    BY <2>3, <1>1, <1>2 DEF NextEnum, At, MayEnum, WellUsed, RefsOf, HasDir, Calls, Fields
  <2>8. UNCHANGED <<diskVars, dirhVars, pobjVars, bad>>
    BY <1>1, <1>2 DEF NextEnum, At, MayEnum, WellUsed, diskVars, dirhVars, pobjVars
  <2>9. QED
    BY <2>3, <2>4, <2>5, <2>6, <2>7, <2>8, <1>1, <1>2, QuietSet DEF NextEnum, At, MayEnum,
       WellUsed, Fields, MutexLabels
<1>3. CASE th[c].enum.dir = "current"
  <2>0. PICK rest : rest = {i \in Used(dirh.dir) : i > th[c].enum.idx}
    OBVIOUS
  <2>a. dirh # Null /\ dirh.dir = dirf
    <3>1. Current /\ th[c].enum # Null
      BY <1>1, InvTypes, NullAssumption
    <3>2. QED
      BY <1>3, <3>1 DEF Current, Inv, FilesInv, DirInv
  <2>b. Min(rest) \in rest
    <3>1. rest # {}
      BY <1>3, <2>0 DEF NextEnum
    <3>2. rest \subseteq Nat
      BY <2>0, IdxNat DEF Used
    <3>3. QED
      BY <3>1, <3>2, MinIn
  <2>c. PICK i \in Idx : i = Min(rest) /\ i \in Used(dirf)
    BY <2>0, <2>a, <2>b DEF Used
  <2>d. PICK nm \in Names : nm = dirf[i].name
    <3>1. dirf[i].name \in Names \cup {Null} /\ dirf[i].name # Null
      BY <2>c DEF Inv, TypeOK, Entries, FilesInv, DirInv
    <3>2. QED
      BY <3>1
  <2>e. PICK e \in Enumerators : e = [th[c].enum EXCEPT !.idx = i]
    BY <1>1 DEF Enumerators
  <2>f. e.dir = "current" /\ e # Null /\ th[c].enum # Null /\ nm # Null
    BY <1>1, <1>3, <2>e, NullAssumption DEF Enumerators
  <2>g. th' = Set(c, [th[c] EXCEPT !.pc = "enum_get", !.enum = e, !.ent = nm])
    <3>1. th[c] \in ClientRecs
      BY InvTypes
    <3>2. th' = Set(c, [th[c] EXCEPT !.pc = "enum_get", !.enum.idx = Min(rest),
                                     !.ent = dirh.dir[Min(rest)].name])
      BY <1>3, <2>0 DEF NextEnum
    <3>3. [th[c] EXCEPT !.pc = "enum_get", !.enum.idx = Min(rest),
                        !.ent = dirh.dir[Min(rest)].name]
            = [th[c] EXCEPT !.pc = "enum_get", !.enum = e, !.ent = nm]
      BY <2>a, <2>c, <2>d, <2>e, <3>1 DEF ClientRecs
    <3>4. QED
      BY <3>2, <3>3
  <2>1. th[c] \in ClientRecs /\ LocalRec(th[c])
    BY InvTypes
  <2>2. PICK f : f = [th[c] EXCEPT !.pc = "enum_get", !.enum = e, !.ent = nm]
    OBVIOUS
  <2>3. Fields(f, "enum_get", th[c].po, th[c].to, th[c].flags, th[c].num, th[c].h, th[c].failed, e, nm)
    BY <2>1, <2>2, <1>1, <1>3, <2>d, <2>f, <2>g DEF Fields, ClientRecs, Labels
  <2>4. th' = Set(c, f)
    BY <2>2, <1>1, <1>3, <2>d, <2>f, <2>g DEF NextEnum, Goto
  <2>5. QuietRec(th[c], f)
    BY <2>1, <2>3, <1>1, <1>3, <2>d, <2>f, <2>g DEF NextEnum, At, MayEnum, WellUsed, Fields,
       QuietRec, LocalRec, RenameRec, ObjRec, Ending, RemoveLabels, ToLabels, EnumLabels,
       MutexLabels
  <2>6. Alone(c, f)
    BY <2>3, <1>1, <1>3, <2>d, <2>f, <2>g DEF NextEnum, At, MayEnum, WellUsed, Alone, Fields
  <2>7. RefsOf(f) = RefsOf(th[c])
    BY <2>3, <1>1, <1>3, <2>d, <2>f, <2>g DEF NextEnum, At, MayEnum, WellUsed, RefsOf, HasDir,
       Calls, Fields
  <2>8. UNCHANGED <<diskVars, dirhVars, pobjVars, bad>>
    BY <1>1, <1>3, <2>d, <2>f, <2>g DEF NextEnum, At, MayEnum, WellUsed, diskVars, dirhVars,
       pobjVars
  <2>9. QED
    BY <2>3, <2>4, <2>5, <2>6, <2>7, <2>8, <1>1, <1>3, <2>d, <2>f, <2>g, QuietSet DEF NextEnum,
       At, MayEnum, WellUsed, Fields, MutexLabels
<1>4. QED
  BY <1>1, <1>2, <1>3 DEF Enumerators

LEMMA EnumOpenStep ==
    ASSUME Inv, WellUsed, NEW c \in Clients, EnumOpen(c)
    PROVE  Inv'
<1>0. PICK close \in BOOLEAN :
         PutDirh(Dirh, dirhRefs, close, Set(c, [th[c] EXCEPT !.pc = "release_to", !.ent = Null]))
  BY DEF EnumOpen
<1>1. th[c] \in ClientRecs /\ LocalRec(th[c]) /\ dirhRefs \in Nat /\ bad \in Int /\ c # Null
     /\ (fsMutex = c <=> th[c].pc \in MutexLabels)
  BY InvTypes
<1>2. PICK f : f = [th[c] EXCEPT !.pc = "release_to", !.ent = Null]
  OBVIOUS
<1>3. Fields(f, "release_to", th[c].po, th[c].to, th[c].flags, th[c].num, th[c].h, th[c].failed, th[c].enum, Null)
  BY <1>1, <1>2, <1>0 DEF Fields, ClientRecs, Labels
<1>4. PutDirh(Dirh, dirhRefs, close, Set(c, f))
  BY <1>2, <1>0 DEF EnumOpen
<1>5. QuietRec(th[c], f)
  BY <1>1, <1>3, <1>0 DEF EnumOpen, At, WellUsed, Fields, QuietRec, LocalRec, RenameRec, ObjRec,
     Ending, RemoveLabels, ToLabels, EnumLabels, MutexLabels
<1>6. Alone(c, f)
  BY <1>3, <1>0 DEF EnumOpen, At, WellUsed, Alone, Fields
<1>7. dirhRefs = dirhRefs + RefsOf(f) - RefsOf(th[c])
  BY <1>1, <1>3, <1>0 DEF EnumOpen, At, WellUsed, RefsOf, HasDir, Calls, Bit, Fields, LocalRec
<1>8. bad' = bad \/ (bad < MaxBad /\ bad' = bad + 1)
  BY <1>1, <1>0 DEF EnumOpen, At, WellUsed
<1>9. MutexStep(c, f) /\ f.pc \notin MutexLabels /\ fsMutex \in {Null, c}
  BY <1>1, <1>3, <1>0 DEF EnumOpen, At, WellUsed, Fields, MutexStep, MutexLabels
<1>10. f.enum # Null => (th[c].enum # Null /\ f.enum.dir = th[c].enum.dir) \/ Dirh = Dirh
  BY <1>3, <1>0 DEF Fields
<1>11. UNCHANGED <<dirf, files, hashes, pobj, tee_pobjs>>
  BY <1>0 DEF EnumOpen, diskVars, pobjVars
<1>12. dirhRefs \in Int /\ close \in BOOLEAN /\ Dirh \in {dirh, Dirh}
  BY <1>1
<1>13. QED
  BY <1>4, <1>5, <1>6, <1>7, <1>8, <1>9, <1>10, <1>11, <1>12, QuietPut

LEMMA ResetEnumStep ==
    ASSUME Inv, WellUsed, NEW c \in Clients, ResetEnum(c)
    PROVE  Inv'
<1>1. th[c].enum \in Enumerators /\ th[c].enum # Null
  BY InvTypes DEF ResetEnum, ClientRecs
<1>2. CASE th[c].enum.dir = "none"
  <2>1. th[c] \in ClientRecs /\ LocalRec(th[c])
    BY InvTypes
  <2>2. PICK f : f = [th[c] EXCEPT !.enum = Null]
    OBVIOUS
  <2>3. Fields(f, th[c].pc, th[c].po, th[c].to, th[c].flags, th[c].num, th[c].h, th[c].failed, Null, th[c].ent)
    BY <2>1, <2>2, <1>1, <1>2 DEF Fields, ClientRecs, Labels
  <2>4. th' = Set(c, f)
    BY <2>2, <1>1, <1>2 DEF ResetEnum, Goto
  <2>5. QuietRec(th[c], f)
    BY <2>1, <2>3, <1>1, <1>2 DEF ResetEnum, At, MayEnum, WellUsed, Fields, QuietRec, LocalRec,
       RenameRec, ObjRec, Ending, RemoveLabels, ToLabels, EnumLabels, MutexLabels
  <2>6. Alone(c, f)
    BY <2>3, <1>1, <1>2 DEF ResetEnum, At, MayEnum, WellUsed, Alone, Fields
  <2>7. RefsOf(f) = RefsOf(th[c])
    BY <2>3, <1>1, <1>2 DEF ResetEnum, At, MayEnum, WellUsed, RefsOf, HasDir, Calls, Fields
  <2>8. UNCHANGED <<diskVars, dirhVars, pobjVars, bad>>
    BY <1>1, <1>2 DEF ResetEnum, At, MayEnum, WellUsed, diskVars, dirhVars, pobjVars
  <2>9. QED
    BY <2>3, <2>4, <2>5, <2>6, <2>7, <2>8, <1>1, <1>2, QuietSet DEF ResetEnum, At, MayEnum,
       WellUsed, Fields, MutexLabels
<1>3. CASE th[c].enum.dir = "stale"
  <2>1. th[c] \in ClientRecs /\ LocalRec(th[c])
    BY InvTypes
  <2>2. PICK f : f = [th[c] EXCEPT !.pc = "stale_dirh"]
    OBVIOUS
  <2>3. Fields(f, "stale_dirh", th[c].po, th[c].to, th[c].flags, th[c].num, th[c].h, th[c].failed, th[c].enum, th[c].ent)
    BY <2>1, <2>2, Moved DEF Labels
  <2>4. th' = Set(c, f)
    BY <2>2, <1>1, <1>3 DEF ResetEnum, Goto
  <2>5. QuietRec(th[c], f)
    BY <2>1, <2>3, <1>1, <1>3 DEF ResetEnum, At, MayEnum, WellUsed, Fields, QuietRec, LocalRec,
       RenameRec, ObjRec, Ending, RemoveLabels, ToLabels, EnumLabels, MutexLabels
  <2>6. Alone(c, f)
    BY <2>3, <1>1, <1>3 DEF ResetEnum, At, MayEnum, WellUsed, Alone, Fields
  <2>7. RefsOf(f) = RefsOf(th[c])
    BY <2>3, <1>1, <1>3 DEF ResetEnum, At, MayEnum, WellUsed, RefsOf, HasDir, Calls, Fields
  <2>8. UNCHANGED <<diskVars, dirhVars, pobjVars, bad>>
    BY <1>1, <1>3 DEF ResetEnum, At, MayEnum, WellUsed, diskVars, dirhVars, pobjVars
  <2>9. QED
    BY <2>3, <2>4, <2>5, <2>6, <2>7, <2>8, <1>1, <1>3, QuietSet DEF ResetEnum, At, MayEnum,
       WellUsed, Fields, MutexLabels
<1>4. CASE th[c].enum.dir = "current"
  <2>1. th[c] \in ClientRecs /\ LocalRec(th[c]) /\ dirhRefs \in Nat /\ bad \in Int /\ c # Null
       /\ (fsMutex = c <=> th[c].pc \in MutexLabels)
    BY InvTypes
  <2>2. PICK f : f = [th[c] EXCEPT !.enum = Null]
    OBVIOUS
  <2>3. Fields(f, th[c].pc, th[c].po, th[c].to, th[c].flags, th[c].num, th[c].h, th[c].failed, Null, th[c].ent)
    BY <2>1, <2>2, <1>1, <1>4 DEF Fields, ClientRecs, Labels
  <2>4. PutDirh(dirh, dirhRefs - 1, FALSE, Set(c, f))
    BY <2>2, <1>1, <1>4 DEF ResetEnum, Goto
  <2>5. QuietRec(th[c], f)
    BY <2>1, <2>3, <1>1, <1>4 DEF ResetEnum, At, MayEnum, WellUsed, Fields, QuietRec, LocalRec,
       RenameRec, ObjRec, Ending, RemoveLabels, ToLabels, EnumLabels, MutexLabels
  <2>6. Alone(c, f)
    BY <2>3, <1>1, <1>4 DEF ResetEnum, At, MayEnum, WellUsed, Alone, Fields
  <2>7. dirhRefs - 1 = dirhRefs + RefsOf(f) - RefsOf(th[c])
    BY <2>1, <2>3, <1>1, <1>4 DEF ResetEnum, At, MayEnum, WellUsed, RefsOf, HasDir, Calls, Bit,
       Fields, LocalRec
  <2>8. bad' = bad \/ (bad < MaxBad /\ bad' = bad + 1)
    BY <2>1, <1>1, <1>4 DEF ResetEnum, At, MayEnum, WellUsed
  <2>9. MutexStep(c, f) /\ f.pc \notin MutexLabels /\ fsMutex \in {Null, c}
    BY <2>1, <2>3, <1>1, <1>4 DEF ResetEnum, At, MayEnum, WellUsed, Fields, MutexStep, MutexLabels
  <2>10. f.enum # Null => (th[c].enum # Null /\ f.enum.dir = th[c].enum.dir) \/ dirh = Dirh
    BY <2>3, <1>1, <1>4 DEF Fields
  <2>11. UNCHANGED <<dirf, files, hashes, pobj, tee_pobjs>>
    BY <1>1, <1>4 DEF ResetEnum, diskVars, pobjVars
  <2>12. dirhRefs - 1 \in Int /\ FALSE \in BOOLEAN /\ dirh \in {dirh, Dirh}
    BY <2>1
  <2>13. QED
    BY <2>4, <2>5, <2>6, <2>7, <2>8, <2>9, <2>10, <2>11, <2>12, QuietPut
<1>5. QED
  BY <1>1, <1>2, <1>3, <1>4 DEF Enumerators


-----------------------------------------------------------------------------
(* Objects in use *)

LEMMA CardPositive ==
    ASSUME NEW A \in SUBSET Clients
    PROVE  /\ Cardinality(A) \in Nat
           /\ A = {} => Cardinality(A) = 0
           /\ A # {} => Cardinality(A) > 0
           /\ \A u \in Clients : A = {u} => Cardinality(A) = 1
<1>1. IsFiniteSet(A)
  BY ConstantsAssumption, FS_Subset
<1>2. Cardinality(A) \in Nat
  BY <1>1, FS_CardinalityType
<1>3. Cardinality(A) = 0 <=> A = {}
  BY <1>1, FS_EmptySet
<1>4. \A u \in Clients : A = {u} => Cardinality(A) = 1
  BY FS_Singleton
<1>5. QED
  BY <1>2, <1>3, <1>4

\* An object has references exactly when a client has it.
LEMMA InUse ==
    ASSUME PobjRefs, NEW p \in PObjs
    PROVE  /\ pobj[p].refcnt \in Nat
           /\ pobj[p].refcnt > 0 <=> \E u \in Clients : th[u].po = p \/ th[u].to = p
<1> DEFINE A == {u \in Clients : th[u].po = p}
           B == {u \in Clients : th[u].to = p}
<1>1. A \in SUBSET Clients /\ B \in SUBSET Clients
  OBVIOUS
<1>2. pobj[p].refcnt = Cardinality(A) + Cardinality(B)
  BY DEF PobjRefs
<1>3. (A # {} \/ B # {}) <=> \E u \in Clients : th[u].po = p \/ th[u].to = p
  OBVIOUS
<1> HIDE DEF A, B
<1>4. /\ Cardinality(A) \in Nat /\ (A = {} => Cardinality(A) = 0) /\ (A # {} => Cardinality(A) > 0)
      /\ Cardinality(B) \in Nat /\ (B = {} => Cardinality(B) = 0) /\ (B # {} => Cardinality(B) > 0)
  BY <1>1, CardPositive
<1>5. QED
  BY <1>2, <1>3, <1>4

\* tee_pobj_get() as the invariant sees it.
Took(name, flags, p) ==
    /\ \A q \in PObjs : q # p => pobj'[q] = pobj[q]
    /\ pobj'[p].refcnt = pobj[p].refcnt + 1 /\ pobj'[p].name = name
    /\ \/ /\ pobj[p].refcnt > 0 /\ pobj[p].name = name /\ pobj'[p].flags = pobj[p].flags
          /\ tee_pobjs' = tee_pobjs
       \/ /\ pobj[p].refcnt = 0 /\ pobj'[p].flags = flags
          /\ tee_pobjs' = Append(tee_pobjs, p)
          /\ \A q \in PObjs : pobj[q].refcnt > 0 => pobj[q].name # name

LEMMA GetTakes ==
    ASSUME TypeOK, PobjRefs, NEW name \in Names, NEW flags \in SUBSET FlagNames, NEW usage,
           NEW p \in PObjs, PobjGet(name, flags, usage, p)
    PROVE  /\ Took(name, flags, p)
           /\ usage = "ENUM" \/ pobj[p].refcnt = 0 \/ CheckAccess(pobj[p].flags, flags)
           /\ pobj' \in [PObjs -> [refcnt : Nat, name : Names \cup {Null},
                                   flags : SUBSET FlagNames, creating : BOOLEAN]]
           /\ tee_pobjs' \in Seq(PObjs)
<1>1. /\ pobj \in [PObjs -> [refcnt : Nat, name : Names \cup {Null},
                            flags : SUBSET FlagNames, creating : BOOLEAN]]
      /\ tee_pobjs \in Seq(PObjs)
  BY DEF TypeOK
<1>2. CASE Named(name) # {}
  <2>1. p = tee_pobjs[Max(Named(name))]
    BY <1>2 DEF PobjGet
  <2>2. Max(Named(name)) \in Named(name)
    <3>1. Len(tee_pobjs) \in Nat /\ Named(name) \subseteq 0 .. Len(tee_pobjs)
      BY <1>1 DEF Named
    <3>2. QED
      BY <1>2, <3>1, MaxIn
  <2>3. pobj[p].name = name /\ \E i \in DOMAIN tee_pobjs : tee_pobjs[i] = p
    BY <2>1, <2>2 DEF Named
  <2>4. pobj[p].refcnt > 0
    BY <2>3 DEF PobjRefs
  <2>5. pobj' = [pobj EXCEPT ![p].refcnt = @ + 1] /\ tee_pobjs' = tee_pobjs
    BY <1>2 DEF PobjGet
  <2>6. usage = "ENUM" \/ CheckAccess(pobj[p].flags, flags)
    BY <1>2 DEF PobjGet
  <2>7. /\ pobj' \in [PObjs -> [refcnt : Nat, name : Names \cup {Null},
                               flags : SUBSET FlagNames, creating : BOOLEAN]]
        /\ pobj'[p].refcnt = pobj[p].refcnt + 1 /\ pobj'[p].name = pobj[p].name
        /\ pobj'[p].flags = pobj[p].flags
        /\ \A q \in PObjs : q # p => pobj'[q] = pobj[q]
    <3>1. PICK r \in [refcnt : Nat, name : Names \cup {Null},
                       flags : SUBSET FlagNames, creating : BOOLEAN] : r = pobj[p]
      BY <1>1
    <3>2. PICK k : k = [r EXCEPT !.refcnt = r.refcnt + 1]
      OBVIOUS
    <3>3. /\ k \in [refcnt : Nat, name : Names \cup {Null},
                     flags : SUBSET FlagNames, creating : BOOLEAN]
          /\ k.refcnt = r.refcnt + 1 /\ k.name = r.name /\ k.flags = r.flags
      BY <3>2
    <3>4. pobj' = [pobj EXCEPT ![p] = k]
      BY <1>1, <2>5, <3>1, <3>2
    <3>5. QED
      BY <1>1, <3>1, <3>3, <3>4
  <2>8. QED
    BY <1>1, <2>3, <2>4, <2>5, <2>6, <2>7 DEF Took
<1>3. CASE Named(name) = {}
  <2>1. /\ pobj[p].refcnt = 0
        /\ pobj' = [pobj EXCEPT ![p] = [refcnt |-> 1, name |-> name, flags |-> flags,
                                        creating |-> usage = "CREATE"]]
        /\ tee_pobjs' = Append(tee_pobjs, p)
    BY <1>3 DEF PobjGet
  <2>2. ASSUME NEW q \in PObjs, pobj[q].refcnt > 0 PROVE pobj[q].name # name
    <3>1. PICK i \in DOMAIN tee_pobjs : tee_pobjs[i] = q
      BY <2>2 DEF PobjRefs
    <3>2. QED
      BY <1>3, <3>1 DEF Named
  <2>3. tee_pobjs' \in Seq(PObjs)
    BY <1>1, <2>1
  <2>4. /\ pobj' \in [PObjs -> [refcnt : Nat, name : Names \cup {Null},
                               flags : SUBSET FlagNames, creating : BOOLEAN]]
        /\ pobj'[p].refcnt = 1 /\ pobj'[p].name = name /\ pobj'[p].flags = flags
        /\ \A q \in PObjs : q # p => pobj'[q] = pobj[q]
    BY <1>1, <2>1
  <2>5. QED
    BY <2>1, <2>2, <2>3, <2>4 DEF Took
<1>4. QED
  BY <1>2, <1>3

\* The object that c took has one reference more.
LEMMA PobjRefsTook ==
    ASSUME TypeOK, PobjRefs, NEW c \in Clients, NEW f, Change(c, f),
           NEW name, NEW flags, NEW p \in PObjs, Took(name, flags, p),
           \/ f.po = p /\ th[c].po = Null /\ f.to = th[c].to
           \/ f.to = p /\ th[c].to = Null /\ f.po = th[c].po
    PROVE  PobjRefs'
<1>1. Null \notin PObjs /\ tee_pobjs \in Seq(PObjs)
  BY NullAssumption DEF TypeOK
<1>2. SUFFICES ASSUME NEW q \in PObjs
               PROVE  /\ pobj'[q].refcnt = Cardinality({u \in Clients : th'[u].po = q})
                                           + Cardinality({u \in Clients : th'[u].to = q})
                      /\ pobj'[q].refcnt > 0 <=> \E i \in DOMAIN tee_pobjs' : tee_pobjs'[i] = q
  BY DEF PobjRefs
<1> DEFINE A == {u \in Clients : th[u].po = q}
           AA == {u \in Clients : th'[u].po = q}
           B == {u \in Clients : th[u].to = q}
           BB == {u \in Clients : th'[u].to = q}
<1>3. A \in SUBSET Clients /\ AA \in SUBSET Clients /\ B \in SUBSET Clients /\ BB \in SUBSET Clients
  OBVIOUS
<1>4. \A u \in Clients : u # c => (u \in A <=> u \in AA) /\ (u \in B <=> u \in BB)
  BY DEF Change, Agree
<1>5. /\ (c \in A <=> th[c].po = q) /\ (c \in AA <=> f.po = q)
      /\ (c \in B <=> th[c].to = q) /\ (c \in BB <=> f.to = q)
  BY DEF Change, Agree
<1>6. pobj[q].refcnt = Cardinality(A) + Cardinality(B)
  BY DEF PobjRefs
<1> HIDE DEF A, AA, B, BB
<1>7. /\ Cardinality(A) \in Nat /\ Cardinality(AA) \in Nat
      /\ Cardinality(AA) = Cardinality(A) + Bit(c \in AA) - Bit(c \in A)
  BY <1>3, <1>4, CardMoves
<1>8. /\ Cardinality(B) \in Nat /\ Cardinality(BB) \in Nat
      /\ Cardinality(BB) = Cardinality(B) + Bit(c \in BB) - Bit(c \in B)
  BY <1>3, <1>4, CardMoves
<1>9. pobj'[q].refcnt = pobj[q].refcnt + (IF q = p THEN 1 ELSE 0)
  <2>1. CASE q = p
    BY <2>1 DEF Took
  <2>2. CASE q # p
    BY <1>6, <1>7, <1>8, <2>2 DEF Took
  <2>3. QED
    BY <2>1, <2>2
<1>10. pobj'[q].refcnt = Cardinality(AA) + Cardinality(BB)
  <2>1. CASE f.po = p /\ th[c].po = Null /\ f.to = th[c].to
    <3>1. Bit(c \in BB) = Bit(c \in B) /\ Bit(c \in A) = 0 /\ Bit(c \in B) \in Int
      BY <1>1, <1>5, <2>1 DEF Bit
    <3>2. Bit(c \in AA) = IF q = p THEN 1 ELSE 0
      BY <1>5, <2>1 DEF Bit
    <3>3. QED
      BY <1>6, <1>7, <1>8, <1>9, <3>1, <3>2
  <2>2. CASE f.to = p /\ th[c].to = Null /\ f.po = th[c].po
    <3>1. Bit(c \in AA) = Bit(c \in A) /\ Bit(c \in B) = 0 /\ Bit(c \in A) \in Int
      BY <1>1, <1>5, <2>2 DEF Bit
    <3>2. Bit(c \in BB) = IF q = p THEN 1 ELSE 0
      BY <1>5, <2>2 DEF Bit
    <3>3. QED
      BY <1>6, <1>7, <1>8, <1>9, <3>1, <3>2
  <2>3. QED
    BY <2>1, <2>2
<1>11. pobj[q].refcnt > 0 <=> \E i \in DOMAIN tee_pobjs : tee_pobjs[i] = q
  BY DEF PobjRefs
<1>12. pobj'[q].refcnt > 0 <=> \E i \in DOMAIN tee_pobjs' : tee_pobjs'[i] = q
  <2>1. CASE tee_pobjs' = tee_pobjs /\ pobj[p].refcnt > 0
    BY <1>6, <1>7, <1>8, <1>9, <1>11, <2>1
  <2>2. CASE tee_pobjs' = Append(tee_pobjs, p)
    <3>1. (\E i \in DOMAIN tee_pobjs' : tee_pobjs'[i] = q)
            <=> (q = p \/ \E i \in DOMAIN tee_pobjs : tee_pobjs[i] = q)
      BY <1>1, <2>2
    <3>2. QED
      BY <1>6, <1>7, <1>8, <1>9, <1>11, <3>1
  <2>3. QED
    BY <2>1, <2>2 DEF Took
<1>13. QED
  BY <1>10, <1>12 DEF AA, BB

\* Access rules: flags that go with the same flags go with each other.
LEMMA AccessTransitive ==
    ASSUME NEW o, NEW m, NEW n, CheckAccess(o, m), CheckAccess(o, n)
    PROVE  CheckAccess(m, n)
BY DEF CheckAccess, Shares

LEMMA AccessSymmetric ==
    ASSUME NEW m, NEW n, CheckAccess(m, n)
    PROVE  CheckAccess(n, m)
BY DEF CheckAccess, Shares

\* The list after tee_pobj_get().
LEMMA ListTook ==
    ASSUME TypeOK, PobjRefs, ListOK, NEW name \in Names, NEW flags, NEW p \in PObjs,
           Took(name, flags, p)
    PROVE  ListOK'
<1>1. tee_pobjs \in Seq(PObjs) /\ name # Null
  BY NullAssumption DEF TypeOK
<1>2. \A q \in PObjs : pobj'[q].refcnt > 0 => pobj'[q].name # Null
  <2>1. TAKE q \in PObjs
  <2>2. CASE q = p
    BY <1>1, <2>2 DEF Took
  <2>3. CASE q # p
    BY <2>3 DEF Took, ListOK
  <2>4. QED
    BY <2>2, <2>3
<1>3. ASSUME NEW i \in DOMAIN tee_pobjs', NEW j \in DOMAIN tee_pobjs', tee_pobjs'[i] = tee_pobjs'[j]
      PROVE  i = j
  <2>1. CASE tee_pobjs' = tee_pobjs
    BY <1>3, <2>1 DEF ListOK
  <2>2. CASE pobj[p].refcnt = 0 /\ tee_pobjs' = Append(tee_pobjs, p)
    <3>1. \A k \in DOMAIN tee_pobjs : tee_pobjs[k] # p
      <4>1. pobj[p].refcnt > 0 <=> \E k \in DOMAIN tee_pobjs : tee_pobjs[k] = p
        BY DEF PobjRefs
      <4>2. QED
        BY <2>2, <4>1
    <3>2. /\ DOMAIN tee_pobjs = 1 .. Len(tee_pobjs) /\ Len(tee_pobjs) \in Nat
          /\ DOMAIN tee_pobjs' = 1 .. Len(tee_pobjs) + 1
          /\ \A k \in 1 .. Len(tee_pobjs) + 1 :
                tee_pobjs'[k] = IF k <= Len(tee_pobjs) THEN tee_pobjs[k] ELSE p
      BY <1>1, <2>2
    <3>3. \A k, l \in DOMAIN tee_pobjs : tee_pobjs[k] = tee_pobjs[l] => k = l
      BY DEF ListOK
    <3>4. QED
      BY <1>3, <3>1, <3>2, <3>3
  <2>3. QED
    BY <2>1, <2>2 DEF Took
<1>4. QED
  BY <1>2, <1>3 DEF ListOK

\* The names of objects in use stay.
LEMMA TookKeeps ==
    ASSUME PobjRefs, NEW name, NEW flags, NEW p \in PObjs, Took(name, flags, p),
           NEW q \in PObjs, pobj[q].refcnt > 0
    PROVE  pobj'[q].name = pobj[q].name /\ pobj'[q].flags = pobj[q].flags /\ pobj'[q].refcnt > 0
<1>1. pobj[q].refcnt \in Nat
  BY InUse
<1>2. CASE q = p
  BY <1>1, <1>2 DEF Took
<1>3. CASE q # p
  BY <1>3 DEF Took
<1>4. QED
  BY <1>2, <1>3

LEMMA NamesTook ==
    ASSUME TypeOK, LocalInv, PobjRefs, SharingInv, NEW c \in Clients, NEW f, Change(c, f),
           NEW name \in Names, NEW flags, NEW p \in PObjs, Took(name, flags, p),
           ~(Renames(c) /\ th[c].pc = "release_to"),
           NEW q \in PObjs, NEW r \in PObjs
    PROVE  NamesOK(q, r)'
<1>1. SUFFICES ASSUME q # r, pobj'[q].refcnt > 0, pobj'[r].refcnt > 0, pobj'[q].name = pobj'[r].name
               PROVE  \E u \in Clients : /\ Renames(u)' /\ th'[u].pc = "release_to"
                                         /\ \/ q = th'[u].po /\ r = th'[u].to
                                            \/ r = th'[u].po /\ q = th'[u].to
  BY DEF NamesOK
<1>2. pobj[q].refcnt > 0 /\ pobj[r].refcnt > 0
  <2>1. pobj[q].refcnt > 0 \/ q = p
    BY <1>1 DEF Took
  <2>2. pobj[r].refcnt > 0 \/ r = p
    BY <1>1 DEF Took
  <2>3. pobj[p].refcnt > 0 \/ pobj[p].refcnt = 0
    BY InUse
  <2>4. ASSUME pobj[p].refcnt = 0, q = p PROVE FALSE
    <3>1. pobj[r].refcnt > 0 /\ r # p /\ pobj'[q].name = name
      BY <1>1, <2>2, <2>4 DEF Took
    <3>2. pobj[r].name # name
      BY <2>4, <3>1 DEF Took
    <3>3. pobj'[r].name = pobj[r].name
      BY <3>1 DEF Took
    <3>4. QED
      BY <1>1, <3>1, <3>2, <3>3
  <2>5. ASSUME pobj[p].refcnt = 0, r = p PROVE FALSE
    <3>1. pobj[q].refcnt > 0 /\ q # p /\ pobj'[r].name = name
      BY <1>1, <2>1, <2>5 DEF Took
    <3>2. pobj[q].name # name
      BY <2>5, <3>1 DEF Took
    <3>3. pobj'[q].name = pobj[q].name
      BY <3>1 DEF Took
    <3>4. QED
      BY <1>1, <3>1, <3>2, <3>3
  <2>6. QED
    BY <2>1, <2>2, <2>3, <2>4, <2>5
<1>3. pobj[q].name = pobj[r].name
  BY <1>1, <1>2, TookKeeps
<1>4. NamesOK(q, r)
  BY DEF SharingInv
<1>5. PICK u \in Clients : /\ Renames(u) /\ th[u].pc = "release_to"
                           /\ \/ q = th[u].po /\ r = th[u].to
                              \/ r = th[u].po /\ q = th[u].to
  BY <1>1, <1>2, <1>3, <1>4 DEF NamesOK
<1>6. u # c
  BY <1>5
<1>7. Agree(th'[u], th[u])
  BY <1>6 DEF Change
<1>8. QED
  BY <1>5, <1>7 DEF Agree, Renames, RenameRec

\* What two clients may have in common, for a client that has got an object to
\* open or to create.
LEMMA SharingOpened ==
    ASSUME TypeOK, LocalInv, PobjRefs, SharingInv, NEW c \in Clients, NEW f, Change(c, f),
           NEW name \in Names, NEW p \in PObjs, Took(name, f.flags, p),
           pobj[p].refcnt = 0 \/ CheckAccess(pobj[p].flags, f.flags),
           th[c].po = Null, th[c].to = Null, f.po = p, f.to = Null,
           f.pc \in {"open", "create"}, th[c].pc = "idle"
    PROVE  SharingInv'
<1>1. ListOK'
  BY ListTook DEF SharingInv
<1>2. \A q, r \in PObjs : NamesOK(q, r)'
  BY NamesTook DEF Renames, RenameRec
<1>3. Null \notin PObjs
  BY NullAssumption
<1>4. \A u \in Clients : u # c => /\ th'[u].po = th[u].po /\ th'[u].to = th[u].to
                                  /\ th'[u].flags = th[u].flags /\ (Renames(u)' <=> Renames(u))
  BY DEF Change, Agree, Renames, RenameRec
<1>5. th'[c].po = p /\ th'[c].to = Null /\ th'[c].flags = f.flags /\ ~Renames(c)'
  BY DEF Change, Agree, Renames, RenameRec
<1>6. \A u \in Clients : /\ th[u].po \in PObjs => pobj[th[u].po].refcnt > 0
                         /\ th[u].to \in PObjs => pobj[th[u].to].refcnt > 0
                         /\ th[u].po \in PObjs \cup {Null} /\ th[u].to \in PObjs \cup {Null}
  BY InUse DEF TypeOK
<1>7. \A u \in Clients : /\ th[u].po \in PObjs => pobj'[th[u].po].flags = pobj[th[u].po].flags
                         /\ th[u].to \in PObjs => pobj'[th[u].to].flags = pobj[th[u].to].flags
  BY <1>6, TookKeeps
<1>8. ASSUME NEW u \in Clients PROVE FlagsOK(u)'
  <2>1. CASE u # c
    BY <1>4, <1>6, <1>7, <2>1 DEF FlagsOK, SharingInv
  <2>2. CASE u = c
    BY <1>5, <2>2 DEF FlagsOK, Took
  <2>3. QED
    BY <2>1, <2>2
<1>9. ASSUME NEW u \in Clients, u # c, th[u].po = p PROVE CheckAccess(th[u].flags, f.flags)
  <2>1. pobj[p].refcnt > 0
    BY <1>6, <1>9
  <2>2. CheckAccess(pobj[p].flags, f.flags)
    BY <2>1
  <2>3. \/ th[u].flags = pobj[p].flags
        \/ CheckAccess(pobj[p].flags, th[u].flags)
    BY <1>3, <1>9 DEF FlagsOK, SharingInv
  <2>4. QED
    BY <2>2, <2>3, AccessTransitive
<1>10. ASSUME NEW u \in Clients, NEW v \in Clients PROVE SharesOK(u, v)'
  <2>1. CASE u # c /\ v # c
    BY <1>4, <2>1 DEF SharesOK, SharingInv
  <2>2. CASE u = c
    BY <1>4, <1>5, <1>9, <2>2, AccessSymmetric DEF SharesOK
  <2>3. CASE v = c
    BY <1>4, <1>5, <1>9, <2>3 DEF SharesOK
  <2>4. QED
    BY <2>1, <2>2, <2>3
<1>11. ASSUME NEW u \in Clients, NEW v \in Clients PROVE ReservedOK(u, v)'
  <2>1. SUFFICES ASSUME Renames(u)' PROVE ReservedOK(u, v)'
    BY DEF ReservedOK
  <2>2. u # c /\ Renames(u) /\ th'[u].to = th[u].to
    BY <1>4, <1>5, <2>1
  <2>3. th[u].to \in PObjs
    BY <1>6, <2>2 DEF LocalInv, LocalRec, Renames, RenameRec, ToLabels
  <2>4. /\ "META" \in pobj[th[u].to].flags
        /\ \A w \in Clients : th[w].po # th[u].to /\ (w # u => th[w].to # th[u].to)
    BY <2>2 DEF ReservedOK, SharingInv
  <2>5. th[u].to # p
    <3>1. pobj[th[u].to].refcnt > 0
      BY <1>6, <2>3
    <3>2. QED
      BY <2>4, <3>1 DEF CheckAccess
  <2>6. QED
    BY <1>3, <1>4, <1>5, <1>7, <2>2, <2>3, <2>4, <2>5 DEF ReservedOK
<1>12. QED
  BY <1>1, <1>2, <1>8, <1>10, <1>11 DEF SharingInv

\* The same for a client that has got the object of a new name, or of an entry
\* of an enumeration.
LEMMA SharingReserved ==
    ASSUME TypeOK, LocalInv, PobjRefs, SharingInv, NEW c \in Clients, NEW f, Change(c, f),
           NEW name \in Names, NEW flags, NEW p \in PObjs, Took(name, flags, p),
           f.po = th[c].po, f.flags = th[c].flags, th[c].to = Null, f.to = p,
           ~Renames(c),
           \/ RenameRec(f) /\ pobj[p].refcnt = 0 /\ "META" \in flags
           \/ ~RenameRec(f) /\ \A u \in Clients : ~Renames(u)
    PROVE  SharingInv'
<1>1. ListOK'
  BY ListTook DEF SharingInv
<1>2. \A q, r \in PObjs : NamesOK(q, r)'
  BY NamesTook
<1>3. Null \notin PObjs
  BY NullAssumption
<1>4. \A u \in Clients : u # c => /\ th'[u].to = th[u].to /\ (Renames(u)' <=> Renames(u))
  BY DEF Change, Agree, Renames, RenameRec
<1>5. th'[c].to = p /\ (Renames(c)' <=> RenameRec(f))
  BY DEF Change, Agree, Renames, RenameRec
<1>6. \A u \in Clients : th'[u].po = th[u].po /\ th'[u].flags = th[u].flags
  BY DEF Change, Agree
<1>7. \A u \in Clients : /\ th[u].po \in PObjs => pobj[th[u].po].refcnt > 0
                         /\ th[u].to \in PObjs => pobj[th[u].to].refcnt > 0
                         /\ th[u].po \in PObjs \cup {Null} /\ th[u].to \in PObjs \cup {Null}
  BY InUse DEF TypeOK
<1>8. \A u \in Clients : /\ th[u].po \in PObjs => pobj'[th[u].po].flags = pobj[th[u].po].flags
                         /\ th[u].to \in PObjs => pobj'[th[u].to].flags = pobj[th[u].to].flags
  BY <1>7, TookKeeps
<1>9. ASSUME NEW u \in Clients PROVE FlagsOK(u)'
  BY <1>6, <1>7, <1>8 DEF FlagsOK, SharingInv
<1>10. ASSUME NEW u \in Clients, NEW v \in Clients PROVE SharesOK(u, v)'
  BY <1>6 DEF SharesOK, SharingInv
<1>11. ASSUME NEW u \in Clients, NEW v \in Clients PROVE ReservedOK(u, v)'
  <2>1. SUFFICES ASSUME Renames(u)' PROVE ReservedOK(u, v)'
    BY DEF ReservedOK
  <2>2. pobj[p].refcnt = 0 /\ "META" \in flags
    BY <1>4, <1>5, <2>1
  <2>3. \A w \in Clients : th[w].po # p /\ th[w].to # p
    BY <1>7, <2>2
  <2>4. CASE u = c
    <3>1. pobj'[p].flags = flags
      BY <2>2 DEF Took
    <3>2. QED
      BY <1>4, <1>5, <1>6, <2>2, <2>3, <2>4, <3>1 DEF ReservedOK
  <2>5. CASE u # c
    <3>1. Renames(u) /\ th'[u].to = th[u].to
      BY <1>4, <2>1, <2>5
    <3>2. th[u].to \in PObjs
      BY <1>7, <3>1 DEF LocalInv, LocalRec, Renames, RenameRec, ToLabels
    <3>3. /\ "META" \in pobj[th[u].to].flags
          /\ \A w \in Clients : th[w].po # th[u].to /\ (w # u => th[w].to # th[u].to)
      BY <3>1 DEF ReservedOK, SharingInv
    <3>4. QED
      BY <1>4, <1>5, <1>6, <1>8, <2>3, <2>5, <3>1, <3>2, <3>3 DEF ReservedOK
  <2>6. QED
    BY <2>4, <2>5
<1>12. QED
  BY <1>1, <1>2, <1>9, <1>10, <1>11 DEF SharingInv


\* A step that takes an object and does nothing else.
LEMMA TookStep ==
    ASSUME Inv, NEW c \in Clients, NEW f, th' = Set(c, f), f \in ClientRecs, LocalRec(f),
           NEW name \in Names, NEW flags, NEW p \in PObjs, Took(name, flags, p),
           pobj' \in [PObjs -> [refcnt : Nat, name : Names \cup {Null},
                                flags : SUBSET FlagNames, creating : BOOLEAN]],
           tee_pobjs' \in Seq(PObjs),
           SharingInv',
           \/ f.po = p /\ th[c].po = Null /\ f.to = th[c].to /\ f.h = Null
           \/ /\ f.to = p /\ th[c].to = Null /\ f.po = th[c].po /\ f.h = th[c].h
              /\ f.flags = th[c].flags /\ f.failed = th[c].failed,
           f.enum = th[c].enum, f.h = th[c].h, Alone(c, f),
           th[c].pc \in {"idle", "enum_get"}, f.pc \in {"open", "create", "rename", "enum_open"},
           UNCHANGED <<diskVars, dirhVars, bad>>
    PROVE  Inv'
<1>1. /\ th \in [Clients -> ClientRecs] /\ LocalRec(th[c]) /\ dirhRefs \in Nat
      /\ bad \in 0 .. MaxBad /\ Current /\ (fsMutex # Null => dirh # Null)
  BY InvTypes
<1>2. Change(c, f)
  BY SetChanges DEF Inv
<1>3. Current'
  <2>1. \A u \in Clients : th'[u] = IF u = c THEN f ELSE th[u]
    BY <1>1 DEF Set
  <2>2. QED
    BY <1>1, <2>1 DEF Current, dirhVars
<1>4. LocalInv'
  <2>1. f.pc \in MutexLabels <=> th[c].pc \in MutexLabels
    BY DEF MutexLabels
  <2>2. QED
    BY <1>1, <1>2, <1>3, <2>1, LocalStep DEF Inv, Alone, dirhVars
<1>5. DirRefs'
  <2>1. RefsOf(f) = RefsOf(th[c])
    BY DEF RefsOf, HasDir, Calls
  <2>2. RefsOf(f) \in Int
    BY DEF RefsOf, Bit
  <2>3. dirhRefs' = dirhRefs + RefsOf(f) - RefsOf(th[c])
    BY <1>1, <2>1, <2>2 DEF dirhVars
  <2>4. QED
    BY <1>2, <2>3, DirRefsStep DEF Inv
<1>6. PobjRefs'
  BY <1>2, PobjRefsTook DEF Inv
<1>7. ASSUME NEW u \in Clients, th[u].h # Null PROVE pobj'[ObjOf(u)].name = pobj[ObjOf(u)].name
  <2>1. th[u].po \in PObjs \cup {Null} /\ th[u].to \in PObjs \cup {Null} /\ LocalRec(th[u])
    BY InvTypes DEF ClientRecs
  <2>2. ObjOf(u) \in PObjs
    BY <1>7, <2>1 DEF LocalRec, ObjOf, ObjRec, ToLabels
  <2>3. pobj[ObjOf(u)].refcnt > 0
    BY <2>2, InUse DEF Inv, ObjOf, ObjRec
  <2>4. QED
    BY <2>2, <2>3, TookKeeps DEF Inv
<1>8. FilesInv'
  <2>1. \/ dirh' = Null
        \/ dirh'.dir = dirf /\ \A i \in Used(dirf) : dirf[i].num \in dirh'.bits
    BY DEF Inv, FilesInv, DirInv, dirhVars
  <2>2. th[c].pc \notin RemoveLabels \cup {"set_name"} \cup Ending /\ th[c].pc # "update"
    BY DEF RemoveLabels, Ending
  <2>3. f.pc \notin RemoveLabels \cup {"set_name", "update"} /\ f.pc # "rename_pobj"
    BY DEF RemoveLabels
  <2>4. f.h # Null => /\ f.flags = th[c].flags /\ f.po = th[c].po /\ f.failed = th[c].failed
                      /\ pobj'[ObjRec(f)].name = pobj[ObjOf(c)].name
    <3>1. ObjOf(c) = th[c].po
      BY DEF ObjOf, ObjRec
    <3>2. ObjRec(f) = f.po
      BY <2>3 DEF ObjRec
    <3>3. QED
      BY <1>7, <3>1, <3>2
  <2>5. QED
    BY <1>2, <1>7, <2>1, <2>2, <2>3, <2>4, FilesKept DEF Inv, diskVars, dirhVars
<1>9. TypeOK'
  BY <1>2 DEF Inv, TypeOK, Change, ClientRecs, diskVars, dirhVars
<1>10. QED
  BY <1>4, <1>5, <1>6, <1>8, <1>9 DEF Inv

LEMMA OpenStep ==
    ASSUME Inv, WellUsed, NEW c \in Clients, NEW name \in Names, NEW flags \in OpenFlags,
           Open(c, name, flags)
    PROVE  Inv'
<1>1. th[c] \in ClientRecs /\ LocalRec(th[c])
  BY InvTypes
<1>2. PICK p \in PObjs : PobjGet(name, flags, "OPEN", p)
                         /\ th' = Set(c, [th[c] EXCEPT !.pc = "open", !.po = p, !.flags = flags])
  BY DEF Open
<1>3. flags \in SUBSET FlagNames /\ "SHARE_WRITE" \notin flags
  BY ConstantsAssumption DEF WellUsed
<1>4. PICK f : f = [th[c] EXCEPT !.pc = "open", !.po = p, !.flags = flags]
  OBVIOUS
<1>5. Fields(f, "open", p, th[c].to, flags, th[c].num, th[c].h, th[c].failed, th[c].enum, th[c].ent)
  BY <1>1, <1>3, <1>4 DEF Fields, ClientRecs, Labels
<1>6. p # Null
  BY NullAssumption
<1>7. /\ th[c].pc = "idle" /\ th[c].h = Null /\ th[c].po = Null /\ th[c].to = Null
      /\ \A u \in Clients : th[u].enum = Null
  BY <1>1 DEF Open, MayStart, At, WellUsed, LocalRec, ToLabels, EnumLabels
<1>8. LocalRec(f)
  BY <1>1, <1>3, <1>5, <1>6, <1>7 DEF Fields, LocalRec, RenameRec, RemoveLabels, ToLabels,
     EnumLabels, MutexLabels
<1>9. Alone(c, f)
  BY <1>5, <1>7 DEF Alone, Fields
<1>10. /\ Took(name, flags, p)
       /\ pobj[p].refcnt = 0 \/ CheckAccess(pobj[p].flags, flags)
       /\ pobj' \in [PObjs -> [refcnt : Nat, name : Names \cup {Null},
                               flags : SUBSET FlagNames, creating : BOOLEAN]]
       /\ tee_pobjs' \in Seq(PObjs)
  <2>1. /\ Took(name, flags, p)
        /\ "OPEN" = "ENUM" \/ pobj[p].refcnt = 0 \/ CheckAccess(pobj[p].flags, flags)
        /\ pobj' \in [PObjs -> [refcnt : Nat, name : Names \cup {Null},
                                flags : SUBSET FlagNames, creating : BOOLEAN]]
        /\ tee_pobjs' \in Seq(PObjs)
    BY <1>2, <1>3, GetTakes DEF Inv
  <2>2. "OPEN" # "ENUM"
    OBVIOUS
  <2>3. QED
    BY <2>1, <2>2
<1>11. Change(c, f)
  BY <1>2, <1>4, <1>5, SetChanges DEF Inv, Fields
<1>12. SharingInv'
  BY <1>5, <1>7, <1>10, <1>11, SharingOpened DEF Inv, Fields
<1>13. QED
  BY <1>2, <1>4, <1>5, <1>7, <1>8, <1>9, <1>10, <1>12, TookStep DEF Fields, Open

LEMMA CreateStep ==
    ASSUME Inv, WellUsed, NEW c \in Clients, NEW name \in Names, NEW flags \in CreateFlags,
           Create(c, name, flags)
    PROVE  Inv'
<1>1. th[c] \in ClientRecs /\ LocalRec(th[c])
  BY InvTypes
<1>2. PICK p \in PObjs : PobjGet(name, flags, "CREATE", p)
                         /\ th' = Set(c, [th[c] EXCEPT !.pc = "create", !.po = p, !.flags = flags])
  BY DEF Create
<1>3. flags \in SUBSET FlagNames /\ "SHARE_WRITE" \notin flags
  BY ConstantsAssumption DEF WellUsed
<1>4. PICK f : f = [th[c] EXCEPT !.pc = "create", !.po = p, !.flags = flags]
  OBVIOUS
<1>5. Fields(f, "create", p, th[c].to, flags, th[c].num, th[c].h, th[c].failed, th[c].enum, th[c].ent)
  BY <1>1, <1>3, <1>4 DEF Fields, ClientRecs, Labels
<1>6. p # Null
  BY NullAssumption
<1>7. /\ th[c].pc = "idle" /\ th[c].h = Null /\ th[c].po = Null /\ th[c].to = Null
      /\ \A u \in Clients : th[u].enum = Null
  BY <1>1 DEF Create, MayStart, At, WellUsed, LocalRec, ToLabels, EnumLabels
<1>8. LocalRec(f)
  BY <1>1, <1>3, <1>5, <1>6, <1>7 DEF Fields, LocalRec, RenameRec, RemoveLabels, ToLabels,
     EnumLabels, MutexLabels
<1>9. Alone(c, f)
  BY <1>5, <1>7 DEF Alone, Fields
<1>10. /\ Took(name, flags, p)
       /\ pobj[p].refcnt = 0 \/ CheckAccess(pobj[p].flags, flags)
       /\ pobj' \in [PObjs -> [refcnt : Nat, name : Names \cup {Null},
                               flags : SUBSET FlagNames, creating : BOOLEAN]]
       /\ tee_pobjs' \in Seq(PObjs)
  <2>1. /\ Took(name, flags, p)
        /\ "CREATE" = "ENUM" \/ pobj[p].refcnt = 0 \/ CheckAccess(pobj[p].flags, flags)
        /\ pobj' \in [PObjs -> [refcnt : Nat, name : Names \cup {Null},
                                flags : SUBSET FlagNames, creating : BOOLEAN]]
        /\ tee_pobjs' \in Seq(PObjs)
    BY <1>2, <1>3, GetTakes DEF Inv
  <2>2. "CREATE" # "ENUM"
    OBVIOUS
  <2>3. QED
    BY <2>1, <2>2
<1>11. Change(c, f)
  BY <1>2, <1>4, <1>5, SetChanges DEF Inv, Fields
<1>12. SharingInv'
  BY <1>5, <1>7, <1>10, <1>11, SharingOpened DEF Inv, Fields
<1>13. QED
  BY <1>2, <1>4, <1>5, <1>7, <1>8, <1>9, <1>10, <1>12, TookStep DEF Fields, Create

LEMMA RenameStep ==
    ASSUME Inv, WellUsed, NEW c \in Clients, NEW name \in Names, Rename(c, name)
    PROVE  Inv'
<1>1. th[c] \in ClientRecs /\ LocalRec(th[c])
  BY InvTypes
<1>2. PICK p \in PObjs : PobjGet(name, {"META"}, "RENAME", p)
                         /\ th' = Set(c, [th[c] EXCEPT !.pc = "rename", !.to = p])
  BY DEF Rename
<1>3. {"META"} \in SUBSET FlagNames
  BY DEF FlagNames
<1>4. PICK f : f = [th[c] EXCEPT !.pc = "rename", !.to = p]
  OBVIOUS
<1>5. Fields(f, "rename", th[c].po, p, th[c].flags, th[c].num, th[c].h, th[c].failed, th[c].enum, th[c].ent)
  BY <1>1, <1>4 DEF Fields, ClientRecs, Labels
<1>6. p # Null
  BY NullAssumption
<1>7. /\ th[c].pc = "idle" /\ th[c].h # Null /\ th[c].to = Null /\ "META" \in th[c].flags
      /\ \A u \in Clients : th[u].enum = Null
  BY <1>1 DEF Rename, MayStart, At, WellUsed, LocalRec, ToLabels, EnumLabels
<1>8. LocalRec(f)
  BY <1>1, <1>5, <1>6, <1>7 DEF Fields, LocalRec, RenameRec, RemoveLabels, ToLabels, EnumLabels,
     MutexLabels
<1>9. Alone(c, f)
  BY <1>5, <1>7 DEF Alone, Fields
<1>10. /\ Took(name, {"META"}, p) /\ pobj[p].refcnt = 0
       /\ pobj' \in [PObjs -> [refcnt : Nat, name : Names \cup {Null},
                               flags : SUBSET FlagNames, creating : BOOLEAN]]
       /\ tee_pobjs' \in Seq(PObjs)
  <2>1. ~CheckAccess(pobj[p].flags, {"META"})
    BY DEF CheckAccess
  <2>2. /\ Took(name, {"META"}, p)
        /\ "RENAME" = "ENUM" \/ pobj[p].refcnt = 0 \/ CheckAccess(pobj[p].flags, {"META"})
        /\ pobj' \in [PObjs -> [refcnt : Nat, name : Names \cup {Null},
                                flags : SUBSET FlagNames, creating : BOOLEAN]]
        /\ tee_pobjs' \in Seq(PObjs)
    BY <1>2, <1>3, GetTakes DEF Inv
  <2>3. "RENAME" # "ENUM"
    OBVIOUS
  <2>4. QED
    BY <2>1, <2>2, <2>3
<1>11. Change(c, f)
  BY <1>2, <1>4, <1>5, SetChanges DEF Inv, Fields
<1>12. SharingInv'
  <2>1. RenameRec(f) /\ ~Renames(c)
    BY <1>5, <1>7 DEF RenameRec, Renames, Fields
  <2>2. f.po = th[c].po /\ f.flags = th[c].flags /\ f.to = p /\ "META" \in {"META"}
    BY <1>5 DEF Fields
  <2>3. QED
    BY <1>7, <1>10, <1>11, <2>1, <2>2, SharingReserved DEF Inv
<1>13. QED
  BY <1>2, <1>4, <1>5, <1>7, <1>8, <1>9, <1>10, <1>12, TookStep DEF Fields, Rename

LEMMA EnumGetStep ==
    ASSUME Inv, WellUsed, NEW c \in Clients, EnumGet(c)
    PROVE  Inv'
<1>1. th[c] \in ClientRecs /\ LocalRec(th[c])
  BY InvTypes
<1>2. PICK p \in PObjs : PobjGet(th[c].ent, {}, "ENUM", p)
                         /\ th' = Set(c, [th[c] EXCEPT !.pc = "enum_open", !.to = p])
  BY DEF EnumGet
<1>3. PICK f : f = [th[c] EXCEPT !.pc = "enum_open", !.to = p]
  OBVIOUS
<1>4. Fields(f, "enum_open", th[c].po, p, th[c].flags, th[c].num, th[c].h, th[c].failed, th[c].enum, th[c].ent)
  BY <1>1, <1>3 DEF Fields, ClientRecs, Labels
<1>5. p # Null
  BY NullAssumption
<1>6. th[c].pc = "enum_get" /\ th[c].enum # Null /\ th[c].to = Null /\ th[c].ent \in Names
  BY <1>1 DEF EnumGet, At, LocalRec, ToLabels, ClientRecs
<1>7. LocalRec(f)
  BY <1>1, <1>4, <1>5, <1>6 DEF Fields, LocalRec, RenameRec, RemoveLabels, ToLabels, EnumLabels,
     MutexLabels
<1>8. Alone(c, f)
  BY <1>6 DEF Alone
<1>9. /\ Took(th[c].ent, {}, p)
      /\ pobj' \in [PObjs -> [refcnt : Nat, name : Names \cup {Null},
                              flags : SUBSET FlagNames, creating : BOOLEAN]]
      /\ tee_pobjs' \in Seq(PObjs)
  BY <1>2, <1>6, GetTakes DEF Inv
<1>10. Change(c, f)
  BY <1>2, <1>3, <1>4, SetChanges DEF Inv, Fields
<1>11. SharingInv'
  <2>1. ~RenameRec(f) /\ \A u \in Clients : ~Renames(u)
    BY <1>4, <1>6 DEF RenameRec, Renames, Fields, Inv, LocalInv, EnumOK, At
  <2>2. f.po = th[c].po /\ f.flags = th[c].flags /\ f.to = p
    BY <1>4 DEF Fields
  <2>3. QED
    BY <1>6, <1>9, <1>10, <2>1, <2>2, SharingReserved DEF Inv
<1>12. QED
  BY <1>2, <1>3, <1>4, <1>6, <1>7, <1>8, <1>9, <1>11, TookStep DEF Fields, EnumGet


-----------------------------------------------------------------------------
(* Steps that release an object *)

\* tee_pobj_release() as the invariant sees it.
Dropped(p) ==
    /\ \A q \in PObjs : q # p => pobj'[q] = pobj[q]
    /\ pobj'[p].refcnt = pobj[p].refcnt - 1
    /\ pobj'[p].refcnt > 0 => pobj'[p].name = pobj[p].name /\ pobj'[p].flags = pobj[p].flags
    /\ \A i, j \in DOMAIN tee_pobjs' : tee_pobjs'[i] = tee_pobjs'[j] => i = j
    /\ \A q \in PObjs : (\E i \in DOMAIN tee_pobjs' : tee_pobjs'[i] = q)
                           <=> /\ \E i \in DOMAIN tee_pobjs : tee_pobjs[i] = q
                               /\ q = p => pobj'[p].refcnt > 0

\* TAILQ_REMOVE() of an element that the list has once.
LEMMA ListShifts ==
    ASSUME NEW S, NEW s \in Seq(S), NEW k \in DOMAIN s
    PROVE  LET t == SubSeq(s, 1, k - 1) \o SubSeq(s, k + 1, Len(s))
           IN  /\ t \in Seq(S) /\ DOMAIN t = 1 .. Len(s) - 1
               /\ \A i \in 1 .. Len(s) - 1 : t[i] = IF i < k THEN s[i] ELSE s[i + 1]
<1>1. Len(s) \in Nat /\ DOMAIN s = 1 .. Len(s)
  OBVIOUS
<1>2. PICK front, back, t :
         /\ front = SubSeq(s, 1, k - 1) /\ back = SubSeq(s, k + 1, Len(s))
         /\ t = front \o back
  OBVIOUS
<1>3. front \in Seq(S) /\ Len(front) = k - 1 /\ \A i \in 1 .. k - 1 : front[i] = s[i]
  <2>1. k - 1 \in Int /\ 1 \in Int /\ \A i \in 1 .. k - 1 : s[i] \in S
    BY <1>1
  <2>2. /\ front \in Seq(S) /\ Len(front) = IF 1 <= k - 1 THEN k - 1 - 1 + 1 ELSE 0
        /\ \A i \in 1 .. k - 1 - 1 + 1 : front[i] = s[1 + i - 1]
    BY <1>2, <2>1, SubSeqProperties
  <2>3. QED
    BY <1>1, <2>2
<1>4. back \in Seq(S) /\ Len(back) = Len(s) - k /\ \A i \in 1 .. Len(s) - k : back[i] = s[k + i]
  <2>1. k + 1 \in Int /\ Len(s) \in Int /\ k \in Int /\ \A i \in k + 1 .. Len(s) : s[i] \in S
    BY <1>1
  <2>2. /\ back \in Seq(S)
        /\ Len(back) = IF k + 1 <= Len(s) THEN Len(s) - (k + 1) + 1 ELSE 0
        /\ \A i \in 1 .. Len(s) - (k + 1) + 1 : back[i] = s[k + 1 + i - 1]
    BY <1>2, <2>1, SubSeqProperties
  <2>3. Len(s) - (k + 1) + 1 = Len(s) - k /\ k <= Len(s)
    BY <1>1
  <2>4. Len(back) = Len(s) - k
    BY <1>1, <2>2, <2>3
  <2>5. ASSUME NEW i \in 1 .. Len(s) - k PROVE back[i] = s[k + i]
    <3>0. i \in Int /\ i \in 1 .. Len(s) - (k + 1) + 1
      BY <2>1, <2>3
    <3>1. k + 1 + i - 1 = k + i
      BY <2>1, <3>0
    <3>2. back[i] = s[k + 1 + i - 1]
      BY <2>2, <3>0
    <3>3. QED
      BY <3>1, <3>2
  <2>6. QED
    BY <2>2, <2>4, <2>5
<1>5. /\ t \in Seq(S) /\ Len(t) = Len(front) + Len(back)
      /\ \A i \in 1 .. Len(front) + Len(back) :
            t[i] = IF i <= Len(front) THEN front[i] ELSE back[i - Len(front)]
  <2>1. t = front \o back
    BY <1>2
  <2>2. QED
    BY <1>3, <1>4, <2>1, ConcatProperties, Zenon
<1>6. Len(t) = Len(s) - 1
  BY <1>1, <1>3, <1>4, <1>5
<1>7. DOMAIN t = 1 .. Len(s) - 1
  BY <1>5, <1>6
<1>8. ASSUME NEW i \in 1 .. Len(s) - 1 PROVE t[i] = IF i < k THEN s[i] ELSE s[i + 1]
  <2>1. i \in 1 .. Len(front) + Len(back)
    BY <1>1, <1>3, <1>4
  <2>2. CASE i < k
    <3>1. t[i] = front[i]
      BY <1>1, <1>3, <1>5, <2>1, <2>2
    <3>2. QED
      BY <1>1, <1>3, <2>2, <3>1
  <2>3. CASE ~(i < k)
    <3>1. t[i] = back[i - (k - 1)]
      BY <1>1, <1>3, <1>5, <2>1, <2>3
    <3>2. i - (k - 1) \in 1 .. Len(s) - k /\ k + (i - (k - 1)) = i + 1
      BY <1>1, <2>3
    <3>3. QED
      BY <1>4, <2>3, <3>1, <3>2
  <2>4. QED
    BY <2>2, <2>3
<1>9. QED
  BY <1>2, <1>5, <1>7, <1>8

Once(s) == \A i, j \in DOMAIN s : s[i] = s[j] => i = j
Has(s, q) == \E i \in DOMAIN s : s[i] = q
Without(s, k, t) ==
    /\ DOMAIN t = 1 .. Len(s) - 1
    /\ \A i \in 1 .. Len(s) - 1 : t[i] = IF i < k THEN s[i] ELSE s[i + 1]

LEMMA ListWithout ==
    ASSUME NEW S, NEW s \in Seq(S), Once(s), NEW k \in DOMAIN s, NEW t \in Seq(S),
           Without(s, k, t)
    PROVE  Once(t) /\ \A q \in S : Has(t, q) <=> Has(s, q) /\ q # s[k]
<1>1. Len(s) \in Nat /\ DOMAIN s = 1 .. Len(s) /\ k \in Int
  OBVIOUS
<1>2. ASSUME NEW i \in DOMAIN t
      PROVE  \E j \in DOMAIN s : j # k /\ t[i] = s[j] /\ j = IF i < k THEN i ELSE i + 1
  BY <1>1 DEF Without
<1>3. Once(t)
  <2>1. SUFFICES ASSUME NEW i \in DOMAIN t, NEW j \in DOMAIN t, t[i] = t[j] PROVE i = j
    BY DEF Once
  <2>2. i \in Int /\ j \in Int
    BY <1>1 DEF Without
  <2>3. QED
    BY <1>1, <1>2, <2>1, <2>2 DEF Once
<1>4. ASSUME NEW i \in DOMAIN t PROVE (\E j \in DOMAIN s : s[j] = t[i]) /\ t[i] # s[k]
  BY <1>2 DEF Once
<1>5. ASSUME NEW j \in DOMAIN s, s[j] # s[k] PROVE \E i \in DOMAIN t : t[i] = s[j]
  <2>1. CASE j < k
    BY <1>1, <2>1 DEF Without
  <2>2. CASE j > k
    <3>1. j - 1 \in DOMAIN t /\ t[j - 1] = s[j]
      BY <1>1, <2>2 DEF Without
    <3>2. QED
      BY <3>1
  <2>3. QED
    BY <1>1, <1>5, <2>1, <2>2
<1>6. QED
  BY <1>3, <1>4, <1>5 DEF Has

LEMMA ReleaseDrops ==
    ASSUME TypeOK, PobjRefs, ListOK, NEW p \in PObjs, pobj[p].refcnt > 0, PobjRelease(p)
    PROVE  /\ Dropped(p)
           /\ pobj' \in [PObjs -> [refcnt : Nat, name : Names \cup {Null},
                                   flags : SUBSET FlagNames, creating : BOOLEAN]]
           /\ tee_pobjs' \in Seq(PObjs)
<1>1. /\ pobj \in [PObjs -> [refcnt : Nat, name : Names \cup {Null},
                            flags : SUBSET FlagNames, creating : BOOLEAN]]
      /\ tee_pobjs \in Seq(PObjs)
  BY DEF TypeOK
<1>2. Once(tee_pobjs)
  BY DEF ListOK, Once
<1>3. CASE pobj[p].refcnt = 1
  <2>1. pobj' = [pobj EXCEPT ![p] = FreeObj]
    BY <1>3 DEF PobjRelease
  <2>2. PICK k \in DOMAIN tee_pobjs :
           /\ tee_pobjs[k] = p
           /\ tee_pobjs' = SubSeq(tee_pobjs, 1, k - 1) \o SubSeq(tee_pobjs, k + 1, Len(tee_pobjs))
    BY <1>3 DEF PobjRelease
  <2>3. /\ FreeObj \in [refcnt : Nat, name : Names \cup {Null},
                        flags : SUBSET FlagNames, creating : BOOLEAN]
        /\ FreeObj.refcnt = 0
    BY DEF FreeObj
  <2>4. /\ pobj' \in [PObjs -> [refcnt : Nat, name : Names \cup {Null},
                                flags : SUBSET FlagNames, creating : BOOLEAN]]
        /\ pobj'[p].refcnt = 0
        /\ \A q \in PObjs : q # p => pobj'[q] = pobj[q]
    BY <1>1, <2>1, <2>3
  <2>5. /\ tee_pobjs' \in Seq(PObjs)
        /\ \A i, j \in DOMAIN tee_pobjs' : tee_pobjs'[i] = tee_pobjs'[j] => i = j
        /\ \A q \in PObjs : (\E i \in DOMAIN tee_pobjs' : tee_pobjs'[i] = q)
                               <=> (\E i \in DOMAIN tee_pobjs : tee_pobjs[i] = q) /\ q # p
    <3>1. PICK t : t = SubSeq(tee_pobjs, 1, k - 1) \o SubSeq(tee_pobjs, k + 1, Len(tee_pobjs))
      OBVIOUS
    <3>2. t \in Seq(PObjs) /\ Without(tee_pobjs, k, t)
      BY <1>1, <3>1, ListShifts DEF Without
    <3>3. Once(t) /\ \A q \in PObjs : Has(t, q) <=> Has(tee_pobjs, q) /\ q # tee_pobjs[k]
      BY <1>1, <1>2, <3>2, ListWithout
    <3>4. tee_pobjs' = t
      BY <2>2, <3>1
    <3>5. QED
      BY <2>2, <3>2, <3>3, <3>4 DEF Once, Has
  <2>6. QED
    BY <1>3, <2>4, <2>5 DEF Dropped
<1>4. CASE pobj[p].refcnt # 1
  <2>1. pobj' = [pobj EXCEPT ![p].refcnt = @ - 1] /\ tee_pobjs' = tee_pobjs
    BY <1>4 DEF PobjRelease
  <2>2. PICK r \in [refcnt : Nat, name : Names \cup {Null},
                     flags : SUBSET FlagNames, creating : BOOLEAN] : r = pobj[p]
    BY <1>1
  <2>3. r.refcnt > 1
    BY <1>4, <2>2
  <2>4. PICK k : k = [r EXCEPT !.refcnt = r.refcnt - 1]
    OBVIOUS
  <2>5. /\ k \in [refcnt : Nat, name : Names \cup {Null},
                   flags : SUBSET FlagNames, creating : BOOLEAN]
        /\ k.refcnt = r.refcnt - 1 /\ k.name = r.name /\ k.flags = r.flags /\ k.refcnt > 0
    BY <2>3, <2>4
  <2>6. pobj' = [pobj EXCEPT ![p] = k]
    BY <1>1, <2>1, <2>2, <2>4
  <2>7. /\ pobj' \in [PObjs -> [refcnt : Nat, name : Names \cup {Null},
                                flags : SUBSET FlagNames, creating : BOOLEAN]]
        /\ pobj'[p] = k
        /\ \A q \in PObjs : q # p => pobj'[q] = pobj[q]
    BY <1>1, <2>5, <2>6
  <2>8. QED
    BY <1>1, <1>2, <2>1, <2>2, <2>5, <2>7 DEF Dropped, Once
<1>5. QED
  BY <1>3, <1>4

\* The object that c released has one reference less.
LEMMA PobjRefsDropped ==
    ASSUME TypeOK, PobjRefs, NEW c \in Clients, NEW f, Change(c, f), NEW p \in PObjs, Dropped(p),
           \/ th[c].po = p /\ f.po = Null /\ f.to = th[c].to
           \/ th[c].to = p /\ f.to = Null /\ f.po = th[c].po
    PROVE  PobjRefs'
<1>1. Null \notin PObjs
  BY NullAssumption
<1>2. SUFFICES ASSUME NEW q \in PObjs
               PROVE  /\ pobj'[q].refcnt = Cardinality({u \in Clients : th'[u].po = q})
                                           + Cardinality({u \in Clients : th'[u].to = q})
                      /\ pobj'[q].refcnt > 0 <=> \E i \in DOMAIN tee_pobjs' : tee_pobjs'[i] = q
  BY DEF PobjRefs
<1> DEFINE A == {u \in Clients : th[u].po = q}
           AA == {u \in Clients : th'[u].po = q}
           B == {u \in Clients : th[u].to = q}
           BB == {u \in Clients : th'[u].to = q}
<1>3. A \in SUBSET Clients /\ AA \in SUBSET Clients /\ B \in SUBSET Clients /\ BB \in SUBSET Clients
  OBVIOUS
<1>4. \A u \in Clients : u # c => (u \in A <=> u \in AA) /\ (u \in B <=> u \in BB)
  BY DEF Change, Agree
<1>5. /\ (c \in A <=> th[c].po = q) /\ (c \in AA <=> f.po = q)
      /\ (c \in B <=> th[c].to = q) /\ (c \in BB <=> f.to = q)
  BY DEF Change, Agree
<1>6. pobj[q].refcnt = Cardinality(A) + Cardinality(B)
  BY DEF PobjRefs
<1> HIDE DEF A, AA, B, BB
<1>7. /\ Cardinality(A) \in Nat /\ Cardinality(AA) \in Nat
      /\ Cardinality(AA) = Cardinality(A) + Bit(c \in AA) - Bit(c \in A)
  BY <1>3, <1>4, CardMoves
<1>8. /\ Cardinality(B) \in Nat /\ Cardinality(BB) \in Nat
      /\ Cardinality(BB) = Cardinality(B) + Bit(c \in BB) - Bit(c \in B)
  BY <1>3, <1>4, CardMoves
<1>9. pobj'[q].refcnt = pobj[q].refcnt - (IF q = p THEN 1 ELSE 0)
  <2>1. CASE q = p
    BY <2>1 DEF Dropped
  <2>2. CASE q # p
    BY <1>6, <1>7, <1>8, <2>2 DEF Dropped
  <2>3. QED
    BY <2>1, <2>2
<1>10. pobj'[q].refcnt = Cardinality(AA) + Cardinality(BB)
  <2>1. CASE th[c].po = p /\ f.po = Null /\ f.to = th[c].to
    <3>1. Bit(c \in BB) = Bit(c \in B) /\ Bit(c \in AA) = 0 /\ Bit(c \in B) \in Int
      BY <1>1, <1>5, <2>1 DEF Bit
    <3>2. Bit(c \in A) = IF q = p THEN 1 ELSE 0
      BY <1>5, <2>1 DEF Bit
    <3>3. QED
      BY <1>6, <1>7, <1>8, <1>9, <3>1, <3>2
  <2>2. CASE th[c].to = p /\ f.to = Null /\ f.po = th[c].po
    <3>1. Bit(c \in AA) = Bit(c \in A) /\ Bit(c \in BB) = 0 /\ Bit(c \in A) \in Int
      BY <1>1, <1>5, <2>2 DEF Bit
    <3>2. Bit(c \in B) = IF q = p THEN 1 ELSE 0
      BY <1>5, <2>2 DEF Bit
    <3>3. QED
      BY <1>6, <1>7, <1>8, <1>9, <3>1, <3>2
  <2>3. QED
    BY <2>1, <2>2
<1>11. pobj[q].refcnt > 0 <=> \E i \in DOMAIN tee_pobjs : tee_pobjs[i] = q
  BY DEF PobjRefs
<1>12. pobj'[q].refcnt > 0 <=> \E i \in DOMAIN tee_pobjs' : tee_pobjs'[i] = q
  <2>1. (\E i \in DOMAIN tee_pobjs' : tee_pobjs'[i] = q)
           <=> /\ \E i \in DOMAIN tee_pobjs : tee_pobjs[i] = q
               /\ q = p => pobj'[p].refcnt > 0
    BY DEF Dropped
  <2>2. pobj'[q].refcnt > 0 => pobj[q].refcnt > 0
    BY <1>6, <1>7, <1>8, <1>9
  <2>3. q # p => pobj'[q].refcnt = pobj[q].refcnt
    BY DEF Dropped
  <2>4. QED
    BY <1>11, <2>1, <2>2, <2>3
<1>13. QED
  BY <1>10, <1>12 DEF AA, BB

\* Names and flags of the objects that stay in use.
LEMMA DroppedKeeps ==
    ASSUME PobjRefs, NEW p \in PObjs, Dropped(p), NEW q \in PObjs, pobj'[q].refcnt > 0
    PROVE  /\ pobj'[q].name = pobj[q].name /\ pobj'[q].flags = pobj[q].flags
           /\ pobj[q].refcnt > 0
<1>1. pobj[p].refcnt \in Nat
  BY InUse
<1>2. CASE q = p
  BY <1>1, <1>2 DEF Dropped
<1>3. CASE q # p
  BY <1>3 DEF Dropped
<1>4. QED
  BY <1>2, <1>3

LEMMA InUseAfter ==
    ASSUME PobjRefs', NEW p \in PObjs
    PROVE  /\ pobj'[p].refcnt \in Nat
           /\ pobj'[p].refcnt > 0 <=> \E u \in Clients : th'[u].po = p \/ th'[u].to = p
<1> DEFINE A == {u \in Clients : th'[u].po = p}
           B == {u \in Clients : th'[u].to = p}
<1>1. A \in SUBSET Clients /\ B \in SUBSET Clients
  OBVIOUS
<1>2. pobj'[p].refcnt = Cardinality(A) + Cardinality(B)
  BY DEF PobjRefs
<1>3. (A # {} \/ B # {}) <=> \E u \in Clients : th'[u].po = p \/ th'[u].to = p
  OBVIOUS
<1> HIDE DEF A, B
<1>4. /\ Cardinality(A) \in Nat /\ (A = {} => Cardinality(A) = 0) /\ (A # {} => Cardinality(A) > 0)
      /\ Cardinality(B) \in Nat /\ (B = {} => Cardinality(B) = 0) /\ (B # {} => Cardinality(B) > 0)
  BY <1>1, CardPositive
<1>5. QED
  BY <1>2, <1>3, <1>4

LEMMA SharingDropped ==
    ASSUME TypeOK, LocalInv, PobjRefs, SharingInv, NEW c \in Clients, NEW f, Change(c, f),
           PobjRefs', NEW p \in PObjs, Dropped(p), ~RenameRec(f),
           \/ th[c].po = p /\ f.po = Null /\ f.to = th[c].to /\ ~Renames(c)
           \/ th[c].to = p /\ f.to = Null /\ f.po = th[c].po /\ f.flags = th[c].flags
    PROVE  SharingInv'
<1>1. Null \notin PObjs
  BY NullAssumption
<1>2. \A u \in Clients : u # c => /\ th'[u].po = th[u].po /\ th'[u].to = th[u].to
                                  /\ th'[u].flags = th[u].flags /\ th'[u].pc = th[u].pc
                                  /\ (Renames(u)' <=> Renames(u))
  BY DEF Change, Agree, Renames, RenameRec
<1>3. /\ th'[c].po = f.po /\ th'[c].to = f.to /\ th'[c].flags = f.flags /\ ~Renames(c)'
      /\ f.po = Null \/ (f.po = th[c].po /\ f.flags = th[c].flags)
  BY DEF Change, Agree, Renames, RenameRec
<1>4. \A u \in Clients : /\ th[u].po \in PObjs \cup {Null} /\ th[u].to \in PObjs \cup {Null}
                         /\ th'[u].po # Null => th'[u].po = th[u].po /\ th'[u].flags = th[u].flags
  BY <1>2, <1>3 DEF TypeOK
<1>5. \A u \in Clients : /\ th'[u].po # Null => pobj'[th[u].po].flags = pobj[th[u].po].flags
                         /\ Renames(u)' => pobj'[th[u].to].flags = pobj[th[u].to].flags
  <2>1. TAKE u \in Clients
  <2>2. ASSUME th'[u].po # Null PROVE pobj'[th[u].po].flags = pobj[th[u].po].flags
    <3>1. th[u].po \in PObjs /\ th'[u].po = th[u].po
      BY <1>4, <2>2
    <3>2. QED
      BY <3>1, InUseAfter, DroppedKeeps
  <2>3. ASSUME Renames(u)' PROVE pobj'[th[u].to].flags = pobj[th[u].to].flags
    <3>1. u # c /\ Renames(u) /\ th'[u].to = th[u].to
      BY <1>2, <1>3, <2>3
    <3>2. th[u].to \in PObjs
      BY <1>4, <3>1 DEF LocalInv, LocalRec, Renames, RenameRec, ToLabels
    <3>3. QED
      BY <3>1, <3>2, InUseAfter, DroppedKeeps
  <2>4. QED
    BY <2>2, <2>3
<1>6. ListOK'
  <2>1. ASSUME NEW q \in PObjs, pobj'[q].refcnt > 0 PROVE pobj'[q].name # Null
    <3>1. pobj'[q].name = pobj[q].name /\ pobj[q].refcnt > 0
      BY <2>1, DroppedKeeps
    <3>2. QED
      BY <3>1 DEF SharingInv, ListOK
  <2>2. QED
    BY <2>1 DEF ListOK, Dropped
<1>7. \A u \in Clients : FlagsOK(u)'
  BY <1>4, <1>5 DEF FlagsOK, SharingInv
<1>8. \A u, v \in Clients : SharesOK(u, v)'
  BY <1>4 DEF SharesOK, SharingInv
<1>9. ASSUME NEW u \in Clients, NEW v \in Clients PROVE ReservedOK(u, v)'
  <2>1. SUFFICES ASSUME Renames(u)' PROVE ReservedOK(u, v)'
    BY DEF ReservedOK
  <2>2. u # c /\ Renames(u) /\ th'[u].to = th[u].to
    BY <1>2, <1>3, <2>1
  <2>3. th[u].to \in PObjs
    BY <1>4, <2>2 DEF LocalInv, LocalRec, Renames, RenameRec, ToLabels
  <2>4. /\ "META" \in pobj[th[u].to].flags
        /\ th[v].po # th[u].to /\ (v # u => th[v].to # th[u].to)
    BY <2>2 DEF ReservedOK, SharingInv
  <2>5. th'[v].po # th[u].to
    BY <1>1, <1>4, <2>3, <2>4
  <2>6. v # u => th'[v].to # th[u].to
    <3>1. CASE v # c
      BY <1>2, <2>4, <3>1
    <3>2. CASE v = c
      BY <1>1, <1>3, <2>2, <2>3, <2>4, <3>2
    <3>3. QED
      BY <3>1, <3>2
  <2>7. QED
    BY <1>5, <2>1, <2>2, <2>4, <2>5, <2>6 DEF ReservedOK
<1>10. ASSUME NEW q \in PObjs, NEW r \in PObjs PROVE NamesOK(q, r)'
  <2>1. SUFFICES ASSUME q # r, pobj'[q].refcnt > 0, pobj'[r].refcnt > 0, pobj'[q].name = pobj'[r].name
                 PROVE  \E u \in Clients : /\ Renames(u)' /\ th'[u].pc = "release_to"
                                           /\ \/ q = th'[u].po /\ r = th'[u].to
                                              \/ r = th'[u].po /\ q = th'[u].to
    BY DEF NamesOK
  <2>2. pobj[q].refcnt > 0 /\ pobj[r].refcnt > 0 /\ pobj[q].name = pobj[r].name
    BY <2>1, DroppedKeeps
  <2>3. PICK u \in Clients : /\ Renames(u) /\ th[u].pc = "release_to"
                             /\ \/ q = th[u].po /\ r = th[u].to
                                \/ r = th[u].po /\ q = th[u].to
    BY <2>1, <2>2 DEF NamesOK, SharingInv
  <2>4. u # c
    <3>1. SUFFICES ASSUME u = c PROVE FALSE
      OBVIOUS
    <3>2. th[c].to = p /\ f.to = Null /\ f.po = th[c].po
      BY <2>3, <3>1
    <3>3. pobj'[p].refcnt > 0
      BY <2>1, <2>3, <3>1, <3>2
    <3>4. PICK w \in Clients : th'[w].po = p \/ th'[w].to = p
      BY <3>3, InUseAfter
    <3>5. th[w].po # p /\ (w # c => th[w].to # p)
      BY <2>3, <3>1, <3>2 DEF ReservedOK, SharingInv
    <3>6. CASE w = c
      BY <1>1, <1>3, <3>2, <3>4, <3>5, <3>6
    <3>7. CASE w # c
      BY <1>2, <3>4, <3>5, <3>7
    <3>8. QED
      BY <3>6, <3>7
  <2>5. QED
    BY <1>2, <2>3, <2>4
<1>11. QED
  BY <1>6, <1>7, <1>8, <1>9, <1>10 DEF SharingInv

\* A step that releases an object and does nothing else.
LEMMA DropStep ==
    ASSUME Inv, NEW c \in Clients, NEW f, th' = Set(c, f), f \in ClientRecs, LocalRec(f),
           NEW p \in PObjs, PobjRelease(p),
           \/ th[c].po = p /\ f.po = Null /\ f.to = th[c].to /\ f.h = Null
           \/ /\ th[c].to = p /\ f.to = Null /\ f.po = th[c].po /\ f.flags = th[c].flags
              /\ f.failed = th[c].failed,
           f.enum = th[c].enum, f.h = th[c].h,
           th[c].pc \in {"release", "release_to"}, f.pc = "idle",
           th[c].pc = "release_to" <=> th[c].to = p,
           UNCHANGED <<diskVars, dirhVars, bad>>
    PROVE  Inv'
<1>1. /\ th \in [Clients -> ClientRecs] /\ LocalRec(th[c]) /\ dirhRefs \in Nat
      /\ bad \in 0 .. MaxBad /\ Current /\ (fsMutex # Null => dirh # Null) /\ Null \notin PObjs
  BY InvTypes, NullAssumption
<1>2. Change(c, f)
  BY SetChanges DEF Inv
<1>3. Current'
  <2>1. \A u \in Clients : th'[u] = IF u = c THEN f ELSE th[u]
    BY <1>1 DEF Set
  <2>2. QED
    BY <1>1, <2>1 DEF Current, dirhVars
<1>4. LocalInv'
  <2>1. f.pc \in MutexLabels <=> th[c].pc \in MutexLabels
    BY DEF MutexLabels
  <2>2. QED
    BY <1>1, <1>2, <1>3, <2>1, LocalStep DEF Inv, dirhVars
<1>5. DirRefs'
  <2>1. RefsOf(f) = RefsOf(th[c])
    BY DEF RefsOf, HasDir, Calls
  <2>2. RefsOf(f) \in Int
    BY DEF RefsOf, Bit
  <2>3. dirhRefs' = dirhRefs + RefsOf(f) - RefsOf(th[c])
    BY <1>1, <2>1, <2>2 DEF dirhVars
  <2>4. QED
    BY <1>2, <2>3, DirRefsStep DEF Inv
<1>6. /\ Dropped(p)
      /\ pobj' \in [PObjs -> [refcnt : Nat, name : Names \cup {Null},
                              flags : SUBSET FlagNames, creating : BOOLEAN]]
      /\ tee_pobjs' \in Seq(PObjs)
  <2>1. pobj[p].refcnt > 0
    BY InUse DEF Inv
  <2>2. QED
    BY <2>1, ReleaseDrops DEF Inv, SharingInv
<1>7. PobjRefs'
  BY <1>2, <1>6, PobjRefsDropped DEF Inv
<1>8. SharingInv'
  <2>1. ~RenameRec(f)
    BY DEF RenameRec
  <2>2. th[c].po = p /\ f.po = Null /\ f.to = th[c].to => ~Renames(c) \/ th[c].to = p
    BY DEF Renames, RenameRec
  <2>3. ~(th[c].po = p /\ th[c].to = p /\ Renames(c))
    BY DEF Inv, SharingInv, ReservedOK
  <2>4. QED
    BY <1>2, <1>6, <1>7, <2>1, <2>2, <2>3, SharingDropped DEF Inv
<1>9. ASSUME NEW u \in Clients, th[u].h # Null, u # c \/ f.h # Null,
             u = c => th[c].to = p /\ f.po = th[c].po
      PROVE  pobj'[ObjOf(u)].name = pobj[ObjOf(u)].name
  <2>1. th[u].po \in PObjs \cup {Null} /\ th[u].to \in PObjs \cup {Null} /\ LocalRec(th[u])
    BY InvTypes DEF ClientRecs
  <2>2. ObjOf(u) \in PObjs
    BY <1>9, <2>1 DEF LocalRec, ObjOf, ObjRec, ToLabels
  <2>3. th'[u].po = ObjOf(u) \/ th'[u].to = ObjOf(u)
    <3>1. CASE u # c
      BY <1>2, <3>1 DEF Change, Agree, ObjOf, ObjRec
    <3>2. CASE u = c
      BY <1>2, <1>9, <3>2 DEF Change, Agree, ObjOf, ObjRec
    <3>3. QED
      BY <3>1, <3>2
  <2>4. pobj'[ObjOf(u)].refcnt > 0
    BY <1>7, <2>2, <2>3, InUseAfter
  <2>5. QED
    BY <1>6, <2>2, <2>4, DroppedKeeps DEF Inv
<1>10. FilesInv'
  <2>1. \/ dirh' = Null
        \/ dirh'.dir = dirf /\ \A i \in Used(dirf) : dirf[i].num \in dirh'.bits
    BY DEF Inv, FilesInv, DirInv, dirhVars
  <2>2. th[c].pc \notin RemoveLabels \cup {"set_name"} \cup Ending /\ th[c].pc # "update"
    BY DEF RemoveLabels, Ending
  <2>3. f.pc \notin RemoveLabels \cup {"set_name", "update"} /\ f.pc # "rename_pobj"
    BY DEF RemoveLabels
  <2>4. f.h # Null => /\ f.flags = th[c].flags /\ f.po = th[c].po /\ f.failed = th[c].failed
                      /\ pobj'[ObjRec(f)].name = pobj[ObjOf(c)].name
    <3>1. ObjOf(c) = th[c].po
      BY DEF ObjOf, ObjRec
    <3>2. ObjRec(f) = f.po
      BY <2>3 DEF ObjRec
    <3>3. QED
      BY <1>9, <3>1, <3>2
  <2>5. QED
    BY <1>2, <1>9, <2>1, <2>2, <2>3, <2>4, FilesKept DEF Inv, diskVars, dirhVars
<1>11. TypeOK'
  BY <1>2, <1>6 DEF Inv, TypeOK, Change, ClientRecs, diskVars, dirhVars
<1>12. QED
  BY <1>4, <1>5, <1>7, <1>8, <1>10, <1>11 DEF Inv

LEMMA ReleaseStep ==
    ASSUME Inv, WellUsed, NEW c \in Clients, Release(c)
    PROVE  Inv'
<1>1. th[c] \in ClientRecs /\ LocalRec(th[c]) /\ th[c].pc = "release"
  BY InvTypes DEF Release, At
<1>2. th[c].enum = Null /\ th[c].h = Null /\ th[c].po \in PObjs /\ th[c].to = Null
  BY <1>1 DEF LocalRec, EnumLabels, ToLabels, ClientRecs
<1>3. PICK f : f = [IdleClient EXCEPT !.enum = th[c].enum]
  OBVIOUS
<1>4. Fields(f, "idle", Null, Null, {}, Null, Null, FALSE, Null, Null)
  BY <1>2, <1>3 DEF Fields, IdleClient, ClientRecs, Labels
<1>5. LocalRec(f)
  BY <1>4 DEF Fields, LocalRec, RenameRec, EnumLabels, ToLabels, RemoveLabels
<1>6. th' = Set(c, f) /\ PobjRelease(th[c].po) /\ UNCHANGED <<diskVars, dirhVars, bad>>
  BY <1>3 DEF Release
<1>7. f.po = Null /\ f.to = Null /\ f.h = Null /\ f.enum = Null /\ f.pc = "idle" /\ f \in ClientRecs
  BY <1>4 DEF Fields
<1>8. th[c].pc # "release_to" /\ th[c].to # th[c].po
  BY <1>1, <1>2, NullAssumption
<1>9. QED
  BY <1>1, <1>2, <1>5, <1>6, <1>7, <1>8, DropStep

LEMMA ReleaseToStep ==
    ASSUME Inv, WellUsed, NEW c \in Clients, ReleaseTo(c)
    PROVE  Inv'
<1>1. th[c] \in ClientRecs /\ LocalRec(th[c]) /\ th[c].pc = "release_to"
  BY InvTypes DEF ReleaseTo, At
<1>2. th[c].to \in PObjs
  BY <1>1 DEF LocalRec, ToLabels, ClientRecs
<1>3. PICK f : f = [th[c] EXCEPT !.pc = "idle", !.to = Null]
  OBVIOUS
<1>4. Fields(f, "idle", th[c].po, Null, th[c].flags, th[c].num, th[c].h, th[c].failed, th[c].enum, th[c].ent)
  BY <1>1, <1>3 DEF Fields, ClientRecs, Labels
<1>5. LocalRec(f)
  BY <1>1, <1>4 DEF Fields, LocalRec, RenameRec, EnumLabels, ToLabels, RemoveLabels
<1>6. th' = Set(c, f) /\ PobjRelease(th[c].to) /\ UNCHANGED <<diskVars, dirhVars, bad>>
  BY <1>3 DEF ReleaseTo
<1>7. /\ f.po = th[c].po /\ f.to = Null /\ f.h = th[c].h /\ f.enum = th[c].enum
      /\ f.pc = "idle" /\ f \in ClientRecs /\ f.flags = th[c].flags /\ f.failed = th[c].failed
  BY <1>4 DEF Fields
<1>8. QED
  BY <1>1, <1>2, <1>5, <1>6, <1>7, DropStep

\* Two clients with one object were opened with flags that allow it, and the
\* object of a handle is never one that a rename has reserved.
LEMMA MetaAlone ==
    ASSUME Inv, NEW c \in Clients, th[c].po # Null, "META" \in th[c].flags,
           NEW u \in Clients, u # c
    PROVE  th[u].po # th[c].po
BY DEF Inv, SharingInv, SharesOK, CheckAccess

LEMMA ReservedAlone ==
    ASSUME Inv, NEW c \in Clients, Renames(c), NEW u \in Clients
    PROVE  th[u].po # th[c].to /\ (u # c => th[u].to # th[c].to)
BY DEF Inv, SharingInv, ReservedOK

\* Where a client has a second object, it renames or everybody else is idle.
LEMMA ToOf ==
    ASSUME Inv, NEW u \in Clients, th[u].to # Null
    PROVE  /\ th[u].to \in PObjs
           /\ \/ Renames(u)
              \/ th[u].enum # Null /\ \A c \in Clients : c # u => th[c].pc = "idle"
<1>1. th[u] \in ClientRecs /\ LocalRec(th[u])
  BY InvTypes
<1>2. th[u].to \in PObjs
  BY <1>1 DEF ClientRecs
<1>3. CASE th[u].enum # Null
  BY <1>2, <1>3 DEF Inv, LocalInv, EnumOK, At
<1>4. CASE th[u].enum = Null
  BY <1>1, <1>2, <1>4 DEF LocalRec, ToLabels, Renames, RenameRec
<1>5. QED
  BY <1>3, <1>4

LEMMA CreateFinalStep ==
    ASSUME Inv, WellUsed, NEW c \in Clients, CreateFinal(c)
    PROVE  Inv'
<1>1. /\ th[c] \in ClientRecs /\ LocalRec(th[c]) /\ th[c].pc = "created"
      /\ th \in [Clients -> ClientRecs] /\ dirhRefs \in Nat /\ bad \in 0 .. MaxBad /\ Current
      /\ (fsMutex # Null => dirh # Null)
  BY InvTypes DEF CreateFinal, At
<1>2. th[c].po \in PObjs /\ th[c].h # Null /\ th[c].enum = Null
  BY <1>1 DEF LocalRec, ClientRecs, EnumLabels
<1>3. PICK l \in {"idle", "close"} : th' = Goto(c, l)
  BY DEF CreateFinal
<1>4. PICK f : f = [th[c] EXCEPT !.pc = l]
  OBVIOUS
<1>5. Fields(f, l, th[c].po, th[c].to, th[c].flags, th[c].num, th[c].h, th[c].failed, th[c].enum, th[c].ent)
  BY <1>1, <1>4, Moved DEF Labels
<1>6. th' = Set(c, f) /\ f \in ClientRecs
  BY <1>3, <1>4, <1>5 DEF Goto, Fields
<1>7. LocalRec(f)
  BY <1>1, <1>2, <1>5 DEF Fields, LocalRec, RenameRec, EnumLabels, ToLabels, RemoveLabels
<1>8. /\ pobj' \in [PObjs -> [refcnt : Nat, name : Names \cup {Null},
                              flags : SUBSET FlagNames, creating : BOOLEAN]]
      /\ \A q \in PObjs : /\ pobj'[q].refcnt = pobj[q].refcnt /\ pobj'[q].name = pobj[q].name
                          /\ pobj'[q].flags = pobj[q].flags
  <2>1. pobj \in [PObjs -> [refcnt : Nat, name : Names \cup {Null},
                            flags : SUBSET FlagNames, creating : BOOLEAN]]
    BY DEF Inv, TypeOK
  <2>2. PICK r \in [refcnt : Nat, name : Names \cup {Null},
                     flags : SUBSET FlagNames, creating : BOOLEAN] : r = pobj[th[c].po]
    BY <1>2, <2>1
  <2>3. PICK k : k = [r EXCEPT !.creating = FALSE]
    OBVIOUS
  <2>4. /\ k \in [refcnt : Nat, name : Names \cup {Null},
                   flags : SUBSET FlagNames, creating : BOOLEAN]
        /\ k.refcnt = r.refcnt /\ k.name = r.name /\ k.flags = r.flags
    BY <2>3
  <2>5. pobj' = [pobj EXCEPT ![th[c].po] = k]
    BY <1>2, <2>1, <2>2, <2>3 DEF CreateFinal
  <2>6. QED
    BY <1>2, <2>1, <2>2, <2>4, <2>5
<1>9. tee_pobjs' = tee_pobjs /\ UNCHANGED <<diskVars, dirhVars, bad>>
  BY DEF CreateFinal
<1>10. Change(c, f)
  BY <1>6, SetChanges DEF Inv
<1>11. Current'
  <2>1. \A u \in Clients : th'[u] = IF u = c THEN f ELSE th[u]
    BY <1>1, <1>6 DEF Set
  <2>2. QED
    BY <1>1, <1>5, <1>9, <2>1 DEF Current, dirhVars, Fields
<1>12. LocalInv'
  <2>1. f.pc \in MutexLabels <=> th[c].pc \in MutexLabels
    BY <1>1, <1>5 DEF MutexLabels, Fields
  <2>2. f.enum = Null
    BY <1>2, <1>5 DEF Fields
  <2>3. QED
    BY <1>1, <1>7, <1>9, <1>10, <1>11, <2>1, <2>2, LocalStep DEF Inv, dirhVars
<1>13. DirRefs'
  <2>1. RefsOf(f) = RefsOf(th[c])
    BY <1>1, <1>5 DEF RefsOf, HasDir, Calls, Fields
  <2>2. RefsOf(f) \in Int
    BY DEF RefsOf, Bit
  <2>3. dirhRefs' = dirhRefs + RefsOf(f) - RefsOf(th[c])
    BY <1>1, <1>9, <2>1, <2>2 DEF dirhVars
  <2>4. QED
    BY <1>10, <2>3, DirRefsStep DEF Inv
<1>14. f.po = th[c].po /\ f.to = th[c].to /\ f.flags = th[c].flags
  BY <1>5 DEF Fields
<1>15. PobjRefs'
  BY <1>8, <1>9, <1>10, <1>14, PobjRefsKept DEF Inv
<1>16. SharingInv'
  <2>1. ~RenameRec(f) /\ ~RenameRec(th[c]) /\ th[c].pc # "release_to"
    BY <1>1, <1>5 DEF RenameRec, Fields
  <2>2. QED
    BY <1>8, <1>9, <1>10, <1>14, <2>1, SharingKept DEF Inv
<1>17. FilesInv'
  <2>1. \/ dirh' = Null
        \/ dirh'.dir = dirf /\ \A i \in Used(dirf) : dirf[i].num \in dirh'.bits
    BY <1>9 DEF Inv, FilesInv, DirInv, dirhVars
  <2>2. th[c].pc \notin RemoveLabels \cup {"set_name"} \cup Ending /\ th[c].pc # "update"
    BY <1>1 DEF RemoveLabels, Ending
  <2>3. f.pc \notin RemoveLabels \cup {"set_name", "update"} /\ f.pc # "rename_pobj"
    BY <1>5 DEF RemoveLabels, Fields
  <2>4. \A u \in Clients : th[u].h # Null => pobj'[ObjOf(u)].name = pobj[ObjOf(u)].name
    <3>1. TAKE u \in Clients
    <3>2. th[u].h # Null => ObjOf(u) \in PObjs
      BY InvTypes DEF ClientRecs, LocalRec, ObjOf, ObjRec, ToLabels
    <3>3. QED
      BY <1>8, <3>2
  <2>5. ObjRec(f) = th[c].po /\ ObjOf(c) = th[c].po
    BY <1>1, <1>14, <2>3 DEF ObjRec, ObjOf
  <2>6. f.h = th[c].h /\ f.failed = th[c].failed
    BY <1>5 DEF Fields
  <2>7. QED
    BY <1>2, <1>9, <1>10, <1>14, <2>1, <2>2, <2>3, <2>4, <2>5, <2>6, FilesKept
       DEF Inv, diskVars, dirhVars
<1>18. TypeOK'
  BY <1>8, <1>9, <1>10 DEF Inv, TypeOK, Change, ClientRecs, diskVars, dirhVars
<1>19. QED
  BY <1>12, <1>13, <1>15, <1>16, <1>17, <1>18 DEF Inv

\* tee_pobj_rename() always has the only reference.
LEMMA RenameRefs ==
    ASSUME Inv, NEW c \in Clients, th[c].pc = "rename_pobj"
    PROVE  /\ pobj[th[c].po].refcnt = 1 /\ th[c].po \in PObjs /\ th[c].to \in PObjs
           /\ Renames(c)
           /\ \A u \in Clients : (u # c => th[u].po # th[c].po) /\ th[u].to # th[c].po
<1>1. th[c] \in ClientRecs /\ LocalRec(th[c])
  BY InvTypes
<1>2. /\ th[c].po \in PObjs /\ th[c].to \in PObjs /\ Renames(c) /\ "META" \in th[c].flags
      /\ th[c].po # Null
  BY <1>1, NullAssumption DEF LocalRec, RenameRec, Renames, EnumLabels, ToLabels, ClientRecs
<1>3. \A u \in Clients : u # c => th[u].po # th[c].po
  BY <1>2, MetaAlone
<1>4. ASSUME NEW u \in Clients PROVE th[u].to # th[c].po
  <2>1. CASE th[u].to = Null
    BY <1>2, <2>1
  <2>2. CASE Renames(u)
    BY <2>2, ReservedAlone
  <2>3. CASE th[u].enum # Null /\ \A v \in Clients : v # u => th[v].pc = "idle"
    <3>1. u = c
      BY <2>3
    <3>2. QED
      BY <1>2, <2>3, <3>1 DEF Renames, RenameRec
  <2>4. QED
    BY <2>1, <2>2, <2>3, ToOf
<1>5. {u \in Clients : th[u].po = th[c].po} = {c} /\ {u \in Clients : th[u].to = th[c].po} = {}
  BY <1>3, <1>4
<1>6. Cardinality({c}) = 1 /\ Cardinality({}) = 0
  <2>1. {c} \in SUBSET Clients /\ {} \in SUBSET Clients
    OBVIOUS
  <2>2. QED
    BY <2>1, CardPositive
<1>7. pobj[th[c].po].refcnt = 1
  <2>1. PICK p \in PObjs : p = th[c].po
    BY <1>2
  <2>2. pobj[p].refcnt = Cardinality({u \in Clients : th[u].po = p})
                         + Cardinality({u \in Clients : th[u].to = p})
    BY DEF Inv, PobjRefs
  <2>3. {u \in Clients : th[u].po = p} = {c} /\ {u \in Clients : th[u].to = p} = {}
    BY <1>5, <2>1
  <2>4. pobj[p].refcnt = Cardinality({c}) + Cardinality({})
    BY <2>2, <2>3
  <2>5. QED
    BY <1>6, <2>1, <2>4
<1>8. QED
  BY <1>2, <1>3, <1>4, <1>7

LEMMA RenamePobjStep ==
    ASSUME Inv, WellUsed, NEW c \in Clients, RenamePobj(c)
    PROVE  Inv'
<1>1. /\ th[c] \in ClientRecs /\ LocalRec(th[c]) /\ th[c].pc = "rename_pobj"
      /\ th \in [Clients -> ClientRecs] /\ dirhRefs \in Nat /\ bad \in 0 .. MaxBad /\ Current
      /\ (fsMutex # Null => dirh # Null)
  BY InvTypes DEF RenamePobj, At
<1>2. /\ pobj[th[c].po].refcnt = 1 /\ th[c].po \in PObjs /\ th[c].to \in PObjs /\ Renames(c)
      /\ \A u \in Clients : (u # c => th[u].po # th[c].po) /\ th[u].to # th[c].po
  BY <1>1, RenameRefs
<1>3. PICK f : f = [th[c] EXCEPT !.pc = "release_to"]
  OBVIOUS
<1>4. Fields(f, "release_to", th[c].po, th[c].to, th[c].flags, th[c].num, th[c].h, th[c].failed, th[c].enum, th[c].ent)
  BY <1>1, <1>3, Moved DEF Labels
<1>5. th' = Set(c, f) /\ f \in ClientRecs
  BY <1>3, <1>4 DEF RenamePobj, Goto, Fields
<1>6. LocalRec(f) /\ RenameRec(f)
  BY <1>1, <1>2, <1>4 DEF Fields, LocalRec, RenameRec, Renames, EnumLabels, ToLabels, RemoveLabels
<1>7. /\ pobj' \in [PObjs -> [refcnt : Nat, name : Names \cup {Null},
                              flags : SUBSET FlagNames, creating : BOOLEAN]]
      /\ \A q \in PObjs : /\ pobj'[q].refcnt = pobj[q].refcnt /\ pobj'[q].flags = pobj[q].flags
                          /\ q # th[c].po => pobj'[q].name = pobj[q].name
      /\ pobj'[th[c].po].name = pobj[th[c].to].name
  <2>1. pobj \in [PObjs -> [refcnt : Nat, name : Names \cup {Null},
                            flags : SUBSET FlagNames, creating : BOOLEAN]]
    BY DEF Inv, TypeOK
  <2>2. PICK r \in [refcnt : Nat, name : Names \cup {Null},
                     flags : SUBSET FlagNames, creating : BOOLEAN] : r = pobj[th[c].po]
    BY <1>2, <2>1
  <2>3. PICK nm \in Names \cup {Null} : nm = pobj[th[c].to].name
    BY <1>2, <2>1
  <2>4. PICK k : k = [r EXCEPT !.name = nm]
    OBVIOUS
  <2>5. /\ k \in [refcnt : Nat, name : Names \cup {Null},
                   flags : SUBSET FlagNames, creating : BOOLEAN]
        /\ k.refcnt = r.refcnt /\ k.name = nm /\ k.flags = r.flags
    BY <2>4
  <2>6. pobj' = [pobj EXCEPT ![th[c].po] = k]
    BY <1>2, <2>1, <2>2, <2>3, <2>4 DEF RenamePobj
  <2>7. QED
    BY <1>2, <2>1, <2>2, <2>3, <2>5, <2>6
<1>8. tee_pobjs' = tee_pobjs /\ UNCHANGED <<diskVars, dirhVars, bad>>
  BY DEF RenamePobj
<1>9. Change(c, f)
  BY <1>5, SetChanges DEF Inv
<1>10. Current'
  <2>1. \A u \in Clients : th'[u] = IF u = c THEN f ELSE th[u]
    BY <1>1, <1>5 DEF Set
  <2>2. QED
    BY <1>1, <1>4, <1>8, <2>1 DEF Current, dirhVars, Fields
<1>11. LocalInv'
  <2>1. f.pc \in MutexLabels <=> th[c].pc \in MutexLabels
    BY <1>1, <1>4 DEF MutexLabels, Fields
  <2>2. f.enum = th[c].enum
    BY <1>4 DEF Fields
  <2>3. QED
    BY <1>1, <1>6, <1>8, <1>9, <1>10, <2>1, <2>2, LocalStep DEF Inv, dirhVars
<1>12. DirRefs'
  <2>1. RefsOf(f) = RefsOf(th[c])
    BY <1>1, <1>4 DEF RefsOf, HasDir, Calls, Fields
  <2>2. RefsOf(f) \in Int
    BY DEF RefsOf, Bit
  <2>3. dirhRefs' = dirhRefs + RefsOf(f) - RefsOf(th[c])
    BY <1>1, <1>8, <2>1, <2>2 DEF dirhVars
  <2>4. QED
    BY <1>9, <2>3, DirRefsStep DEF Inv
<1>13. f.po = th[c].po /\ f.to = th[c].to /\ f.flags = th[c].flags /\ f.pc = "release_to"
  BY <1>4 DEF Fields
<1>14. PobjRefs'
  BY <1>7, <1>8, <1>9, <1>13, PobjRefsKept DEF Inv
<1>15. \A u \in Clients : /\ th'[u].po = th[u].po /\ th'[u].to = th[u].to
                          /\ th'[u].flags = th[u].flags
                          /\ Renames(u)' <=> Renames(u)
                          /\ u # c => th'[u].pc = th[u].pc
  BY <1>2, <1>6, <1>9, <1>13 DEF Change, Agree, Renames, RenameRec
<1>16. SharingInv'
  <2>1. \A u \in Clients : th[u].po \in PObjs \cup {Null} /\ th[u].to \in PObjs \cup {Null}
    BY DEF Inv, TypeOK
  <2>2. pobj[th[c].to].refcnt > 0
    BY <1>2, InUse DEF Inv
  <2>3. ListOK'
    <3>1. pobj[th[c].to].name # Null
      BY <1>2, <2>2 DEF Inv, SharingInv, ListOK
    <3>2. QED
      BY <1>2, <1>7, <1>8, <3>1 DEF Inv, SharingInv, ListOK
  <2>4. \A u \in Clients : FlagsOK(u)'
    BY <1>7, <1>15, <2>1 DEF FlagsOK, Inv, SharingInv
  <2>5. \A u, v \in Clients : SharesOK(u, v)'
    BY <1>15 DEF SharesOK, Inv, SharingInv
  <2>6. ASSUME NEW u \in Clients, NEW v \in Clients PROVE ReservedOK(u, v)'
    <3>1. Renames(u) => th[u].to \in PObjs
      BY <2>1 DEF Inv, LocalInv, LocalRec, Renames, RenameRec, ToLabels
    <3>2. QED
      BY <1>7, <1>15, <3>1 DEF ReservedOK, Inv, SharingInv
  <2>7. \A q, r \in PObjs : NamesOK(q, r)
    BY DEF Inv, SharingInv
  <2>8. ASSUME NEW q \in PObjs, q # th[c].po, pobj[q].refcnt > 0, pobj[q].name = pobj[th[c].to].name
        PROVE  q = th[c].to
    <3>1. SUFFICES ASSUME q # th[c].to PROVE FALSE
      OBVIOUS
    <3>2. PICK u \in Clients : /\ Renames(u) /\ th[u].pc = "release_to"
                               /\ \/ q = th[u].po /\ th[c].to = th[u].to
                                  \/ th[c].to = th[u].po /\ q = th[u].to
      BY <1>2, <2>2, <2>7, <2>8, <3>1 DEF NamesOK
    <3>3. u # c
      BY <1>1, <3>2
    <3>4. QED
      BY <1>2, <3>2, <3>3, ReservedAlone
  <2>9. ASSUME NEW q \in PObjs, NEW r \in PObjs, q # r, pobj'[q].refcnt > 0, pobj'[r].refcnt > 0,
               pobj'[q].name = pobj'[r].name
        PROVE  \E u \in Clients : /\ Renames(u)' /\ th'[u].pc = "release_to"
                                  /\ \/ q = th'[u].po /\ r = th'[u].to
                                     \/ r = th'[u].po /\ q = th'[u].to
    <3>1. pobj[q].refcnt > 0 /\ pobj[r].refcnt > 0
      BY <1>7, <2>9
    <3>2. Renames(c)' /\ th'[c].pc = "release_to" /\ th'[c].po = th[c].po /\ th'[c].to = th[c].to
      BY <1>2, <1>9, <1>13, <1>15 DEF Change, Agree
    <3>3. CASE q = th[c].po
      <4>1. r # th[c].po /\ pobj[r].name = pobj[th[c].to].name
        BY <1>7, <2>9, <3>3
      <4>2. r = th[c].to
        BY <2>8, <3>1, <4>1
      <4>3. QED
        BY <3>2, <3>3, <4>2
    <3>4. CASE r = th[c].po
      <4>1. q # th[c].po /\ pobj[q].name = pobj[th[c].to].name
        BY <1>7, <2>9, <3>4
      <4>2. q = th[c].to
        BY <2>8, <3>1, <4>1
      <4>3. QED
        BY <3>2, <3>4, <4>2
    <3>5. CASE q # th[c].po /\ r # th[c].po
      <4>1. pobj[q].name = pobj[r].name
        BY <1>7, <2>9, <3>5
      <4>2. PICK u \in Clients : /\ Renames(u) /\ th[u].pc = "release_to"
                                 /\ \/ q = th[u].po /\ r = th[u].to
                                    \/ r = th[u].po /\ q = th[u].to
        BY <2>7, <2>9, <3>1, <4>1 DEF NamesOK
      <4>3. u # c
        BY <1>1, <4>2
      <4>4. QED
        BY <1>15, <4>2, <4>3
    <3>6. QED
      BY <3>3, <3>4, <3>5
  <2>10. \A q, r \in PObjs : NamesOK(q, r)'
    BY <2>9 DEF NamesOK
  <2>11. QED
    BY <2>3, <2>4, <2>5, <2>6, <2>10 DEF SharingInv
<1>17. FilesInv'
  <2>1. \/ dirh' = Null
        \/ dirh'.dir = dirf /\ \A i \in Used(dirf) : dirf[i].num \in dirh'.bits
    BY <1>8 DEF Inv, FilesInv, DirInv, dirhVars
  <2>2. th[c].pc \notin RemoveLabels \cup {"set_name"} \cup Ending /\ th[c].pc # "update"
    BY <1>1 DEF RemoveLabels, Ending
  <2>3. f.pc \notin RemoveLabels \cup {"set_name", "update"}
    BY <1>13 DEF RemoveLabels
  <2>4. \A u \in Clients : (u # c /\ th[u].h # Null) => pobj'[ObjOf(u)].name = pobj[ObjOf(u)].name
    <3>1. TAKE u \in Clients
    <3>2. th[u].h # Null => ObjOf(u) \in PObjs
      BY InvTypes DEF ClientRecs, LocalRec, ObjOf, ObjRec, ToLabels
    <3>3. u # c => ObjOf(u) # th[c].po
      BY <1>2 DEF ObjOf, ObjRec
    <3>4. QED
      BY <1>7, <3>2, <3>3
  <2>5. ObjRec(f) = th[c].po /\ ObjOf(c) = th[c].to
    BY <1>1, <1>13 DEF ObjRec, ObjOf
  <2>6. f.h = th[c].h /\ f.failed = th[c].failed
    BY <1>4 DEF Fields
  <2>7. QED
    BY <1>7, <1>8, <1>9, <1>13, <2>1, <2>2, <2>3, <2>4, <2>5, <2>6, FilesKept
       DEF Inv, diskVars, dirhVars
<1>18. TypeOK'
  BY <1>7, <1>8, <1>9 DEF Inv, TypeOK, Change, ClientRecs, diskVars, dirhVars
<1>19. QED
  BY <1>11, <1>12, <1>14, <1>16, <1>17, <1>18 DEF Inv

-----------------------------------------------------------------------------
(* Steps that change the storage or give a client a handle *)

\* The object of a handle is in use.
LEMMA ObjInUse ==
    ASSUME Inv, NEW c \in Clients, th[c].po # Null
    PROVE  /\ ObjOf(c) \in PObjs /\ pobj[ObjOf(c)].refcnt > 0 /\ pobj[ObjOf(c)].name # Null
           /\ pobj[ObjOf(c)].name \in Names
           /\ th[c].pc # "rename_pobj" => ObjOf(c) = th[c].po
           /\ th[c].pc = "rename_pobj" => ObjOf(c) = th[c].to /\ Renames(c)
<1>1. th[c] \in ClientRecs /\ LocalRec(th[c])
  BY InvTypes
<1>2. th[c].pc = "rename_pobj" => th[c].to \in PObjs /\ Renames(c)
  BY <1>1 DEF LocalRec, ToLabels, EnumLabels, ClientRecs, Renames, RenameRec
<1>3. /\ th[c].pc # "rename_pobj" => ObjOf(c) = th[c].po
      /\ th[c].pc = "rename_pobj" => ObjOf(c) = th[c].to
  BY DEF ObjOf, ObjRec
<1>4. ObjOf(c) \in PObjs
  BY <1>1, <1>2, <1>3 DEF ClientRecs
<1>5. pobj[ObjOf(c)].refcnt > 0
  BY <1>3, <1>4, InUse DEF Inv
<1>6. pobj[ObjOf(c)].name # Null /\ pobj[ObjOf(c)].name \in Names \cup {Null}
  BY <1>4, <1>5 DEF Inv, SharingInv, ListOK, TypeOK
<1>7. QED
  BY <1>2, <1>3, <1>4, <1>5, <1>6

\* Two clients that work on one name have one object, also during a rename.
LEMMA OneName ==
    ASSUME Inv, NEW c \in Clients, NEW u \in Clients, c # u, th[c].po # Null, th[u].po # Null,
           pobj[ObjOf(c)].name = pobj[ObjOf(u)].name
    PROVE  th[c].po = th[u].po /\ CheckAccess(th[c].flags, th[u].flags)
<1>1. ASSUME NEW a \in Clients, NEW b \in Clients, NEW w \in Clients, a # b,
             th[a].po # Null, th[b].po # Null,
             Renames(w), th[w].pc = "release_to", ObjOf(a) = th[w].to
      PROVE  FALSE
  <2>1. th[a].po # th[w].to /\ (a # w => th[a].to # th[w].to)
    BY <1>1, ReservedAlone
  <2>2. QED
    BY <1>1, <2>1, ObjInUse
<1>2. ObjOf(c) = ObjOf(u)
  <2>1. SUFFICES ASSUME ObjOf(c) # ObjOf(u) PROVE FALSE
    OBVIOUS
  <2>2. /\ ObjOf(c) \in PObjs /\ pobj[ObjOf(c)].refcnt > 0
        /\ ObjOf(u) \in PObjs /\ pobj[ObjOf(u)].refcnt > 0
    BY ObjInUse
  <2>3. NamesOK(ObjOf(c), ObjOf(u))
    BY <2>2 DEF Inv, SharingInv
  <2>4. PICK w \in Clients : /\ Renames(w) /\ th[w].pc = "release_to"
                             /\ ObjOf(u) = th[w].to \/ ObjOf(c) = th[w].to
    BY <2>1, <2>2, <2>3 DEF NamesOK
  <2>5. QED
    BY <1>1, <2>4
<1>3. th[c].po = th[u].po
  <2>1. CASE th[c].pc = "rename_pobj"
    <3>1. ObjOf(c) = th[c].to /\ Renames(c)
      BY <2>1, ObjInUse
    <3>2. th[u].po # th[c].to /\ th[u].to # th[c].to
      BY <3>1, ReservedAlone
    <3>3. QED
      BY <1>2, <3>1, <3>2, ObjInUse
  <2>2. CASE th[u].pc = "rename_pobj"
    <3>1. ObjOf(u) = th[u].to /\ Renames(u)
      BY <2>2, ObjInUse
    <3>2. th[c].po # th[u].to /\ th[c].to # th[u].to
      BY <3>1, ReservedAlone
    <3>3. QED
      BY <1>2, <3>1, <3>2, ObjInUse
  <2>3. CASE th[c].pc # "rename_pobj" /\ th[u].pc # "rename_pobj"
    BY <1>2, <2>3, ObjInUse
  <2>4. QED
    BY <2>1, <2>2, <2>3
<1>4. QED
  BY <1>3 DEF Inv, SharingInv, SharesOK

\* A client that may write or rename has its name for itself.
LEMMA NameAlone ==
    ASSUME Inv, NEW c \in Clients, NEW u \in Clients, c # u, th[c].po # Null, th[u].po # Null,
           Exclusive(c) \/ Exclusive(u)
    PROVE  pobj[ObjOf(c)].name # pobj[ObjOf(u)].name
<1>1. "SHARE_WRITE" \notin th[c].flags /\ "SHARE_WRITE" \notin th[u].flags
  BY InvTypes DEF LocalRec
<1>2. ~CheckAccess(th[c].flags, th[u].flags)
  BY <1>1 DEF CheckAccess, Shares, Exclusive
<1>3. QED
  BY <1>2, OneName

\* The same for the entries and the files of two handles.
LEMMA EntryAlone ==
    ASSUME Inv, NEW c \in Clients, NEW u \in Clients, c # u, th[c].h # Null, th[u].h # Null,
           Listed(c), Listed(u), Exclusive(c) \/ Exclusive(u)
    PROVE  th[c].h.idx # th[u].h.idx /\ th[c].h.num # th[u].h.num
<1>1. th[c].po # Null /\ th[u].po # Null
  BY InvTypes DEF LocalRec
<1>2. th[c].h.idx # th[u].h.idx
  BY <1>1, NameAlone DEF Listed
<1>3. QED
  BY <1>2 DEF Listed, Inv, FilesInv, DirInv

\* The entry that tee_fs_dirfile_find() finds.
LEMMA Found ==
    ASSUME Inv, NEW name, Find(dirf, name) # {}
    PROVE  /\ Min(Find(dirf, name)) \in Idx /\ Min(Find(dirf, name)) \in Used(dirf)
           /\ dirf[Min(Find(dirf, name))].name = name
           /\ \A j \in Used(dirf) : dirf[j].name = name => j = Min(Find(dirf, name))
<1>1. Find(dirf, name) \subseteq Nat
  BY IdxNat DEF Find, Used
<1>2. Min(Find(dirf, name)) \in Find(dirf, name)
  BY <1>1, MinIn
<1>3. QED
  BY <1>2 DEF Find, Used, Inv, FilesInv, DirInv

\* While nobody holds the mutex, no file is being named or removed.
LEMMA NobodyIn ==
    ASSUME Inv, NEW c \in Clients, fsMutex \in {Null, c}, NEW u \in Clients, u # c
    PROVE  th[u].pc \notin MutexLabels
BY NullAssumption DEF Inv, LocalInv, MutexOK

\* Inv after a step that takes and drops no object, from its last part.
LEMMA StoreStep ==
    ASSUME Inv, NEW c \in Clients, NEW f, NearChange(c, f), LocalRec(f), Current',
           \/ fsMutex' = fsMutex /\ (f.pc \in MutexLabels <=> th[c].pc \in MutexLabels)
           \/ fsMutex = Null /\ fsMutex' = c /\ f.pc \in MutexLabels
           \/ fsMutex = c /\ fsMutex' = Null /\ f.pc \notin MutexLabels,
           fsMutex' # Null => dirh' # Null,
           th[c].pc # "idle" \/ \A u \in Clients : u # c => th[u].enum = Null,
           f.enum = th[c].enum, f.po = th[c].po, f.to = th[c].to, f.flags = th[c].flags,
           RenameRec(f) <=> RenameRec(th[c]), th[c].pc # "release_to",
           dirhRefs' = dirhRefs + RefsOf(f) - RefsOf(th[c]),
           pobj' = pobj, tee_pobjs' = tee_pobjs,
           dirf' \in [Idx -> Entries], files' \in [Numbers -> Files],
           dirh' \in Directories \cup {Null}, hashes' \in Hashes, bad' \in 0 .. MaxBad,
           FilesInv'
    PROVE  Inv'
<1>1. TypeOK /\ LocalInv /\ PobjRefs /\ DirRefs /\ SharingInv
  BY DEF Inv
<1>2. LocalInv'
  BY <1>1, LocalNear
<1>3. DirRefs' /\ dirhRefs' \in Nat
  BY <1>1, DirRefsNear
<1>4. PobjRefs'
  BY <1>1, PobjRefsNear
<1>5. SharingInv'
  BY <1>1, SharingNear
<1>6. fsMutex' \in Clients \cup {Null}
  BY <1>1 DEF TypeOK
<1>7. TypeOK'
  BY <1>1, <1>3, <1>6 DEF TypeOK, NearChange, ClientRecs
<1>8. QED
  BY <1>2, <1>3, <1>4, <1>5, <1>7 DEF Inv

\* The clients after a step of c.
LEMMA After ==
    ASSUME NEW c \in Clients, NEW f, Change(c, f)
    PROVE  /\ \A u \in Clients : u # c =>
                 /\ th'[u].pc = th[u].pc /\ th'[u].h = th[u].h /\ th'[u].po = th[u].po
                 /\ th'[u].to = th[u].to /\ th'[u].num = th[u].num
                 /\ th'[u].flags = th[u].flags /\ th'[u].failed = th[u].failed
                 /\ ObjOf(u)' = ObjOf(u)
           /\ th'[c].pc = f.pc /\ th'[c].h = f.h /\ th'[c].po = f.po
           /\ th'[c].to = f.to /\ th'[c].num = f.num
           /\ th'[c].flags = f.flags /\ th'[c].failed = f.failed
           /\ ObjOf(c)' = ObjRec(f)
<1>1. ObjOf(c)' = ObjRec(f)
  BY DEF Change, Agree, ObjOf, ObjRec
<1>2. \A u \in Clients : u # c => ObjOf(u)' = ObjOf(u)
  BY DEF Change, Agree, ObjOf, ObjRec
<1>3. QED
  BY <1>1, <1>2 DEF Change, Agree

LEMMA OpenFopStep ==
    ASSUME Inv, WellUsed, NEW c \in Clients, OpenFop(c)
    PROVE  Inv'
<1>1. /\ th[c] \in ClientRecs /\ LocalRec(th[c]) /\ th[c].pc = "open" /\ fsMutex = Null
      /\ Dirh \in Directories /\ Dirh # Null /\ Dirh.dir = dirf /\ dirhRefs \in Nat
      /\ bad \in 0 .. MaxBad
  BY InvTypes DEF OpenFop, At
<1>2. PICK found : found = Find(dirf, pobj[th[c].po].name)
  OBVIOUS
<1>3. CASE found = {}
  <2>1. PutDirh(Dirh, dirhRefs, TRUE, Goto(c, "release"))
    BY <1>1, <1>2, <1>3 DEF OpenFop
  <2>2. UNCHANGED <<diskVars, pobjVars, fsMutex>> /\ bad' = bad
    BY DEF OpenFop
  <2>3. QED
    BY <1>1, <2>1, <2>2, FopFails DEF At
<1>4. CASE found # {}
  <2>1. PICK i \in Idx : i = Min(found) /\ i \in Used(dirf) /\ dirf[i].name = pobj[th[c].po].name
    BY <1>2, <1>4, Found
  <2>2. /\ dirf[i] \in Entries /\ files \in [Numbers -> Files] /\ hashes \in Hashes
        /\ dirf \in [Idx -> Entries] /\ Opens(dirf[i])
    BY <2>1 DEF Inv, TypeOK, FilesInv, EntriesOpen
  <2>3. PICK h : h = Handle(dirf[i], i)
    OBVIOUS
  <2>4. /\ h \in Handles /\ h.num = dirf[i].num /\ h.idx = i /\ h.hash = dirf[i].hash
        /\ h.linked /\ h.tree /\ files[h.num] # NoFile /\ files[h.num][h.slot] = h.hash
    BY <2>1, <2>2, <2>3 DEF Handle, Handles, Entries, Opens
  <2>5. h # Null
    BY <2>4, NullAssumption
  <2>6. PICK f : f = [th[c] EXCEPT !.pc = "idle", !.h = h]
    OBVIOUS
  <2>7. Fields(f, "idle", th[c].po, th[c].to, th[c].flags, th[c].num, h, th[c].failed, th[c].enum, th[c].ent)
    BY <1>1, <2>4, <2>6 DEF Fields, ClientRecs, Labels
  <2>8. PutDirh(Dirh, dirhRefs + 1, FALSE, Set(c, f))
    BY <1>1, <1>2, <1>4, <2>1, <2>2, <2>3, <2>6 DEF OpenFop
  <2>9. UNCHANGED <<diskVars, pobjVars, fsMutex, bad>>
    BY DEF OpenFop
  <2>10. /\ Change(c, f) /\ dirhRefs' = dirhRefs + 1 /\ dirh' = Dirh /\ Current'
    <3>1. f \in ClientRecs /\ dirhRefs + 1 \in Int /\ dirhRefs + 1 # 0 /\ FALSE \in BOOLEAN
      BY <1>1, <2>7 DEF Fields
    <3>2. /\ Change(c, f) /\ dirhRefs' = dirhRefs + 1
          /\ dirh' = IF FALSE \/ dirhRefs + 1 = 0 THEN Null ELSE Dirh
      BY <1>1, <2>8, <3>1, PutChanges DEF Inv
    <3>3. QED
      BY <1>1, <3>1, <3>2 DEF Current
  <2>11. LocalRec(f)
    BY <1>1, <2>4, <2>5, <2>7 DEF Fields, LocalRec, RenameRec, EnumLabels, ToLabels, RemoveLabels
  <2>12. dirhRefs' = dirhRefs + RefsOf(f) - RefsOf(th[c])
    BY <1>1, <2>5, <2>7, <2>10 DEF RefsOf, HasDir, Calls, Bit, Fields, LocalRec
  <2>13. FilesInv'
    <3>1. /\ dirf' = dirf /\ files' = files /\ bad' = bad /\ pobj' = pobj /\ fsMutex' = fsMutex
      BY <2>9 DEF diskVars, pobjVars
    <3>2. Used(dirf)' = Used(dirf)
      BY <3>1 DEF Used
    <3>3. DirInv'
      <4>1. \A j \in Used(dirf) : dirf[j].num \in Dirh.bits
        BY DirhIs DEF Inv, FilesInv
      <4>2. QED
        BY <1>1, <2>10, <3>1, <3>2, <4>1 DEF DirInv, Inv, FilesInv
    <3>4. EntriesOpen'
      BY <3>1 DEF EntriesOpen, Used, Opens, Inv, FilesInv
    <3>5. \A u \in Clients : u # c =>
                 /\ th'[u].pc = th[u].pc /\ th'[u].h = th[u].h /\ th'[u].po = th[u].po
                 /\ th'[u].num = th[u].num
                 /\ th'[u].flags = th[u].flags /\ th'[u].failed = th[u].failed
                 /\ ObjOf(u)' = ObjOf(u)
      BY <2>10, After
    <3>6. /\ th'[c].pc = "idle" /\ th'[c].h = h /\ th'[c].po = th[c].po
          /\ ObjOf(c)' = th[c].po
      <4>1. f.pc = "idle" /\ f.h = h /\ f.po = th[c].po /\ ObjRec(f) = th[c].po
        BY <2>7 DEF Fields, ObjRec
      <4>2. QED
        BY <2>10, <4>1, After
    <3>7. \A u \in Clients : th[u].pc \notin MutexLabels
      BY <1>1, NullAssumption DEF Inv, LocalInv, MutexOK
    <3>8. Listed(c)'
      BY <2>1, <2>4, <3>1, <3>2, <3>6 DEF Listed
    <3>9. ASSUME NEW u \in Clients PROVE HandleOK(u)'
      <4>1. CASE u = c
        BY <2>4, <2>5, <3>6, <3>8, <4>1 DEF HandleOK
      <4>2. CASE u # c
        <5>1. HandleOK(u) /\ \A v \in Clients : ~Removing(u, v)
          BY <3>7 DEF Inv, FilesInv, Removing, MutexLabels, RemoveLabels
        <5>2. Listed(u)' <=> Listed(u)
          BY <3>1, <3>2, <3>5, <4>2 DEF Listed
        <5>3. QED
          BY <3>5, <4>2, <5>1, <5>2 DEF HandleOK, Exclusive
      <4>3. QED
        BY <4>1, <4>2
    <3>10. ASSUME NEW u \in Clients PROVE VersionOK(u)'
      <4>1. CASE u = c
        BY <2>4, <3>1, <3>6, <4>1 DEF VersionOK
      <4>2. CASE u # c
        BY <3>1, <3>5, <4>2 DEF VersionOK, Inv, FilesInv
      <4>3. QED
        BY <4>1, <4>2
    <3>11. ASSUME NEW u \in Clients PROVE NewOK(u)'
      <4>1. th'[u].pc \notin MutexLabels
        BY <3>5, <3>6, <3>7 DEF MutexLabels
      <4>2. QED
        BY <4>1 DEF NewOK, MutexLabels, RemoveLabels
    <3>12. ASSUME NEW n \in Numbers PROVE OrphanOK(n)'
      <4>1. OrphanOK(n) /\ \A u \in Clients : th[u].pc # "set_name" /\ th[u].pc \notin RemoveLabels
        BY <3>7 DEF Inv, FilesInv, MutexLabels, RemoveLabels
      <4>2. QED
        BY <3>1, <3>2, <4>1 DEF OrphanOK
    <3>13. QED
      BY <3>3, <3>4, <3>9, <3>10, <3>11, <3>12 DEF FilesInv
  <2>14. NearChange(c, f)
    BY <2>10, ChangeIsNear
  <2>15. /\ f.enum = th[c].enum /\ f.po = th[c].po /\ f.to = th[c].to /\ f.flags = th[c].flags
         /\ RenameRec(f) <=> RenameRec(th[c])
         /\ th[c].pc # "release_to" /\ th[c].pc # "idle"
         /\ f.pc \in MutexLabels <=> th[c].pc \in MutexLabels
    BY <1>1, <2>7 DEF Fields, RenameRec, MutexLabels
  <2>16. /\ fsMutex' = fsMutex /\ pobj' = pobj /\ tee_pobjs' = tee_pobjs
         /\ dirf' \in [Idx -> Entries] /\ files' \in [Numbers -> Files]
         /\ dirh' \in Directories \cup {Null} /\ hashes' \in Hashes /\ bad' \in 0 .. MaxBad
    BY <1>1, <2>2, <2>9, <2>10 DEF diskVars, pobjVars
  <2>17. fsMutex' # Null => dirh' # Null
    BY <1>1, <2>10
  <2>18. QED
    BY <2>10, <2>11, <2>12, <2>13, <2>14, <2>15, <2>16, <2>17, StoreStep
<1>5. QED
  BY <1>3, <1>4

\* find_empty_idx() finds an index for a new name.
LEMMA FreeIdx ==
    ASSUME Inv, NEW name \in Names, Find(dirf, name) = {}
    PROVE  Min(Idx \ Used(dirf)) \in Idx \ Used(dirf)
<1>1. ASSUME Idx \ Used(dirf) = {} PROVE FALSE
  <2>1. PICK g : g = [i \in Idx |-> dirf[i].name]
    OBVIOUS
  <2>2. Idx = Used(dirf)
    BY <1>1 DEF Used
  <2>3. ASSUME NEW i \in Idx PROVE dirf[i].name \in Names \ {name}
    <3>1. dirf[i].name \in Names \cup {Null} /\ dirf[i].name # Null
      BY <2>2 DEF Inv, TypeOK, Entries, FilesInv, DirInv
    <3>2. dirf[i].name # name
      BY <2>2 DEF Find
    <3>3. QED
      BY <3>1, <3>2
  <2>4. g \in [Idx -> Names \ {name}]
    BY <2>1, <2>3
  <2>5. IsFiniteSet(Names) /\ Cardinality(Names) \in Nat /\ 1 \in Int /\ Cardinality(Names) \in Int
    BY ConstantsAssumption, Sizes
  <2>6. IsFiniteSet(Names \ {name}) /\ Cardinality(Names \ {name}) = Cardinality(Names) - 1
    BY <2>5, FS_RemoveElement
  <2>7. Cardinality(Names \ {name}) \in Nat
    BY <2>6, FS_CardinalityType
  <2>8. IsFiniteSet(Idx) /\ Cardinality(Idx) = Cardinality(Names)
    <3>1. /\ IsFiniteSet(1 .. Cardinality(Names))
          /\ Cardinality(1 .. Cardinality(Names))
                = IF 1 > Cardinality(Names) THEN 0 ELSE Cardinality(Names) - 1 + 1
      BY <2>5, FS_Interval
    <3>2. QED
      BY <2>5, <2>6, <2>7, <3>1 DEF Idx
  <2>9. Cardinality(Names \ {name}) < Cardinality(Idx)
    BY <2>5, <2>6, <2>8
  <2>10. PICK x, y \in Idx : x # y /\ g[x] = g[y]
    BY <2>4, <2>6, <2>8, <2>9, FS_PigeonHole
  <2>11. dirf[x].name = dirf[y].name
    BY <2>1, <2>10
  <2>12. QED
    BY <2>2, <2>10, <2>11 DEF Inv, FilesInv, DirInv
<1>2. Idx \ Used(dirf) \subseteq Nat
  BY IdxNat
<1>3. QED
  BY <1>1, <1>2, MinIn

LEMMA CreateFileStep ==
    ASSUME Inv, WellUsed, NEW c \in Clients, CreateFile(c)
    PROVE  Inv'
<1>1. /\ th[c] \in ClientRecs /\ LocalRec(th[c]) /\ th[c].pc = "create" /\ fsMutex = Null
      /\ Dirh \in Directories /\ Dirh # Null /\ Dirh.dir = dirf /\ dirhRefs \in Nat
      /\ bad \in 0 .. MaxBad
  BY InvTypes DEF CreateFile, At
<1>2. /\ dirf \in [Idx -> Entries] /\ files \in [Numbers -> Files] /\ hashes \in 0 .. MaxHash
      /\ MaxHash \in Nat
  BY ConstantsAssumption DEF Inv, TypeOK, Hashes
<1>3. PICK n \in Numbers : n = GetTmp(Dirh) /\ n \notin Dirh.bits
  <2>1. Numbers \ Dirh.bits # {} /\ Numbers \ Dirh.bits \subseteq Nat
    BY IdxNat DEF CreateFile
  <2>2. QED
    BY <2>1, MinIn DEF GetTmp
<1>4. PICK hash \in Hashes : hash = hashes + 1
  BY <1>2 DEF CreateFile, Hashes
<1>5. PICK h : h = [num |-> n, idx |-> 0, hash |-> hash, slot |-> 2, linked |-> TRUE, tree |-> TRUE]
  OBVIOUS
<1>6. /\ h \in Handles /\ h.num = n /\ h.hash = hash /\ h.slot = 2 /\ h.linked /\ h.tree
  BY <1>5 DEF Handles
<1>7. h # Null
  BY <1>6, NullAssumption
<1>8. PICK f : f = [th[c] EXCEPT !.pc = "set_name", !.h = h]
  OBVIOUS
<1>9. Fields(f, "set_name", th[c].po, th[c].to, th[c].flags, th[c].num, h, th[c].failed, th[c].enum, th[c].ent)
  BY <1>1, <1>6, <1>8 DEF Fields, ClientRecs, Labels
<1>10. /\ th' = Set(c, f)
       /\ files' = [files EXCEPT ![n] = <<0, hash>>] /\ hashes' = hash
       /\ dirh' = [Dirh EXCEPT !.bits = @ \cup {n}] /\ dirhRefs' = dirhRefs + 1
       /\ fsMutex' = c /\ dirf' = dirf /\ pobj' = pobj /\ tee_pobjs' = tee_pobjs /\ bad' = bad
  BY <1>3, <1>4, <1>5, <1>8 DEF CreateFile, pobjVars
<1>11. /\ dirh' \in Directories /\ dirh'.dir = dirf /\ dirh'.bits = Dirh.bits \cup {n}
  BY <1>1, <1>10 DEF Directories
<1>12. dirh' # Null
  BY <1>11, NullAssumption
<1>13. /\ files' \in [Numbers -> Files] /\ files'[n] = <<0, hash>> /\ <<0, hash>> # NoFile
       /\ \A m \in Numbers : m # n => files'[m] = files[m]
  <2>1. <<0, hash>> \in Files
    BY <1>2, <1>4 DEF Files, Hashes
  <2>2. QED
    BY <1>2, <1>10, <2>1 DEF NoFile
<1>14. Change(c, f)
  BY <1>9, <1>10, SetChanges DEF Inv, Fields
<1>15. Current'
  BY <1>12 DEF Current
<1>16. LocalRec(f)
  BY <1>1, <1>6, <1>7, <1>9 DEF Fields, LocalRec, RenameRec, EnumLabels, ToLabels, RemoveLabels
<1>17. dirhRefs' = dirhRefs + RefsOf(f) - RefsOf(th[c])
  BY <1>1, <1>7, <1>9, <1>10 DEF RefsOf, HasDir, Calls, Bit, Fields, LocalRec
<1>18. FilesInv'
  <2>1. Used(dirf)' = Used(dirf)
    BY <1>10 DEF Used
  <2>2. \A j \in Used(dirf) : dirf[j].num \in Dirh.bits /\ dirf[j].num \in Numbers
    BY <1>2, DirhIs DEF Inv, FilesInv, Used, Entries
  <2>3. \A j \in Used(dirf) : dirf[j].num # n
    BY <1>3, <2>2
  <2>4. DirInv'
    BY <1>10, <1>11, <2>1, <2>2 DEF DirInv, Inv, FilesInv
  <2>5. EntriesOpen'
    BY <1>10, <1>13, <2>1, <2>2, <2>3 DEF EntriesOpen, Opens, Inv, FilesInv
  <2>6. \A u \in Clients : u # c =>
               /\ th'[u].pc = th[u].pc /\ th'[u].h = th[u].h /\ th'[u].po = th[u].po
               /\ th'[u].num = th[u].num
               /\ th'[u].flags = th[u].flags /\ th'[u].failed = th[u].failed
               /\ ObjOf(u)' = ObjOf(u)
    BY <1>14, After
  <2>7. th'[c].pc = "set_name" /\ th'[c].h = h
    <3>1. f.pc = "set_name" /\ f.h = h
      BY <1>9 DEF Fields
    <3>2. QED
      BY <1>14, <3>1, After
  <2>8. \A u \in Clients : th[u].pc \notin MutexLabels
    BY <1>1, NullAssumption DEF Inv, LocalInv, MutexOK
  <2>9. \A u \in Clients : \A v \in Clients : ~Removing(u, v)
    BY <2>8 DEF Removing, MutexLabels, RemoveLabels
  <2>10. \A u \in Clients : u # c => (Listed(u)' <=> Listed(u))
    BY <1>10, <2>1, <2>6 DEF Listed
  <2>11. ASSUME NEW u \in Clients PROVE HandleOK(u)'
    <3>1. CASE u = c
      BY <2>7, <3>1 DEF HandleOK, Ending
    <3>2. CASE u # c
      BY <2>6, <2>9, <2>10, <3>2 DEF HandleOK, Exclusive, Inv, FilesInv
    <3>3. QED
      BY <3>1, <3>2
  <2>12. ASSUME NEW u \in Clients PROVE VersionOK(u)'
    <3>1. CASE u = c
      BY <2>7, <3>1 DEF VersionOK, Ending
    <3>2. CASE u # c
      <4>1. SUFFICES ASSUME th[u].h # Null, "WRITE" \in th[u].flags, th[u].pc \notin Ending
                     PROVE  VersionOK(u)'
        BY <2>6, <3>2 DEF VersionOK
      <4>2. Listed(u)
        BY <4>1 DEF HandleOK, Exclusive, Inv, FilesInv
      <4>3. files'[th[u].h.num] = files[th[u].h.num]
        BY <1>13, <2>2, <2>3, <4>2 DEF Listed
      <4>4. QED
        BY <1>10, <2>6, <3>2, <4>3 DEF VersionOK, Inv, FilesInv
    <3>3. QED
      BY <3>1, <3>2
  <2>13. ASSUME NEW u \in Clients PROVE NewOK(u)'
    <3>1. CASE u = c
      BY <1>6, <1>10, <1>11, <1>13, <2>1, <2>3, <2>7, <3>1 DEF NewOK, RemoveLabels
    <3>2. CASE u # c
      BY <2>6, <2>8, <3>2 DEF NewOK, MutexLabels, RemoveLabels
    <3>3. QED
      BY <3>1, <3>2
  <2>14. ASSUME NEW m \in Numbers PROVE OrphanOK(m)'
    <3>1. CASE m = n
      BY <1>6, <2>7, <3>1 DEF OrphanOK
    <3>2. CASE m # n
      <4>1. OrphanOK(m) /\ \A u \in Clients : th[u].pc # "set_name" /\ th[u].pc \notin RemoveLabels
        BY <2>8 DEF Inv, FilesInv, MutexLabels, RemoveLabels
      <4>2. QED
        BY <1>10, <1>13, <2>1, <3>2, <4>1 DEF OrphanOK
    <3>3. QED
      BY <3>1, <3>2
  <2>15. QED
    BY <2>4, <2>5, <2>11, <2>12, <2>13, <2>14 DEF FilesInv
<1>19. NearChange(c, f)
  BY <1>14, ChangeIsNear
<1>20. /\ f.enum = th[c].enum /\ f.po = th[c].po /\ f.to = th[c].to /\ f.flags = th[c].flags
       /\ RenameRec(f) <=> RenameRec(th[c])
       /\ th[c].pc # "release_to" /\ th[c].pc # "idle" /\ f.pc \in MutexLabels
  BY <1>1, <1>9 DEF Fields, RenameRec, MutexLabels
<1>21. QED
  BY <1>1, <1>2, <1>4, <1>10, <1>11, <1>12, <1>13, <1>15, <1>16, <1>17, <1>18, <1>19, <1>20,
     StoreStep

LEMMA SetNameFailsStep ==
    ASSUME Inv, WellUsed, NEW c \in Clients, SetNameFails(c)
    PROVE  Inv'
<1>1. /\ th[c] \in ClientRecs /\ LocalRec(th[c]) /\ th[c].pc = "set_name" /\ dirhRefs \in Nat
      /\ bad \in 0 .. MaxBad /\ MaxBad \in Nat /\ dirh \in Directories \cup {Null}
      /\ fsMutex = c /\ c # Null /\ dirh # Null
  BY InvTypes DEF SetNameFails, At, MutexLabels
<1>2. /\ dirf \in [Idx -> Entries] /\ files \in [Numbers -> Files] /\ hashes \in Hashes
  BY DEF Inv, TypeOK
<1>3. PICK f : f = [th[c] EXCEPT !.pc = "release", !.h = Null]
  OBVIOUS
<1>4. Fields(f, "release", th[c].po, th[c].to, th[c].flags, th[c].num, Null, th[c].failed, th[c].enum, th[c].ent)
  BY <1>1, <1>3 DEF Fields, ClientRecs, Labels
<1>5. PICK n \in Numbers : n = th[c].h.num /\ th[c].h # Null
  BY <1>1 DEF LocalRec, ClientRecs, Handles
<1>6. /\ PutDirh(dirh, dirhRefs - 1, TRUE, Set(c, f))
      /\ files' = [files EXCEPT ![n] = NoFile] /\ hashes' = hashes
      /\ fsMutex' = Null /\ dirf' = dirf /\ pobj' = pobj /\ tee_pobjs' = tee_pobjs
  BY <1>3, <1>5 DEF SetNameFails, pobjVars
<1>7. bad' \in 0 .. MaxBad /\ (bad' = 0 => bad = 0)
  BY <1>1 DEF SetNameFails, Fails
<1>8. /\ Change(c, f) /\ dirhRefs' = dirhRefs - 1 /\ dirh' = Null /\ Current'
  <2>1. f \in ClientRecs /\ dirhRefs - 1 \in Int /\ TRUE \in BOOLEAN
    BY <1>1, <1>4 DEF Fields
  <2>2. /\ Change(c, f) /\ dirhRefs' = dirhRefs - 1
        /\ dirh' = (IF TRUE \/ dirhRefs - 1 = 0 THEN Null ELSE dirh)
        /\ (dirh' = Null /\ dirh # Null) => Current'
    BY <1>1, <1>6, <2>1, PutChanges DEF Inv
  <2>3. QED
    BY <1>1, <2>2
<1>9. /\ files' \in [Numbers -> Files] /\ files'[n] = NoFile
      /\ \A m \in Numbers : m # n => files'[m] = files[m]
  BY <1>2, <1>6 DEF Files
<1>10. LocalRec(f)
  BY <1>1, <1>4 DEF Fields, LocalRec, RenameRec, EnumLabels, ToLabels, RemoveLabels
<1>11. dirhRefs' = dirhRefs + RefsOf(f) - RefsOf(th[c])
  BY <1>1, <1>4, <1>5, <1>8 DEF RefsOf, HasDir, Calls, Bit, Fields, LocalRec
<1>12. FilesInv'
  <2>1. Used(dirf)' = Used(dirf)
    BY <1>6 DEF Used
  <2>2. \A j \in Used(dirf) : dirf[j].num \in Numbers /\ dirf[j].num # n
    BY <1>1, <1>2, <1>5 DEF Inv, FilesInv, NewOK, Used, Entries
  <2>3. DirInv'
    BY <1>6, <1>8, <2>1 DEF DirInv, Inv, FilesInv
  <2>4. EntriesOpen'
    BY <1>6, <1>9, <2>1, <2>2 DEF EntriesOpen, Opens, Inv, FilesInv
  <2>5. \A u \in Clients : u # c =>
               /\ th'[u].pc = th[u].pc /\ th'[u].h = th[u].h /\ th'[u].po = th[u].po
               /\ th'[u].num = th[u].num
               /\ th'[u].flags = th[u].flags /\ th'[u].failed = th[u].failed
               /\ ObjOf(u)' = ObjOf(u)
    BY <1>8, After
  <2>6. th'[c].pc = "release" /\ th'[c].h = Null
    <3>1. f.pc = "release" /\ f.h = Null
      BY <1>4 DEF Fields
    <3>2. QED
      BY <1>8, <3>1, After
  <2>7. \A u \in Clients : u # c => th[u].pc \notin MutexLabels
    BY <1>1, NobodyIn
  <2>8. \A u \in Clients : \A v \in Clients : ~Removing(u, v)
    BY <1>1, <2>7 DEF Removing, MutexLabels, RemoveLabels
  <2>9. \A u \in Clients : u # c => (Listed(u)' <=> Listed(u))
    BY <1>6, <2>1, <2>5 DEF Listed
  <2>10. ASSUME NEW u \in Clients PROVE HandleOK(u)'
    <3>1. CASE u = c
      BY <2>6, <3>1 DEF HandleOK
    <3>2. CASE u # c
      BY <2>5, <2>8, <2>9, <3>2 DEF HandleOK, Exclusive, Inv, FilesInv
    <3>3. QED
      BY <3>1, <3>2
  <2>11. ASSUME NEW u \in Clients PROVE VersionOK(u)'
    <3>1. CASE u = c
      BY <2>6, <3>1 DEF VersionOK
    <3>2. CASE u # c
      <4>1. SUFFICES ASSUME th[u].h # Null, "WRITE" \in th[u].flags, th[u].pc \notin Ending
                     PROVE  VersionOK(u)'
        BY <2>5, <3>2 DEF VersionOK
      <4>2. Listed(u)
        BY <4>1 DEF HandleOK, Exclusive, Inv, FilesInv
      <4>3. files'[th[u].h.num] = files[th[u].h.num]
        BY <1>9, <2>2, <4>2 DEF Listed
      <4>4. QED
        BY <1>6, <2>5, <3>2, <4>3 DEF VersionOK, Inv, FilesInv
    <3>3. QED
      BY <3>1, <3>2
  <2>12. ASSUME NEW u \in Clients PROVE NewOK(u)'
    BY <2>5, <2>6, <2>7 DEF NewOK, MutexLabels, RemoveLabels
  <2>13. ASSUME NEW m \in Numbers PROVE OrphanOK(m)'
    <3>1. CASE m = n
      BY <1>9, <3>1 DEF OrphanOK
    <3>2. CASE m # n
      <4>1. OrphanOK(m)
        BY DEF Inv, FilesInv
      <4>2. \A u \in Clients : u # c => th[u].pc # "set_name" /\ th[u].pc \notin RemoveLabels
        BY <2>7 DEF MutexLabels, RemoveLabels
      <4>3. QED
        BY <1>1, <1>5, <1>6, <1>7, <1>9, <2>1, <3>2, <4>1, <4>2 DEF OrphanOK, RemoveLabels
    <3>3. QED
      BY <3>1, <3>2
  <2>14. QED
    BY <2>3, <2>4, <2>10, <2>11, <2>12, <2>13 DEF FilesInv
<1>13. NearChange(c, f)
  BY <1>8, ChangeIsNear
<1>14. /\ f.enum = th[c].enum /\ f.po = th[c].po /\ f.to = th[c].to /\ f.flags = th[c].flags
       /\ RenameRec(f) <=> RenameRec(th[c])
       /\ th[c].pc # "release_to" /\ th[c].pc # "idle" /\ f.pc \notin MutexLabels
  BY <1>1, <1>4 DEF Fields, RenameRec, MutexLabels
<1>15. QED
  BY <1>1, <1>2, <1>6, <1>7, <1>8, <1>9, <1>10, <1>11, <1>12, <1>13, <1>14, StoreStep

LEMMA SetNameStep ==
    ASSUME Inv, WellUsed, NEW c \in Clients, SetName(c)
    PROVE  Inv'
<1>1. /\ th[c] \in ClientRecs /\ LocalRec(th[c]) /\ th[c].pc = "set_name" /\ dirhRefs \in Nat
      /\ bad \in 0 .. MaxBad /\ fsMutex = c /\ c # Null /\ dirh # Null /\ Current
      /\ dirh \in Directories
  BY InvTypes DEF SetName, At, MutexLabels
<1>2. /\ dirf \in [Idx -> Entries] /\ files \in [Numbers -> Files] /\ hashes \in Hashes
  BY DEF Inv, TypeOK
<1>3. dirh.dir = dirf
  BY <1>1 DEF Inv, FilesInv, DirInv
<1>4. PICK g \in Handles : g = th[c].h
  BY <1>1 DEF LocalRec, ClientRecs
<1>5. /\ g.linked /\ g.slot = 2 /\ files[g.num] = <<0, g.hash>> /\ g.num \in dirh.bits
      /\ \A j \in Used(dirf) : dirf[j].num # g.num
  BY <1>1, <1>4 DEF Inv, FilesInv, NewOK
<1>6. th[c].po # Null /\ ObjOf(c) = th[c].po
  BY <1>1 DEF LocalRec, ObjOf, ObjRec
<1>7. PICK N \in Names : N = pobj[th[c].po].name
  BY <1>6, ObjInUse
<1>8. PICK old : old = Find(dirf, N)
  OBVIOUS
<1>9. PICK i \in Idx : /\ i = NameIdx(N)
                       /\ old = {} => i \notin Used(dirf)
                       /\ old # {} => /\ i \in Used(dirf) /\ dirf[i].name = N
                       /\ \A j \in Used(dirf) : dirf[j].name = N => j = i
  <2>1. CASE old = {}
    <3>1. NameIdx(N) = Min(Idx \ Used(dirf))
      BY <1>3, <1>8, <2>1 DEF NameIdx
    <3>2. \A j \in Used(dirf) : dirf[j].name # N
      BY <1>8, <2>1 DEF Find
    <3>3. QED
      BY <1>8, <2>1, <3>1, <3>2, FreeIdx
  <2>2. CASE old # {}
    <3>1. NameIdx(N) = Min(Find(dirf, N))
      BY <1>3, <1>8, <2>2 DEF NameIdx
    <3>2. QED
      BY <1>8, <2>2, <3>1, Found
  <2>3. QED
    BY <2>1, <2>2
<1>10. PICK e \in Entries : e = [name |-> N, num |-> g.num, hash |-> g.hash]
  BY DEF Entries, Handles
<1>11. e.name = N /\ e.num = g.num /\ e.hash = g.hash /\ N # Null /\ e # Empty
  BY <1>10, NullAssumption DEF Empty
<1>12. PICK k \in Handles : k = [g EXCEPT !.idx = i]
  BY DEF Handles
<1>13. /\ k.idx = i /\ k.num = g.num /\ k.hash = g.hash /\ k.slot = 2 /\ k.linked
       /\ k.tree = g.tree /\ k # Null
  BY <1>5, <1>12, NullAssumption DEF Handles
<1>14. PICK l \in {"created", "remove_old"} : l = IF old = {} THEN "created" ELSE "remove_old"
  OBVIOUS
<1>15. PICK m \in Numbers \cup {Null} : m = IF old = {} THEN Null ELSE dirf[i].num
  BY <1>2 DEF Entries
<1>16. PICK f : f = [th[c] EXCEPT !.pc = l, !.num = m, !.h = k]
  OBVIOUS
<1>17. Fields(f, l, th[c].po, th[c].to, th[c].flags, m, k, th[c].failed, th[c].enum, th[c].ent)
  BY <1>1, <1>16 DEF Fields, ClientRecs, Labels
<1>18. /\ th' = Set(c, f)
       /\ dirf' = [dirf EXCEPT ![i] = e] /\ dirh' = [dirh EXCEPT !.dir = dirf']
       /\ fsMutex' = IF old = {} THEN Null ELSE c
       /\ files' = files /\ hashes' = hashes /\ dirhRefs' = dirhRefs
       /\ pobj' = pobj /\ tee_pobjs' = tee_pobjs /\ bad' = bad
  <2>1. th' = Set(c, [th[c] EXCEPT !.pc = l, !.num = m, !.h.idx = i])
    BY <1>3, <1>7, <1>8, <1>9, <1>14, <1>15 DEF SetName
  <2>2. [th[c] EXCEPT !.pc = l, !.num = m, !.h.idx = i] = f
    BY <1>1, <1>4, <1>12, <1>16 DEF ClientRecs
  <2>3. dirf' = [dirf EXCEPT ![i] = e]
    BY <1>3, <1>4, <1>7, <1>9, <1>10 DEF SetName, WithName
  <2>4. fsMutex' = IF old = {} THEN Null ELSE c
    BY <1>3, <1>7, <1>8 DEF SetName
  <2>5. QED
    BY <2>1, <2>2, <2>3, <2>4 DEF SetName, pobjVars
<1>19. /\ dirf' \in [Idx -> Entries] /\ dirf'[i] = e /\ \A j \in Idx : j # i => dirf'[j] = dirf[j]
  BY <1>2, <1>18
<1>20. /\ dirh' \in Directories /\ dirh'.dir = dirf' /\ dirh'.bits = dirh.bits
  BY <1>1, <1>18, <1>19 DEF Directories
<1>21. dirh' # Null
  BY <1>20, NullAssumption
<1>22. Change(c, f)
  BY <1>17, <1>18, SetChanges DEF Inv, Fields
<1>23. Current'
  BY <1>21 DEF Current
<1>24. Null \notin Numbers
  BY NullAssumption
<1>25. LocalRec(f)
  <2>1. m # Null <=> l = "remove_old"
    BY <1>2, <1>14, <1>15, <1>24 DEF Entries
  <2>2. /\ th[c].po # Null /\ th[c].to = Null /\ th[c].enum = Null
        /\ "SHARE_WRITE" \notin th[c].flags /\ (~th[c].failed => k.tree)
    BY <1>1, <1>4, <1>6, <1>13 DEF LocalRec, ToLabels, EnumLabels
  <2>3. QED
    BY <1>13, <1>17, <2>1, <2>2 DEF Fields, LocalRec, RenameRec, EnumLabels, ToLabels, RemoveLabels
<1>26. dirhRefs' = dirhRefs + RefsOf(f) - RefsOf(th[c])
  BY <1>1, <1>13, <1>17, <1>18 DEF RefsOf, HasDir, Calls, Bit, Fields, LocalRec
<1>27. \A u \in Clients : u # c =>
             /\ th'[u].pc = th[u].pc /\ th'[u].h = th[u].h /\ th'[u].po = th[u].po
             /\ th'[u].num = th[u].num
             /\ th'[u].flags = th[u].flags /\ th'[u].failed = th[u].failed
             /\ ObjOf(u)' = ObjOf(u)
  BY <1>22, After
<1>28. /\ th'[c].pc = l /\ th'[c].h = k /\ th'[c].num = m /\ th'[c].po = th[c].po
       /\ ObjOf(c)' = th[c].po
  <2>1. f.pc = l /\ f.h = k /\ f.num = m /\ f.po = th[c].po /\ ObjRec(f) = th[c].po
    BY <1>17 DEF Fields, ObjRec
  <2>2. QED
    BY <1>22, <2>1, After
<1>29. FilesInv'
  <2>1. Used(dirf') = Used(dirf) \cup {i}
    BY <1>11, <1>19 DEF Used
  <2>2. Used(dirf)' = Used(dirf')
    BY DEF Used
  <2>3. Used(dirf) \subseteq Idx /\ \A j \in Idx : dirf[j].num \in Numbers
    BY <1>2 DEF Used, Entries
  <2>4. DirInv'
    <3>1. ASSUME NEW j \in Used(dirf'), NEW q \in Used(dirf'), j # q
          PROVE  dirf'[j].name # dirf'[q].name /\ dirf'[j].num # dirf'[q].num
      <4>1. CASE j # i /\ q # i
        BY <1>19, <2>1, <2>3, <3>1, <4>1 DEF Inv, FilesInv, DirInv
      <4>2. CASE j = i
        <5>1. q \in Used(dirf) /\ dirf'[q] = dirf[q] /\ q # i
          BY <1>19, <2>1, <2>3, <3>1, <4>2
        <5>2. QED
          BY <1>5, <1>9, <1>11, <1>19, <4>2, <5>1
      <4>3. CASE q = i
        <5>1. j \in Used(dirf) /\ dirf'[j] = dirf[j] /\ j # i
          BY <1>19, <2>1, <2>3, <3>1, <4>3
        <5>2. QED
          BY <1>5, <1>9, <1>11, <1>19, <4>3, <5>1
      <4>4. QED
        BY <4>1, <4>2, <4>3
    <3>2. ASSUME NEW j \in Used(dirf') PROVE dirf'[j].name # Null /\ dirf'[j].num \in dirh'.bits
      <4>1. CASE j = i
        BY <1>5, <1>11, <1>19, <1>20, <4>1
      <4>2. CASE j # i
        BY <1>1, <1>19, <1>20, <2>1, <2>3, <4>2 DEF Inv, FilesInv, DirInv
      <4>3. QED
        BY <4>1, <4>2
    <3>3. QED
      BY <1>20, <2>2, <3>1, <3>2 DEF DirInv
  <2>5. EntriesOpen'
    <3>1. SUFFICES ASSUME NEW j \in Used(dirf')
                   PROVE  /\ files[dirf'[j].num] # NoFile
                          /\ dirf'[j].hash \in {files[dirf'[j].num][1], files[dirf'[j].num][2]}
      BY <1>18, <2>2 DEF EntriesOpen, Opens
    <3>2. CASE j = i
      BY <1>5, <1>11, <1>19, <3>2 DEF NoFile
    <3>3. CASE j # i
      <4>1. j \in Used(dirf) /\ dirf'[j] = dirf[j]
        BY <1>19, <2>1, <2>3, <3>3
      <4>2. QED
        BY <4>1 DEF EntriesOpen, Opens, Inv, FilesInv
    <3>4. QED
      BY <3>2, <3>3
  <2>6. \A u \in Clients : u # c => th[u].pc \notin MutexLabels
    BY <1>1, NobodyIn
  <2>7. \A u \in Clients : \A v \in Clients : ~Removing(u, v)
    BY <1>1, <2>6 DEF Removing, MutexLabels, RemoveLabels
  <2>8. ASSUME NEW u \in Clients, u # c, Listed(u), th[u].h.idx # i PROVE Listed(u)'
    BY <1>18, <1>19, <1>27, <2>1, <2>2, <2>3, <2>8 DEF Listed
  <2>9. Listed(c)'
    BY <1>7, <1>11, <1>13, <1>18, <1>19, <1>28, <2>1, <2>2 DEF Listed
  <2>10. ASSUME NEW u \in Clients, u # c, th[u].h # Null, Listed(u), th[u].h.idx = i
         PROVE  Removing(u, c)' /\ ~Exclusive(u)
    <3>1. th[u].po # Null
      BY <2>10, InvTypes DEF LocalRec
    <3>2. i \in Used(dirf)
      BY <2>10 DEF Listed
    <3>3. dirf[i].name = N /\ old # {}
      BY <1>9, <3>2
    <3>4. pobj[ObjOf(c)].name = pobj[ObjOf(u)].name
      BY <1>6, <1>7, <2>10, <3>3 DEF Listed
    <3>5. th[c].po = th[u].po
      BY <1>6, <2>10, <3>1, <3>4, OneName
    <3>6. ~Exclusive(u)
      BY <1>6, <2>10, <3>1, <3>4, NameAlone
    <3>7. th[u].h.num = m /\ l = "remove_old"
      BY <1>14, <1>15, <2>10, <3>3 DEF Listed
    <3>8. QED
      BY <1>27, <1>28, <2>10, <3>5, <3>6, <3>7 DEF Removing, RemoveLabels
  <2>11. ASSUME NEW u \in Clients PROVE HandleOK(u)'
    <3>1. CASE u = c
      BY <1>13, <1>28, <2>9, <3>1 DEF HandleOK
    <3>2. CASE u # c
      <4>1. HandleOK(u) /\ th[u].pc # "remove_old"
        BY <2>6, <3>2 DEF Inv, FilesInv, MutexLabels
      <4>2. (th[u].h # Null /\ Listed(u)) => Listed(u)' \/ (Removing(u, c)' /\ ~Exclusive(u))
        BY <2>8, <2>10, <3>2
      <4>3. QED
        BY <1>27, <2>7, <3>2, <4>1, <4>2 DEF HandleOK, Exclusive
    <3>3. QED
      BY <3>1, <3>2
  <2>12. ASSUME NEW u \in Clients PROVE VersionOK(u)'
    <3>1. CASE u = c
      BY <1>5, <1>11, <1>13, <1>18, <1>19, <1>28, <3>1 DEF VersionOK, NoFile
    <3>2. CASE u # c
      <4>1. SUFFICES ASSUME th[u].h # Null, "WRITE" \in th[u].flags, th[u].pc \notin Ending
                     PROVE  VersionOK(u)'
        BY <1>27, <3>2 DEF VersionOK
      <4>2. Listed(u) /\ Exclusive(u)
        BY <4>1 DEF HandleOK, Exclusive, Inv, FilesInv
      <4>3. dirf'[th[u].h.idx] = dirf[th[u].h.idx]
        BY <1>19, <2>3, <2>10, <3>2, <4>1, <4>2 DEF Listed
      <4>4. QED
        BY <1>18, <1>27, <3>2, <4>3 DEF VersionOK, Inv, FilesInv
    <3>3. QED
      BY <3>1, <3>2
  <2>13. ASSUME NEW u \in Clients PROVE NewOK(u)'
    <3>1. CASE u = c
      <4>1. SUFFICES ASSUME l = "remove_old", NEW j \in Used(dirf') PROVE dirf'[j].num # m
        BY <1>28, <2>2, <3>1 DEF NewOK, RemoveLabels
      <4>2. i \in Used(dirf) /\ m = dirf[i].num
        BY <1>9, <1>14, <1>15, <4>1
      <4>3. CASE j = i
        BY <1>5, <1>11, <1>19, <4>2, <4>3
      <4>4. CASE j # i
        BY <1>19, <2>1, <2>3, <4>1, <4>2, <4>4 DEF Inv, FilesInv, DirInv
      <4>5. QED
        BY <4>3, <4>4
    <3>2. CASE u # c
      BY <1>27, <2>6, <3>2 DEF NewOK, MutexLabels, RemoveLabels
    <3>3. QED
      BY <3>1, <3>2
  <2>14. ASSUME NEW n \in Numbers PROVE OrphanOK(n)'
    <3>1. SUFFICES ASSUME bad = 0, files[n] # NoFile PROVE OrphanOK(n)'
      BY <1>18 DEF OrphanOK
    <3>2. CASE n = g.num
      <4>1. i \in Used(dirf)' /\ dirf'[i].num = n
        BY <1>11, <1>19, <2>1, <2>2, <3>2
      <4>2. QED
        BY <4>1 DEF OrphanOK
    <3>3. CASE n # g.num
      <4>1. \A u \in Clients : u # c => th[u].pc # "set_name" /\ th[u].pc \notin RemoveLabels
        BY <2>6 DEF MutexLabels, RemoveLabels
      <4>2. OrphanOK(n)
        BY DEF Inv, FilesInv
      <4>3. PICK j \in Used(dirf) : dirf[j].num = n
        BY <1>1, <1>4, <3>1, <3>3, <4>1, <4>2 DEF OrphanOK, RemoveLabels
      <4>4. CASE j # i
        <5>1. j \in Used(dirf)' /\ dirf'[j].num = n
          BY <1>19, <2>1, <2>2, <2>3, <4>3, <4>4
        <5>2. QED
          BY <5>1 DEF OrphanOK
      <4>5. CASE j = i
        <5>1. m = n /\ l = "remove_old"
          BY <1>9, <1>14, <1>15, <4>3, <4>5
        <5>2. QED
          BY <1>28, <5>1 DEF OrphanOK, RemoveLabels
      <4>6. QED
        BY <4>4, <4>5
    <3>4. QED
      BY <3>2, <3>3
  <2>15. QED
    BY <2>4, <2>5, <2>11, <2>12, <2>13, <2>14 DEF FilesInv
<1>30. NearChange(c, f)
  BY <1>22, ChangeIsNear
<1>31. /\ f.enum = th[c].enum /\ f.po = th[c].po /\ f.to = th[c].to /\ f.flags = th[c].flags
       /\ RenameRec(f) <=> RenameRec(th[c])
       /\ th[c].pc # "release_to" /\ th[c].pc # "idle" /\ f.pc = l /\ th[c].pc \in MutexLabels
  BY <1>1, <1>17 DEF Fields, RenameRec, MutexLabels
<1>32. \/ fsMutex' = fsMutex /\ (f.pc \in MutexLabels <=> th[c].pc \in MutexLabels)
       \/ fsMutex = c /\ fsMutex' = Null /\ f.pc \notin MutexLabels
  BY <1>1, <1>14, <1>18, <1>31 DEF MutexLabels
<1>33. QED
  BY <1>1, <1>2, <1>18, <1>19, <1>20, <1>21, <1>23, <1>25, <1>26, <1>29, <1>30, <1>31, <1>32,
     StoreStep

\* A file that is removed stays with the handles that have it open.
LEMMA UnlinkIs ==
    ASSUME NEW T \in [Clients -> ClientRecs], NEW n \in Numbers, NEW u \in Clients
    PROVE  LET t == Unlink(T, n)[u]
           IN  /\ t \in ClientRecs /\ Near(t, T[u]) /\ t.enum = T[u].enum
               /\ T[u].h # Null =>
                     /\ t.h.num = T[u].h.num /\ t.h.idx = T[u].h.idx /\ t.h.hash = T[u].h.hash
                     /\ t.h.slot = T[u].h.slot
                     /\ t.h.linked <=> T[u].h.linked /\ T[u].h.num # n
<1>1. T[u] \in ClientRecs
  OBVIOUS
<1>2. PICK t : t = Unlink(T, n)[u]
  OBVIOUS
<1>3. CASE T[u].h # Null /\ T[u].h.num = n
  <2>1. t = [T[u] EXCEPT !.h.linked = FALSE]
    BY <1>2, <1>3 DEF Unlink
  <2>2. PICK g \in Handles : g = T[u].h
    BY <1>1, <1>3 DEF ClientRecs
  <2>3. PICK k \in Handles : k = [g EXCEPT !.linked = FALSE]
    BY DEF Handles
  <2>4. /\ k.num = g.num /\ k.idx = g.idx /\ k.hash = g.hash /\ k.slot = g.slot
        /\ k.tree = g.tree /\ ~k.linked
    BY <2>3 DEF Handles
  <2>5. k # Null /\ g # Null
    BY NullAssumption
  <2>6. t = [T[u] EXCEPT !.h = k]
    BY <1>1, <2>1, <2>2, <2>3 DEF ClientRecs
  <2>7. /\ t \in ClientRecs /\ t.h = k /\ t.pc = T[u].pc /\ t.po = T[u].po /\ t.to = T[u].to
        /\ t.flags = T[u].flags /\ t.num = T[u].num /\ t.failed = T[u].failed
        /\ t.ent = T[u].ent /\ t.enum = T[u].enum
    BY <1>1, <2>6 DEF ClientRecs
  <2>8. Near(t, T[u])
    BY <2>2, <2>4, <2>5, <2>7 DEF Near
  <2>9. QED
    BY <1>2, <1>3, <2>2, <2>4, <2>7, <2>8
<1>4. CASE ~(T[u].h # Null /\ T[u].h.num = n)
  <2>1. t = T[u]
    BY <1>2, <1>4 DEF Unlink
  <2>2. Near(t, T[u])
    BY <2>1 DEF Near
  <2>3. QED
    BY <1>1, <1>2, <1>4, <2>1, <2>2
<1>5. QED
  BY <1>3, <1>4

\* The handles after a removal of file n by client c, which is then as f says.
Unlinked(c, f, n) ==
    /\ \A u \in Clients : (u # c /\ th[u].h # Null) =>
          /\ th'[u].h.num = th[u].h.num /\ th'[u].h.idx = th[u].h.idx
          /\ th'[u].h.hash = th[u].h.hash /\ th'[u].h.slot = th[u].h.slot
          /\ th'[u].h.linked <=> th[u].h.linked /\ th[u].h.num # n
    /\ f.h # Null =>
          /\ th'[c].h.num = f.h.num /\ th'[c].h.idx = f.h.idx
          /\ th'[c].h.hash = f.h.hash /\ th'[c].h.slot = f.h.slot
          /\ th'[c].h.linked <=> f.h.linked /\ f.h.num # n

LEMMA UnlinkChanges ==
    ASSUME TypeOK, NEW c \in Clients, NEW f \in ClientRecs, NEW n \in Numbers,
           \/ th' = Unlink(Set(c, f), n)
           \/ th' = Stale(Unlink(Set(c, f), n))
    PROVE  NearChange(c, f) /\ Unlinked(c, f, n)
<1>1. th \in [Clients -> ClientRecs]
  BY DEF TypeOK, ClientRecs
<1>2. PICK T : T = Set(c, f)
  OBVIOUS
<1>3. T \in [Clients -> ClientRecs] /\ T[c] = f /\ \A u \in Clients : u # c => T[u] = th[u]
  BY <1>1, <1>2 DEF Set
<1>4. PICK W : W = Unlink(T, n)
  OBVIOUS
<1>5. \A u \in Clients :
         /\ W[u] \in ClientRecs /\ Near(W[u], T[u]) /\ W[u].enum = T[u].enum
         /\ T[u].h # Null =>
               /\ W[u].h.num = T[u].h.num /\ W[u].h.idx = T[u].h.idx /\ W[u].h.hash = T[u].h.hash
               /\ W[u].h.slot = T[u].h.slot
               /\ W[u].h.linked <=> T[u].h.linked /\ T[u].h.num # n
  BY <1>3, <1>4, UnlinkIs
<1>6. W \in [Clients -> ClientRecs]
  <2>1. W = [u \in Clients |-> W[u]]
    BY <1>4 DEF Unlink
  <2>2. QED
    BY <1>5, <2>1
<1>7. CASE th' = W
  <2>1. NearChange(c, f)
    BY <1>3, <1>5, <1>6, <1>7 DEF NearChange
  <2>2. Unlinked(c, f, n)
    BY <1>3, <1>5, <1>7 DEF Unlinked
  <2>3. QED
    BY <1>3, <1>5, <1>7, <2>1, <2>2
<1>8. CASE th' = Stale(W)
  <2>1. \A u \in Clients : /\ th'[u] \in ClientRecs /\ Agree(th'[u], W[u])
                           /\ th'[u].enum # Null => th'[u].enum.dir # "current"
    BY <1>6, <1>8, StaleAgrees
  <2>2. th' \in [Clients -> ClientRecs]
    <3>1. th' = [u \in Clients |-> th'[u]]
      BY <1>8 DEF Stale
    <3>2. QED
      BY <2>1, <3>1
  <2>3. \A u \in Clients : Near(th'[u], T[u]) /\ th'[u].h = W[u].h
    BY <1>5, <2>1 DEF Agree, Near
  <2>4. NearChange(c, f)
    BY <1>3, <2>2, <2>3 DEF NearChange
  <2>5. Unlinked(c, f, n)
    BY <1>3, <1>5, <2>3 DEF Unlinked
  <2>6. QED
    BY <2>1, <2>4, <2>5
<1>9. QED
  BY <1>2, <1>4, <1>7, <1>8

LEMMA FilesRemoved ==
    ASSUME Inv, NEW c \in Clients, NEW f, NearChange(c, f), NEW n \in Numbers, n = th[c].num,
           Unlinked(c, f, n), th[c].pc \in RemoveLabels,
           f.pc = IF th[c].pc = "remove_old" THEN "created" ELSE "close",
           f.h = th[c].h, f.po = th[c].po, f.flags = th[c].flags, f.failed = th[c].failed,
           dirf' = dirf, files' = [files EXCEPT ![n] = NoFile], pobj' = pobj, bad' = bad,
           dirh' \in {Null, dirh}
    PROVE  FilesInv'
<1>1. /\ fsMutex = c /\ th[c].h # Null /\ th[c].pc # "rename_pobj"
  BY InvTypes DEF MutexLabels, RemoveLabels, LocalRec
<1>2. /\ dirf \in [Idx -> Entries] /\ files \in [Numbers -> Files]
  BY DEF Inv, TypeOK
<1>3. files'[n] = NoFile /\ \A m \in Numbers : m # n => files'[m] = files[m]
  BY <1>2
<1>4. Used(dirf)' = Used(dirf) /\ \A j \in Used(dirf) : dirf[j].num \in Numbers
  BY <1>2 DEF Used, Entries
<1>5. \A j \in Used(dirf) : dirf[j].num # n
  BY DEF Inv, FilesInv, NewOK
<1>6. \A u \in Clients : u # c => th[u].pc \notin MutexLabels
  BY <1>1, NobodyIn
<1>7. \A u \in Clients : u # c =>
         /\ th'[u].pc = th[u].pc /\ th'[u].po = th[u].po /\ th'[u].flags = th[u].flags
         /\ th'[u].failed = th[u].failed /\ (th'[u].h = Null <=> th[u].h = Null)
         /\ ObjOf(u)' = ObjOf(u)
  BY DEF NearChange, Near, ObjOf, ObjRec
<1>8. /\ th'[c].pc = f.pc /\ th'[c].po = th[c].po /\ th'[c].flags = th[c].flags
      /\ th'[c].failed = th[c].failed /\ th'[c].h # Null /\ ObjOf(c)' = ObjOf(c)
  BY <1>1 DEF NearChange, Near, ObjOf, ObjRec, RemoveLabels
<1>9. \A u \in Clients : th[u].h # Null =>
         /\ th'[u].h.num = th[u].h.num /\ th'[u].h.idx = th[u].h.idx
         /\ th'[u].h.hash = th[u].h.hash /\ th'[u].h.slot = th[u].h.slot
         /\ th'[u].h.linked <=> th[u].h.linked /\ th[u].h.num # n
  BY DEF Unlinked
<1>10. \A u \in Clients : th[u].h # Null => (Listed(u)' <=> Listed(u))
  BY <1>4, <1>7, <1>8, <1>9 DEF Listed
<1>11. \A u, v \in Clients : Removing(u, v) => th[u].h.num = n
  BY <1>6 DEF Removing, MutexLabels, RemoveLabels
<1>12. \A u \in Clients : Listed(u) => th[u].h.num # n /\ th[u].h.num \in Numbers
  BY <1>4, <1>5 DEF Listed
<1>13. f.pc \notin RemoveLabels \cup {"set_name", "update"} /\ th[c].pc # "set_name"
  BY DEF RemoveLabels
<1>14. DirInv'
  BY <1>4 DEF DirInv, Inv, FilesInv
<1>15. EntriesOpen'
  BY <1>3, <1>4, <1>5 DEF EntriesOpen, Opens, Inv, FilesInv
<1>16. ASSUME NEW u \in Clients PROVE HandleOK(u)'
  <2>1. HandleOK(u)
    BY DEF Inv, FilesInv
  <2>2. CASE u # c
    BY <1>6, <1>7, <1>9, <1>10, <1>11, <1>12, <2>1, <2>2 DEF HandleOK, Exclusive, MutexLabels
  <2>3. CASE u = c
    <3>1. (th[c].h.linked /\ th[c].h.num # n) => Listed(c)
      BY <1>1, <1>11, <1>13, <2>1, <2>3 DEF HandleOK
    <3>2. th[c].pc = "remove_old" => th[c].h.linked /\ Listed(c)
      BY <1>1, <2>1, <2>3 DEF HandleOK, Ending
    <3>3. th[c].pc # "remove_old" => f.pc \in Ending
      BY DEF Ending
    <3>4. QED
      BY <1>1, <1>8, <1>9, <1>10, <1>12, <2>3, <3>1, <3>2, <3>3 DEF HandleOK
  <2>4. QED
    BY <2>2, <2>3
<1>17. ASSUME NEW u \in Clients PROVE VersionOK(u)'
  <2>1. SUFFICES ASSUME th[u].h # Null, "WRITE" \in th[u].flags, th'[u].pc \notin Ending,
                        ~th[u].failed
                 PROVE  VersionOK(u)'
    BY <1>1, <1>7, <1>8 DEF VersionOK
  <2>2. th[u].pc \notin Ending /\ (th[u].pc = "update" <=> th'[u].pc = "update")
    <3>1. CASE u # c
      BY <1>7, <2>1, <3>1
    <3>2. CASE u = c
      BY <1>8, <2>1, <3>2 DEF Ending, RemoveLabels
    <3>3. QED
      BY <3>1, <3>2
  <2>3. Listed(u)
    BY <2>1, <2>2 DEF HandleOK, Exclusive, Inv, FilesInv
  <2>4. files'[th[u].h.num] = files[th[u].h.num]
    BY <1>3, <1>12, <2>3
  <2>5. VersionOK(u)
    BY DEF Inv, FilesInv
  <2>6. QED
    BY <1>9, <2>1, <2>2, <2>4, <2>5 DEF VersionOK
<1>18. ASSUME NEW u \in Clients PROVE NewOK(u)'
  BY <1>6, <1>7, <1>8, <1>13 DEF NewOK, MutexLabels, RemoveLabels
<1>19. ASSUME NEW m \in Numbers PROVE OrphanOK(m)'
  <2>1. SUFFICES ASSUME bad = 0, files'[m] # NoFile PROVE \E j \in Used(dirf) : dirf[j].num = m
    BY <1>4 DEF OrphanOK
  <2>2. m # n /\ files[m] # NoFile
    BY <1>3, <2>1
  <2>3. \A u \in Clients : u # c => th[u].pc # "set_name" /\ th[u].pc \notin RemoveLabels
    BY <1>6 DEF MutexLabels, RemoveLabels
  <2>4. QED
    BY <1>13, <2>1, <2>2, <2>3 DEF OrphanOK, Inv, FilesInv
<1>20. QED
  BY <1>14, <1>15, <1>16, <1>17, <1>18, <1>19 DEF FilesInv

LEMMA RemovedStep ==
    ASSUME Inv, NEW c \in Clients, NEW n \in Numbers, n = th[c].num, th[c].pc \in RemoveLabels,
           NEW l, l = IF th[c].pc = "remove_old" THEN "created" ELSE "close",
           NEW f, f = [th[c] EXCEPT !.pc = l, !.num = Null],
           \/ /\ th' = Unlink(Set(c, f), n) /\ dirh' = dirh
           \/ /\ th' = Stale(Unlink(Set(c, f), n)) /\ dirh' = Null,
           dirhRefs' = IF th[c].pc = "remove_old" THEN dirhRefs ELSE dirhRefs - 1,
           files' = [files EXCEPT ![n] = NoFile], fsMutex' = Null,
           UNCHANGED <<dirf, hashes, pobj, tee_pobjs, bad>>
    PROVE  Inv'
<1>1. /\ th[c] \in ClientRecs /\ LocalRec(th[c]) /\ dirhRefs \in Nat
      /\ bad \in 0 .. MaxBad /\ fsMutex = c /\ Current /\ dirh \in Directories \cup {Null}
  BY InvTypes DEF MutexLabels, RemoveLabels
<1>2. Fields(f, l, th[c].po, th[c].to, th[c].flags, Null, th[c].h, th[c].failed, th[c].enum, th[c].ent)
  <2>1. l \in Labels
    BY DEF Labels
  <2>2. PICK t \in ClientRecs : t = th[c]
    BY <1>1
  <2>3. f = [t EXCEPT !.pc = l, !.num = Null]
    BY <2>2
  <2>4. Fields(f, l, t.po, t.to, t.flags, Null, t.h, t.failed, t.enum, t.ent)
    BY <2>1, <2>3 DEF Fields, ClientRecs
  <2>5. QED
    BY <2>2, <2>4
<1>3. NearChange(c, f) /\ Unlinked(c, f, n)
  <2>1. TypeOK /\ f \in ClientRecs
    BY <1>2 DEF Inv, Fields
  <2>2. th' = Unlink(Set(c, f), n) \/ th' = Stale(Unlink(Set(c, f), n))
    OBVIOUS
  <2>3. QED
    BY <2>1, <2>2, UnlinkChanges
<1>4. th[c].enum = Null /\ f.enum = Null /\ th[c].h # Null
  BY <1>1, <1>2 DEF LocalRec, EnumLabels, RemoveLabels, Fields
<1>5. Current'
  <2>1. CASE dirh' = dirh
    <3>1. dirh' # Null
      BY <2>1, InvTypes DEF MutexLabels, RemoveLabels
    <3>2. QED
      BY <3>1 DEF Current
  <2>2. CASE th' = Stale(Unlink(Set(c, f), n))
    <3>1. th \in [Clients -> ClientRecs] /\ f \in ClientRecs
      BY <1>2, InvTypes DEF Fields
    <3>2. PICK W : W = Unlink(Set(c, f), n)
      OBVIOUS
    <3>3. W \in [Clients -> ClientRecs]
      <4>1. Set(c, f) \in [Clients -> ClientRecs]
        BY <3>1 DEF Set
      <4>2. \A u \in Clients : W[u] \in ClientRecs
        BY <3>2, <4>1, UnlinkIs
      <4>3. W = [u \in Clients |-> W[u]]
        BY <3>2 DEF Unlink
      <4>4. QED
        BY <4>2, <4>3
    <3>4. \A u \in Clients : th'[u].enum # Null => th'[u].enum.dir # "current"
      BY <2>2, <3>2, <3>3, StaleAgrees
    <3>5. QED
      BY <3>4 DEF Current
  <2>3. QED
    BY <2>1, <2>2
<1>6. LocalRec(f)
  BY <1>1, <1>2 DEF Fields, LocalRec, RenameRec, EnumLabels, ToLabels, RemoveLabels
<1>7. dirhRefs' = dirhRefs + RefsOf(f) - RefsOf(th[c])
  BY <1>1, <1>2, <1>4 DEF RefsOf, HasDir, Calls, Bit, Fields, RemoveLabels
<1>8. FilesInv'
  <2>1. f.h = th[c].h /\ f.po = th[c].po /\ f.flags = th[c].flags /\ f.failed = th[c].failed /\ f.pc = l
    BY <1>2 DEF Fields
  <2>2. QED
    BY <1>3, <2>1, FilesRemoved
<1>9. /\ dirf' \in [Idx -> Entries] /\ files' \in [Numbers -> Files] /\ hashes' \in Hashes
      /\ bad' \in 0 .. MaxBad /\ dirh' \in Directories \cup {Null}
  <2>1. files \in [Numbers -> Files] /\ dirf \in [Idx -> Entries] /\ hashes \in Hashes
    BY DEF Inv, TypeOK
  <2>2. QED
    BY <1>1, <2>1 DEF Files
<1>10. /\ f.enum = th[c].enum /\ f.po = th[c].po /\ f.to = th[c].to /\ f.flags = th[c].flags
       /\ RenameRec(f) <=> RenameRec(th[c])
       /\ th[c].pc # "release_to" /\ th[c].pc # "idle" /\ f.pc \notin MutexLabels
  BY <1>2 DEF Fields, RenameRec, MutexLabels, RemoveLabels
<1>11. QED
  BY <1>1, <1>3, <1>5, <1>6, <1>7, <1>8, <1>9, <1>10, StoreStep

LEMMA RemoveOldStep ==
    ASSUME Inv, WellUsed, NEW c \in Clients, RemoveOld(c)
    PROVE  Inv'
<1>1. th[c] \in ClientRecs /\ LocalRec(th[c]) /\ th[c].pc = "remove_old"
  BY InvTypes DEF RemoveOld, At
<1>2. PICK n \in Numbers : n = th[c].num
  BY <1>1 DEF ClientRecs, LocalRec, RemoveLabels
<1>3. PICK f : f = [th[c] EXCEPT !.pc = "created", !.num = Null]
  OBVIOUS
<1>4. /\ th' = Unlink(Set(c, f), n) /\ dirh' = dirh /\ dirhRefs' = dirhRefs
      /\ files' = [files EXCEPT ![n] = NoFile] /\ fsMutex' = Null
      /\ UNCHANGED <<dirf, hashes, pobj, tee_pobjs, bad>>
  BY <1>2, <1>3 DEF RemoveOld, pobjVars
<1>5. th[c].pc \in RemoveLabels
  BY <1>1 DEF RemoveLabels
<1>6. QED
  BY <1>1, <1>2, <1>3, <1>4, <1>5, RemovedStep

LEMMA RemoveFileStep ==
    ASSUME Inv, WellUsed, NEW c \in Clients, RemoveFile(c)
    PROVE  Inv'
<1>1. th[c] \in ClientRecs /\ LocalRec(th[c]) /\ th[c].pc = "remove_file"
  BY InvTypes DEF RemoveFile, At
<1>2. PICK n \in Numbers : n = th[c].num
  BY <1>1 DEF ClientRecs, LocalRec, RemoveLabels
<1>3. PICK f : f = [th[c] EXCEPT !.pc = "close", !.num = Null]
  OBVIOUS
<1>4. /\ PutDirh(dirh, dirhRefs - 1, FALSE, Unlink(Set(c, f), n))
      /\ files' = [files EXCEPT ![n] = NoFile] /\ fsMutex' = Null
      /\ UNCHANGED <<dirf, hashes, pobj, tee_pobjs, bad>>
  BY <1>2, <1>3 DEF RemoveFile, pobjVars
<1>5. th[c].pc \in RemoveLabels /\ th[c].pc # "remove_old"
  BY <1>1 DEF RemoveLabels
<1>6. /\ dirhRefs' = dirhRefs - 1
      /\ \/ /\ th' = Unlink(Set(c, f), n) /\ dirh' = dirh
         \/ /\ th' = Stale(Unlink(Set(c, f), n)) /\ dirh' = Null
  BY <1>4 DEF PutDirh
<1>7. QED
  BY <1>2, <1>3, <1>4, <1>5, <1>6, RemovedStep

LEMMA WriteStep ==
    ASSUME Inv, WellUsed, NEW c \in Clients, Write(c)
    PROVE  Inv'
<1>1. /\ th[c] \in ClientRecs /\ LocalRec(th[c]) /\ th[c].pc = "idle" /\ fsMutex = Null
      /\ Dirh \in Directories /\ Dirh # Null /\ Dirh.dir = dirf /\ dirhRefs \in Nat
      /\ bad \in 0 .. MaxBad /\ th[c].h # Null /\ ~th[c].failed /\ "WRITE" \in th[c].flags
      /\ \A u \in Clients : th[u].enum = Null
  BY InvTypes DEF Write, MayWrite, MayStart, At, WellUsed
<1>2. /\ dirf \in [Idx -> Entries] /\ files \in [Numbers -> Files] /\ hashes \in 0 .. MaxHash
      /\ MaxHash \in Nat
  BY ConstantsAssumption DEF Inv, TypeOK, Hashes
<1>3. PICK g \in Handles : g = th[c].h
  BY <1>1 DEF ClientRecs
<1>4. g.linked /\ g.tree /\ Listed(c) /\ Exclusive(c)
  BY <1>1, <1>3 DEF LocalRec, HandleOK, Exclusive, Ending, Inv, FilesInv
<1>5. /\ files[g.num] # NoFile /\ files[g.num][g.slot] = g.hash /\ dirf[g.idx].hash = g.hash
  BY <1>1, <1>3 DEF VersionOK, Ending, Inv, FilesInv
<1>6. PICK hash \in Hashes : hash = hashes + 1
  BY <1>2 DEF Write, Hashes
<1>7. g.num \in Numbers /\ g.slot \in {1, 2} /\ 3 - g.slot \in {1, 2} /\ g.idx \in {0} \cup Idx
  BY DEF Handles
<1>8. PICK F \in Hashes \X Hashes : F = files[g.num]
  BY <1>2, <1>5, <1>7 DEF Files
<1>9. PICK G : G = [F EXCEPT ![3 - g.slot] = hash]
  OBVIOUS
<1>10. G \in Hashes \X Hashes /\ G[3 - g.slot] = hash /\ G[g.slot] = F[g.slot]
  <2>1. F = <<F[1], F[2]>> /\ F[1] \in Hashes /\ F[2] \in Hashes
    BY <1>8
  <2>2. CASE g.slot = 1
    <3>1. G = <<F[1], hash>>
      BY <1>9, <2>1, <2>2
    <3>2. QED
      BY <2>1, <2>2, <3>1
  <2>3. CASE g.slot = 2
    <3>1. G = <<hash, F[2]>>
      BY <1>9, <2>1, <2>3
    <3>2. QED
      BY <2>1, <2>3, <3>1
  <2>4. QED
    BY <1>7, <2>2, <2>3
<1>11. G \in Files /\ G # NoFile /\ g.hash \in {G[1], G[2]}
  BY <1>5, <1>7, <1>8, <1>10 DEF Files, NoFile
<1>12. PICK k \in Handles : k = [g EXCEPT !.hash = hash, !.slot = 3 - g.slot]
  BY <1>6, <1>7 DEF Handles
<1>13. /\ k.idx = g.idx /\ k.num = g.num /\ k.hash = hash /\ k.slot = 3 - g.slot
       /\ k.linked = g.linked /\ k.tree = g.tree /\ k # Null
  BY <1>12, NullAssumption DEF Handles
<1>14. PICK f : f = [th[c] EXCEPT !.pc = "update", !.h = k]
  OBVIOUS
<1>15. Fields(f, "update", th[c].po, th[c].to, th[c].flags, th[c].num, k, th[c].failed, th[c].enum, th[c].ent)
  BY <1>1, <1>14 DEF Fields, ClientRecs, Labels
<1>16. /\ th' = Set(c, f) /\ files' = [files EXCEPT ![g.num] = G] /\ hashes' = hash
       /\ dirh' = Dirh /\ dirhRefs' = dirhRefs + 1 /\ fsMutex' = c
       /\ dirf' = dirf /\ pobj' = pobj /\ tee_pobjs' = tee_pobjs /\ bad' = bad
  <2>1. /\ files' = [files EXCEPT ![g.num][3 - g.slot] = hash] /\ hashes' = hash
        /\ th' = Set(c, [th[c] EXCEPT !.pc = "update", !.h.hash = hash, !.h.slot = 3 - @])
    BY <1>3, <1>4, <1>6 DEF Write
  <2>2. [th[c] EXCEPT !.pc = "update", !.h.hash = hash, !.h.slot = 3 - @] = f
    BY <1>1, <1>3, <1>12, <1>14 DEF ClientRecs, Handles
  <2>3. [files EXCEPT ![g.num][3 - g.slot] = hash] = [files EXCEPT ![g.num] = G]
    BY <1>2, <1>7, <1>8, <1>9
  <2>4. QED
    BY <2>1, <2>2, <2>3 DEF Write, pobjVars
<1>17. /\ files' \in [Numbers -> Files] /\ files'[g.num] = G
       /\ \A m \in Numbers : m # g.num => files'[m] = files[m]
  BY <1>2, <1>7, <1>11, <1>16
<1>18. Change(c, f)
  BY <1>15, <1>16, SetChanges DEF Inv, Fields
<1>19. Current'
  BY <1>1, <1>16 DEF Current
<1>20. LocalRec(f)
  BY <1>1, <1>4, <1>13, <1>15 DEF Fields, LocalRec, RenameRec, EnumLabels, ToLabels, RemoveLabels
<1>21. dirhRefs' = dirhRefs + RefsOf(f) - RefsOf(th[c])
  BY <1>1, <1>13, <1>15, <1>16 DEF RefsOf, HasDir, Calls, Bit, Fields
<1>22. FilesInv'
  <2>1. Used(dirf)' = Used(dirf)
    BY <1>16 DEF Used
  <2>2. \A j \in Used(dirf) : dirf[j].num \in Dirh.bits /\ dirf[j].num \in Numbers
    BY <1>2, DirhIs DEF Inv, FilesInv, Used, Entries
  <2>3. \A j \in Used(dirf) : dirf[j].num = g.num => j = g.idx
    BY <1>3, <1>4 DEF Listed, Inv, FilesInv, DirInv
  <2>4. DirInv'
    BY <1>1, <1>16, <2>1, <2>2 DEF DirInv, Inv, FilesInv
  <2>5. EntriesOpen'
    <3>1. SUFFICES ASSUME NEW j \in Used(dirf)
                   PROVE  /\ files'[dirf[j].num] # NoFile
                          /\ dirf[j].hash \in {files'[dirf[j].num][1], files'[dirf[j].num][2]}
      BY <1>16, <2>1 DEF EntriesOpen, Opens
    <3>2. CASE dirf[j].num = g.num
      BY <1>5, <1>11, <1>17, <2>3, <3>2
    <3>3. CASE dirf[j].num # g.num
      <4>1. files'[dirf[j].num] = files[dirf[j].num]
        BY <1>17, <2>2, <3>3
      <4>2. QED
        BY <4>1 DEF EntriesOpen, Opens, Inv, FilesInv
    <3>4. QED
      BY <3>2, <3>3
  <2>6. \A u \in Clients : u # c =>
               /\ th'[u].pc = th[u].pc /\ th'[u].h = th[u].h /\ th'[u].po = th[u].po
               /\ th'[u].num = th[u].num
               /\ th'[u].flags = th[u].flags /\ th'[u].failed = th[u].failed
               /\ ObjOf(u)' = ObjOf(u)
    BY <1>18, After
  <2>7. th'[c].pc = "update" /\ th'[c].h = k /\ ObjOf(c)' = ObjOf(c)
    <3>1. f.pc = "update" /\ f.h = k /\ ObjRec(f) = ObjRec(th[c])
      BY <1>1, <1>15 DEF Fields, ObjRec
    <3>2. QED
      BY <1>18, <3>1, After DEF ObjOf
  <2>8. \A u \in Clients : th[u].pc \notin MutexLabels
    BY <1>1, NullAssumption DEF Inv, LocalInv, MutexOK
  <2>9. \A u \in Clients : \A v \in Clients : ~Removing(u, v)
    BY <2>8 DEF Removing, MutexLabels, RemoveLabels
  <2>10. \A u \in Clients : u # c => (Listed(u)' <=> Listed(u))
    BY <1>16, <2>1, <2>6 DEF Listed
  <2>11. Listed(c)'
    BY <1>3, <1>4, <1>13, <1>16, <2>1, <2>7 DEF Listed
  <2>12. ASSUME NEW u \in Clients PROVE HandleOK(u)'
    <3>1. CASE u = c
      BY <1>4, <1>13, <2>7, <2>11, <3>1 DEF HandleOK
    <3>2. CASE u # c
      BY <2>6, <2>9, <2>10, <3>2 DEF HandleOK, Exclusive, Inv, FilesInv
    <3>3. QED
      BY <3>1, <3>2
  <2>13. ASSUME NEW u \in Clients PROVE VersionOK(u)'
    <3>1. CASE u = c
      BY <1>10, <1>11, <1>13, <1>17, <2>7, <3>1 DEF VersionOK
    <3>2. CASE u # c
      <4>1. SUFFICES ASSUME th[u].h # Null, "WRITE" \in th[u].flags, th[u].pc \notin Ending
                     PROVE  VersionOK(u)'
        BY <2>6, <3>2 DEF VersionOK
      <4>2. Listed(u) /\ th[u].h.num \in Numbers
        BY <2>2, <4>1 DEF HandleOK, Exclusive, Listed, Inv, FilesInv
      <4>3. th[u].h.num # g.num
        BY <1>1, <1>3, <1>4, <3>2, <4>1, <4>2, EntryAlone
      <4>4. files'[th[u].h.num] = files[th[u].h.num]
        BY <1>17, <4>2, <4>3
      <4>5. QED
        BY <1>16, <2>6, <3>2, <4>4 DEF VersionOK, Inv, FilesInv
    <3>3. QED
      BY <3>1, <3>2
  <2>14. ASSUME NEW u \in Clients PROVE NewOK(u)'
    <3>1. th'[u].pc # "set_name" /\ th'[u].pc \notin RemoveLabels
      BY <2>6, <2>7, <2>8 DEF MutexLabels, RemoveLabels
    <3>2. QED
      BY <3>1 DEF NewOK
  <2>15. ASSUME NEW m \in Numbers PROVE OrphanOK(m)'
    <3>1. OrphanOK(m) /\ \A u \in Clients : th[u].pc # "set_name" /\ th[u].pc \notin RemoveLabels
      BY <2>8 DEF Inv, FilesInv, MutexLabels, RemoveLabels
    <3>2. files'[m] # NoFile => files[m] # NoFile
      BY <1>5, <1>17
    <3>3. QED
      BY <1>16, <2>1, <3>1, <3>2 DEF OrphanOK
  <2>16. QED
    BY <2>4, <2>5, <2>12, <2>13, <2>14, <2>15 DEF FilesInv
<1>23. NearChange(c, f)
  BY <1>18, ChangeIsNear
<1>24. /\ f.enum = th[c].enum /\ f.po = th[c].po /\ f.to = th[c].to /\ f.flags = th[c].flags
       /\ RenameRec(f) <=> RenameRec(th[c])
       /\ th[c].pc # "release_to" /\ f.pc \in MutexLabels
  BY <1>1, <1>15 DEF Fields, RenameRec, MutexLabels
<1>25. QED
  BY <1>1, <1>2, <1>6, <1>16, <1>17, <1>19, <1>20, <1>21, <1>22, <1>23, <1>24, StoreStep

LEMMA UpdateHashStep ==
    ASSUME Inv, WellUsed, NEW c \in Clients, UpdateHash(c)
    PROVE  Inv'
<1>1. /\ th[c] \in ClientRecs /\ LocalRec(th[c]) /\ th[c].pc = "update" /\ dirhRefs \in Nat
      /\ bad \in 0 .. MaxBad /\ fsMutex = c /\ c # Null /\ dirh # Null /\ Current
      /\ dirh \in Directories
  BY InvTypes DEF UpdateHash, At, MutexLabels
<1>2. /\ dirf \in [Idx -> Entries] /\ files \in [Numbers -> Files] /\ hashes \in Hashes
  BY DEF Inv, TypeOK
<1>3. dirh.dir = dirf /\ \A j \in Used(dirf) : dirf[j].num \in dirh.bits /\ dirf[j].name # Null
  BY <1>1 DEF Inv, FilesInv, DirInv
<1>4. th[c].h # Null /\ ~th[c].failed /\ "WRITE" \in th[c].flags /\ th[c].enum = Null
  BY <1>1 DEF LocalRec, EnumLabels
<1>5. PICK g \in Handles : g = th[c].h
  BY <1>1, <1>4 DEF ClientRecs
<1>6. g.linked /\ Listed(c) /\ Exclusive(c)
  BY <1>1, <1>4, <1>5 DEF HandleOK, Exclusive, Ending, Inv, FilesInv
<1>7. files[g.num] # NoFile /\ files[g.num][g.slot] = g.hash
  BY <1>1, <1>4, <1>5 DEF VersionOK, Ending, Inv, FilesInv
<1>8. PICK i \in Idx : i = g.idx /\ i \in Used(dirf) /\ dirf[i].num = g.num
  BY <1>5, <1>6 DEF Listed, Used
<1>9. PICK e \in Entries : e = [dirf[i] EXCEPT !.hash = g.hash]
  BY <1>2 DEF Entries, Handles
<1>10. e.name = dirf[i].name /\ e.num = g.num /\ e.hash = g.hash /\ e # Empty
  BY <1>2, <1>3, <1>8, <1>9 DEF Entries, Empty
<1>11. PICK f : f = [th[c] EXCEPT !.pc = "idle"]
  OBVIOUS
<1>12. Fields(f, "idle", th[c].po, th[c].to, th[c].flags, th[c].num, g, th[c].failed, th[c].enum, th[c].ent)
  BY <1>1, <1>5, <1>11 DEF Fields, ClientRecs, Labels
<1>13. PICK D : D = [dirf EXCEPT ![i] = e]
  OBVIOUS
<1>14. D \in [Idx -> Entries] /\ D[i] = e /\ \A j \in Idx : j # i => D[j] = dirf[j]
  BY <1>2, <1>13
<1>15. PICK d : d = [dirh EXCEPT !.dir = D]
  OBVIOUS
<1>16. d \in Directories /\ d.dir = D /\ d.bits = dirh.bits
  BY <1>1, <1>14, <1>15 DEF Directories
<1>17. /\ dirf' = D /\ PutDirh(d, dirhRefs - 1, FALSE, Set(c, f)) /\ fsMutex' = Null
       /\ files' = files /\ hashes' = hashes /\ pobj' = pobj /\ tee_pobjs' = tee_pobjs /\ bad' = bad
  <2>1. dirh.dir[g.idx].num = g.num
    BY <1>3, <1>8
  <2>2. /\ dirf' = [dirf EXCEPT ![i].hash = g.hash] /\ fsMutex' = Null
        /\ PutDirh([dirh EXCEPT !.dir = dirf'], dirhRefs - 1, FALSE, Goto(c, "idle"))
    BY <1>3, <1>5, <1>8, <2>1 DEF UpdateHash
  <2>3. [dirf EXCEPT ![i].hash = g.hash] = D
    BY <1>2, <1>9, <1>13
  <2>4. Goto(c, "idle") = Set(c, f)
    BY <1>11 DEF Goto
  <2>5. QED
    BY <1>15, <2>2, <2>3, <2>4 DEF UpdateHash, pobjVars
<1>18. d # Null
  BY <1>16, NullAssumption
<1>19. /\ Change(c, f) /\ dirhRefs' = dirhRefs - 1 /\ dirh' \in {Null, d} /\ Current'
  <2>1. f \in ClientRecs /\ dirhRefs - 1 \in Int /\ FALSE \in BOOLEAN /\ d \in Directories \cup {Null}
    BY <1>1, <1>12, <1>16 DEF Fields
  <2>2. /\ Change(c, f) /\ dirhRefs' = dirhRefs - 1
        /\ dirh' = IF FALSE \/ dirhRefs - 1 = 0 THEN Null ELSE d
        /\ (dirh' = Null /\ d # Null) => Current'
    BY <1>17, <2>1, PutChanges DEF Inv
  <2>3. dirh' \in {Null, d}
    BY <2>2
  <2>4. Current'
    <3>1. CASE dirh' = Null
      BY <1>18, <2>2, <3>1
    <3>2. CASE dirh' # Null
      BY <3>2 DEF Current
    <3>3. QED
      BY <3>1, <3>2
  <2>5. QED
    BY <2>2, <2>3, <2>4
<1>20. g # Null
  BY NullAssumption
<1>21. LocalRec(f)
  BY <1>1, <1>4, <1>5, <1>12, <1>20 DEF Fields, LocalRec, RenameRec, EnumLabels, ToLabels,
     RemoveLabels
<1>22. dirhRefs' = dirhRefs + RefsOf(f) - RefsOf(th[c])
  BY <1>1, <1>4, <1>12, <1>19, <1>20 DEF RefsOf, HasDir, Calls, Bit, Fields
<1>23. FilesInv'
  <2>1. Used(dirf)' = Used(dirf)
    <3>1. \A j \in Idx : D[j] # Empty <=> dirf[j] # Empty
      BY <1>8, <1>10, <1>14 DEF Used
    <3>2. QED
      BY <1>17, <3>1 DEF Used
  <2>2. \A j \in Used(dirf) : /\ D[j].name = dirf[j].name /\ D[j].num = dirf[j].num
                              /\ j # i => D[j] = dirf[j]
    BY <1>8, <1>10, <1>14 DEF Used
  <2>3. DirInv'
    BY <1>3, <1>16, <1>17, <1>19, <2>1, <2>2 DEF DirInv, Inv, FilesInv
  <2>4. EntriesOpen'
    <3>1. SUFFICES ASSUME NEW j \in Used(dirf)
                   PROVE  /\ files[D[j].num] # NoFile
                          /\ D[j].hash \in {files[D[j].num][1], files[D[j].num][2]}
      BY <1>17, <2>1 DEF EntriesOpen, Opens
    <3>2. CASE j = i
      BY <1>7, <1>10, <1>14, <3>2 DEF Handles
    <3>3. CASE j # i
      BY <2>2, <3>3 DEF EntriesOpen, Opens, Inv, FilesInv
    <3>4. QED
      BY <3>2, <3>3
  <2>5. \A u \in Clients : u # c =>
               /\ th'[u].pc = th[u].pc /\ th'[u].h = th[u].h /\ th'[u].po = th[u].po
               /\ th'[u].num = th[u].num
               /\ th'[u].flags = th[u].flags /\ th'[u].failed = th[u].failed
               /\ ObjOf(u)' = ObjOf(u)
    BY <1>19, After
  <2>6. th'[c].pc = "idle" /\ th'[c].h = g /\ ObjOf(c)' = ObjOf(c)
    <3>1. f.pc = "idle" /\ f.h = g /\ ObjRec(f) = ObjRec(th[c])
      BY <1>1, <1>12 DEF Fields, ObjRec
    <3>2. QED
      BY <1>19, <3>1, After DEF ObjOf
  <2>7. \A u \in Clients : th[u].pc # "set_name" /\ th[u].pc \notin RemoveLabels
    BY <1>1, NobodyIn DEF MutexLabels, RemoveLabels
  <2>8. \A u \in Clients : \A v \in Clients : ~Removing(u, v)
    BY <2>7 DEF Removing
  <2>9. \A u \in Clients : Listed(u) => Listed(u)'
    BY <1>5, <1>17, <2>1, <2>2, <2>5, <2>6 DEF Listed
  <2>10. ASSUME NEW u \in Clients PROVE HandleOK(u)'
    <3>1. CASE u = c
      BY <1>6, <2>6, <2>9, <3>1 DEF HandleOK
    <3>2. CASE u # c
      BY <2>5, <2>8, <2>9, <3>2 DEF HandleOK, Exclusive, Inv, FilesInv
    <3>3. QED
      BY <3>1, <3>2
  <2>11. ASSUME NEW u \in Clients PROVE VersionOK(u)'
    <3>1. CASE u = c
      BY <1>7, <1>8, <1>10, <1>14, <1>17, <2>6, <3>1 DEF VersionOK
    <3>2. CASE u # c
      <4>1. SUFFICES ASSUME th[u].h # Null, "WRITE" \in th[u].flags, th[u].pc \notin Ending
                     PROVE  VersionOK(u)'
        BY <2>5, <3>2 DEF VersionOK
      <4>2. Listed(u)
        BY <4>1 DEF HandleOK, Exclusive, Inv, FilesInv
      <4>3. th[u].h.idx # i /\ th[u].h.idx \in Used(dirf)
        BY <1>4, <1>5, <1>6, <1>8, <3>2, <4>1, <4>2, EntryAlone DEF Listed
      <4>4. D[th[u].h.idx] = dirf[th[u].h.idx]
        BY <2>2, <4>3
      <4>5. QED
        BY <1>17, <2>5, <3>2, <4>4 DEF VersionOK, Inv, FilesInv
    <3>3. QED
      BY <3>1, <3>2
  <2>12. ASSUME NEW u \in Clients PROVE NewOK(u)'
    <3>1. th'[u].pc # "set_name" /\ th'[u].pc \notin RemoveLabels
      BY <2>5, <2>6, <2>7 DEF RemoveLabels
    <3>2. QED
      BY <3>1 DEF NewOK
  <2>13. ASSUME NEW m \in Numbers PROVE OrphanOK(m)'
    <3>1. OrphanOK(m)
      BY DEF Inv, FilesInv
    <3>2. QED
      BY <1>17, <2>1, <2>2, <2>7, <3>1 DEF OrphanOK
  <2>14. QED
    BY <2>3, <2>4, <2>10, <2>11, <2>12, <2>13 DEF FilesInv
<1>24. NearChange(c, f)
  BY <1>19, ChangeIsNear
<1>25. /\ f.enum = th[c].enum /\ f.po = th[c].po /\ f.to = th[c].to /\ f.flags = th[c].flags
       /\ RenameRec(f) <=> RenameRec(th[c])
       /\ th[c].pc # "release_to" /\ th[c].pc # "idle" /\ f.pc \notin MutexLabels
  BY <1>1, <1>12 DEF Fields, RenameRec, MutexLabels
<1>26. dirh' \in Directories \cup {Null}
  BY <1>16, <1>19
<1>27. QED
  BY <1>1, <1>2, <1>14, <1>17, <1>19, <1>21, <1>22, <1>23, <1>24, <1>25, <1>26, StoreStep

LEMMA RenameFopStep ==
    ASSUME Inv, WellUsed, NEW c \in Clients, RenameFop(c)
    PROVE  Inv'
<1>1. /\ th[c] \in ClientRecs /\ LocalRec(th[c]) /\ th[c].pc = "rename" /\ fsMutex = Null
      /\ Dirh \in Directories /\ Dirh # Null /\ Dirh.dir = dirf /\ dirhRefs \in Nat
      /\ bad \in 0 .. MaxBad
  BY InvTypes DEF RenameFop, At
<1>2. /\ dirf \in [Idx -> Entries] /\ files \in [Numbers -> Files] /\ hashes \in Hashes
  BY DEF Inv, TypeOK
<1>3. th[c].enum = Null /\ th[c].h # Null /\ "META" \in th[c].flags /\ th[c].to \in PObjs
  BY <1>1 DEF LocalRec, RenameRec, EnumLabels, ToLabels, ClientRecs
<1>4. PICK old : old = Find(dirf, pobj[th[c].po].name)
  OBVIOUS
<1>5. PICK N : N = pobj[th[c].to].name
  OBVIOUS
<1>6. \/ /\ Find(dirf, N) = {} /\ old # {}
         /\ dirf' = [dirf EXCEPT ![Min(old)].name = N]
         /\ PutDirh([Dirh EXCEPT !.dir = dirf'], dirhRefs, FALSE, Goto(c, "rename_pobj"))
         /\ bad' = bad
      \/ /\ bad' = bad \/ (bad < MaxBad /\ bad' = bad + 1)
         /\ PutDirh(Dirh, dirhRefs, TRUE, Goto(c, "release_to"))
         /\ dirf' = dirf
  BY <1>1, <1>4, <1>5 DEF RenameFop, Fails
<1>7. files' = files /\ hashes' = hashes /\ pobj' = pobj /\ tee_pobjs' = tee_pobjs /\ fsMutex' = fsMutex
  BY DEF RenameFop, pobjVars
<1>8. CASE /\ bad' = bad \/ (bad < MaxBad /\ bad' = bad + 1)
           /\ PutDirh(Dirh, dirhRefs, TRUE, Goto(c, "release_to"))
           /\ dirf' = dirf
  <2>1. UNCHANGED <<diskVars, pobjVars, fsMutex>>
    BY <1>7, <1>8 DEF diskVars, pobjVars
  <2>2. QED
    BY <1>1, <1>8, <2>1, FopFails DEF At
<1>9. CASE /\ Find(dirf, N) = {} /\ old # {}
           /\ dirf' = [dirf EXCEPT ![Min(old)].name = N]
           /\ PutDirh([Dirh EXCEPT !.dir = dirf'], dirhRefs, FALSE, Goto(c, "rename_pobj"))
           /\ bad' = bad
  <2>1. PICK g \in Handles : g = th[c].h
    BY <1>1, <1>3 DEF ClientRecs
  <2>2. g.linked /\ Listed(c) /\ Exclusive(c) /\ ObjOf(c) = th[c].po
    BY <1>1, <1>3, <2>1 DEF HandleOK, Exclusive, Ending, ObjOf, ObjRec, Inv, FilesInv
  <2>3. PICK i \in Idx : i = Min(old) /\ i \in Used(dirf) /\ i = g.idx /\ dirf[i].num = g.num
    BY <1>4, <1>9, <2>1, <2>2, Found DEF Listed
  <2>4. N \in Names /\ N # Null
    <3>1. pobj[th[c].to].refcnt > 0
      BY <1>3, InUse DEF Inv
    <3>2. QED
      BY <1>3, <1>5, <3>1 DEF Inv, SharingInv, ListOK, TypeOK
  <2>5. \A j \in Used(dirf) : dirf[j].name # N
    BY <1>9 DEF Find
  <2>6. PICK e \in Entries : e = [dirf[i] EXCEPT !.name = N]
    BY <1>2, <2>4 DEF Entries
  <2>7. e.name = N /\ e.num = g.num /\ e.hash = dirf[i].hash /\ e # Empty
    BY <1>2, <2>3, <2>4, <2>6 DEF Entries, Empty
  <2>8. PICK D : D = [dirf EXCEPT ![i] = e]
    OBVIOUS
  <2>9. D \in [Idx -> Entries] /\ D[i] = e /\ \A j \in Idx : j # i => D[j] = dirf[j]
    BY <1>2, <2>8
  <2>10. PICK d : d = [Dirh EXCEPT !.dir = D]
    OBVIOUS
  <2>11. d \in Directories /\ d.dir = D /\ d.bits = Dirh.bits
    BY <1>1, <2>9, <2>10 DEF Directories
  <2>12. PICK f : f = [th[c] EXCEPT !.pc = "rename_pobj"]
    OBVIOUS
  <2>13. Fields(f, "rename_pobj", th[c].po, th[c].to, th[c].flags, th[c].num, g, th[c].failed, th[c].enum, th[c].ent)
    BY <1>1, <2>1, <2>12 DEF Fields, ClientRecs, Labels
  <2>14. dirf' = D /\ PutDirh(d, dirhRefs, FALSE, Set(c, f))
    <3>1. [dirf EXCEPT ![i].name = N] = D
      BY <1>2, <2>6, <2>8
    <3>2. Goto(c, "rename_pobj") = Set(c, f)
      BY <2>12 DEF Goto
    <3>3. QED
      BY <1>9, <2>3, <2>10, <3>1, <3>2
  <2>15. d # Null
    BY <2>11, NullAssumption
  <2>16. /\ Change(c, f) /\ dirhRefs' = dirhRefs /\ dirh' \in {Null, d} /\ Current'
    <3>1. f \in ClientRecs /\ dirhRefs \in Int /\ FALSE \in BOOLEAN /\ d \in Directories \cup {Null}
      BY <1>1, <2>11, <2>13 DEF Fields
    <3>2. /\ Change(c, f) /\ dirhRefs' = dirhRefs
          /\ dirh' = IF FALSE \/ dirhRefs = 0 THEN Null ELSE d
          /\ (dirh' = Null /\ d # Null) => Current'
      BY <2>14, <3>1, PutChanges DEF Inv
    <3>3. dirh' \in {Null, d}
      BY <3>2
    <3>4. Current'
      <4>1. CASE dirh' = Null
        BY <2>15, <3>2, <4>1
      <4>2. CASE dirh' # Null
        BY <4>2 DEF Current
      <4>3. QED
        BY <4>1, <4>2
    <3>5. QED
      BY <3>2, <3>3, <3>4
  <2>17. g # Null
    BY NullAssumption
  <2>18. LocalRec(f)
    BY <1>1, <1>3, <2>1, <2>13, <2>17 DEF Fields, LocalRec, RenameRec, EnumLabels, ToLabels,
       RemoveLabels
  <2>19. dirhRefs' = dirhRefs + RefsOf(f) - RefsOf(th[c])
    BY <1>1, <1>3, <2>13, <2>16, <2>17 DEF RefsOf, HasDir, Calls, Bit, Fields
  <2>20. FilesInv'
    <3>1. Used(dirf)' = Used(dirf)
      <4>1. \A j \in Idx : D[j] # Empty <=> dirf[j] # Empty
        BY <2>3, <2>7, <2>9 DEF Used
      <4>2. QED
        BY <2>14, <4>1 DEF Used
    <3>2. \A j \in Used(dirf) : /\ D[j].hash = dirf[j].hash /\ D[j].num = dirf[j].num
                                /\ j # i => D[j] = dirf[j]
      BY <2>3, <2>7, <2>9 DEF Used
    <3>3. DirInv'
      <4>1. \A j, q \in Used(dirf) : j # q => D[j].name # D[q].name /\ D[j].num # D[q].num
        BY <2>5, <2>7, <2>9, <3>2 DEF Inv, FilesInv, DirInv
      <4>2. \A j \in Used(dirf) : D[j].name # Null /\ D[j].num \in Dirh.bits
        BY <2>4, <2>7, <2>9, <3>2, DirhIs DEF Inv, FilesInv, DirInv
      <4>3. QED
        BY <2>11, <2>14, <2>16, <3>1, <4>1, <4>2 DEF DirInv
    <3>4. EntriesOpen'
      BY <1>7, <2>14, <3>1, <3>2 DEF EntriesOpen, Opens, Inv, FilesInv
    <3>5. \A u \in Clients : u # c =>
                 /\ th'[u].pc = th[u].pc /\ th'[u].h = th[u].h /\ th'[u].po = th[u].po
                 /\ th'[u].num = th[u].num
                 /\ th'[u].flags = th[u].flags /\ th'[u].failed = th[u].failed
                 /\ ObjOf(u)' = ObjOf(u)
      BY <2>16, After
    <3>6. /\ th'[c].pc = "rename_pobj" /\ th'[c].h = g /\ ObjOf(c)' = th[c].to
          /\ th'[c].flags = th[c].flags /\ th'[c].failed = th[c].failed
      <4>1. /\ f.pc = "rename_pobj" /\ f.h = g /\ ObjRec(f) = th[c].to /\ f.flags = th[c].flags
            /\ f.failed = th[c].failed
        BY <2>13 DEF Fields, ObjRec
      <4>2. QED
        BY <2>16, <4>1, After
    <3>7. \A u \in Clients : th[u].pc # "set_name" /\ th[u].pc \notin RemoveLabels
      BY <1>1, NullAssumption DEF Inv, LocalInv, MutexOK, MutexLabels, RemoveLabels
    <3>8. \A u \in Clients : \A v \in Clients : ~Removing(u, v)
      BY <3>7 DEF Removing
    <3>9. ASSUME NEW u \in Clients, u # c, th[u].h # Null, Listed(u) PROVE Listed(u)'
      <4>1. th[u].h.idx # i /\ th[u].h.idx \in Used(dirf)
        BY <1>3, <2>1, <2>2, <2>3, <3>9, EntryAlone DEF Listed
      <4>2. QED
        BY <1>7, <2>14, <3>1, <3>2, <3>5, <3>9, <4>1 DEF Listed
    <3>10. Listed(c)'
      BY <1>5, <1>7, <2>3, <2>7, <2>9, <2>14, <3>1, <3>6 DEF Listed
    <3>11. ASSUME NEW u \in Clients PROVE HandleOK(u)'
      <4>1. CASE u = c
        BY <2>2, <3>6, <3>10, <4>1 DEF HandleOK
      <4>2. CASE u # c
        BY <3>5, <3>8, <3>9, <4>2 DEF HandleOK, Exclusive, Inv, FilesInv
      <4>3. QED
        BY <4>1, <4>2
    <3>12. ASSUME NEW u \in Clients PROVE VersionOK(u)'
      <4>1. VersionOK(u) /\ HandleOK(u)
        BY DEF Inv, FilesInv
      <4>2. SUFFICES ASSUME th[u].h # Null, "WRITE" \in th[u].flags, th[u].pc \notin Ending,
                            ~th[u].failed
                     PROVE  VersionOK(u)'
        BY <1>1, <1>3, <3>5, <3>6 DEF VersionOK, Ending
      <4>3. D[th[u].h.idx].hash = dirf[th[u].h.idx].hash
        BY <3>2, <4>1, <4>2 DEF HandleOK, Exclusive, Listed
      <4>4. th'[u].h = th[u].h /\ (th'[u].pc = "update" <=> th[u].pc = "update")
        BY <1>1, <2>1, <3>5, <3>6
      <4>5. QED
        BY <1>7, <2>14, <4>1, <4>2, <4>3, <4>4 DEF VersionOK
    <3>13. ASSUME NEW u \in Clients PROVE NewOK(u)'
      <4>1. th'[u].pc # "set_name" /\ th'[u].pc \notin RemoveLabels
        BY <3>5, <3>6, <3>7 DEF RemoveLabels
      <4>2. QED
        BY <4>1 DEF NewOK
    <3>14. ASSUME NEW m \in Numbers PROVE OrphanOK(m)'
      <4>1. OrphanOK(m)
        BY DEF Inv, FilesInv
      <4>2. QED
        BY <1>7, <1>9, <2>14, <3>1, <3>2, <3>7, <4>1 DEF OrphanOK
    <3>15. QED
      BY <3>3, <3>4, <3>11, <3>12, <3>13, <3>14 DEF FilesInv
  <2>21. NearChange(c, f)
    BY <2>16, ChangeIsNear
  <2>22. /\ f.enum = th[c].enum /\ f.po = th[c].po /\ f.to = th[c].to /\ f.flags = th[c].flags
         /\ RenameRec(f) <=> RenameRec(th[c])
         /\ th[c].pc # "release_to" /\ th[c].pc # "idle"
         /\ f.pc \in MutexLabels <=> th[c].pc \in MutexLabels
    BY <1>1, <2>13 DEF Fields, RenameRec, MutexLabels
  <2>23. dirh' \in Directories \cup {Null}
    BY <2>11, <2>16
  <2>24. QED
    BY <1>1, <1>2, <1>7, <1>9, <2>9, <2>14, <2>16, <2>18, <2>19, <2>20, <2>21, <2>22, <2>23,
       StoreStep
<1>10. QED
  BY <1>6, <1>8, <1>9

LEMMA RemoveFopStep ==
    ASSUME Inv, WellUsed, NEW c \in Clients, RemoveFop(c)
    PROVE  Inv'
<1>1. /\ th[c] \in ClientRecs /\ LocalRec(th[c]) /\ th[c].pc = "remove" /\ fsMutex = Null
      /\ Dirh \in Directories /\ Dirh # Null /\ Dirh.dir = dirf /\ dirhRefs \in Nat
      /\ bad \in 0 .. MaxBad
  BY InvTypes DEF RemoveFop, At
<1>2. /\ dirf \in [Idx -> Entries] /\ files \in [Numbers -> Files] /\ hashes \in Hashes
  BY DEF Inv, TypeOK
<1>3. th[c].enum = Null /\ th[c].h # Null /\ "META" \in th[c].flags
  BY <1>1 DEF LocalRec, EnumLabels
<1>4. PICK found : found = Find(dirf, pobj[th[c].po].name)
  OBVIOUS
<1>5. \/ /\ found # {}
         /\ dirf' = [dirf EXCEPT ![Min(found)] = Empty]
         /\ dirh' = [dir |-> dirf', bits |-> Dirh.bits \ {dirf[Min(found)].num}]
         /\ dirhRefs' = dirhRefs + 1 /\ fsMutex' = c
         /\ th' = Set(c, [th[c] EXCEPT !.pc = "remove_file", !.num = dirf[Min(found)].num])
         /\ bad' = bad
      \/ /\ bad' = bad \/ (bad < MaxBad /\ bad' = bad + 1)
         /\ PutDirh(Dirh, dirhRefs, TRUE, Goto(c, "close"))
         /\ dirf' = dirf /\ fsMutex' = fsMutex
  BY <1>1, <1>4 DEF RemoveFop, Fails
<1>6. files' = files /\ hashes' = hashes /\ pobj' = pobj /\ tee_pobjs' = tee_pobjs
  BY DEF RemoveFop, pobjVars
<1>7. CASE /\ bad' = bad \/ (bad < MaxBad /\ bad' = bad + 1)
           /\ PutDirh(Dirh, dirhRefs, TRUE, Goto(c, "close"))
           /\ dirf' = dirf /\ fsMutex' = fsMutex
  <2>1. UNCHANGED <<diskVars, pobjVars, fsMutex>>
    BY <1>6, <1>7 DEF diskVars, pobjVars
  <2>2. QED
    BY <1>1, <1>7, <2>1, FopFails DEF At
<1>8. CASE /\ found # {}
           /\ dirf' = [dirf EXCEPT ![Min(found)] = Empty]
           /\ dirh' = [dir |-> dirf', bits |-> Dirh.bits \ {dirf[Min(found)].num}]
           /\ dirhRefs' = dirhRefs + 1 /\ fsMutex' = c
           /\ th' = Set(c, [th[c] EXCEPT !.pc = "remove_file", !.num = dirf[Min(found)].num])
           /\ bad' = bad
  <2>1. PICK g \in Handles : g = th[c].h
    BY <1>1, <1>3 DEF ClientRecs
  <2>2. g.linked /\ Listed(c) /\ Exclusive(c) /\ ObjOf(c) = th[c].po /\ g.num \in Numbers
    BY <1>1, <1>3, <2>1 DEF HandleOK, Exclusive, Ending, ObjOf, ObjRec, Inv, FilesInv, Handles
  <2>3. PICK i \in Idx : i = Min(found) /\ i \in Used(dirf) /\ i = g.idx /\ dirf[i].num = g.num
    BY <1>4, <1>8, <2>1, <2>2, Found DEF Listed
  <2>4. PICK D : D = [dirf EXCEPT ![i] = Empty]
    OBVIOUS
  <2>5. Empty \in Entries
    BY ConstantsAssumption DEF Entries, Empty, Numbers, Hashes
  <2>6. D \in [Idx -> Entries] /\ D[i] = Empty /\ \A j \in Idx : j # i => D[j] = dirf[j]
    BY <1>2, <2>4, <2>5
  <2>7. PICK f : f = [th[c] EXCEPT !.pc = "remove_file", !.num = g.num]
    OBVIOUS
  <2>8. Fields(f, "remove_file", th[c].po, th[c].to, th[c].flags, g.num, g, th[c].failed, th[c].enum, th[c].ent)
    BY <1>1, <2>1, <2>2, <2>7 DEF Fields, ClientRecs, Labels
  <2>9. /\ dirf' = D /\ dirh' = [dir |-> D, bits |-> Dirh.bits \ {g.num}]
        /\ dirhRefs' = dirhRefs + 1 /\ fsMutex' = c /\ th' = Set(c, f) /\ bad' = bad
    BY <1>8, <2>3, <2>4, <2>7
  <2>10. dirh' \in Directories /\ dirh'.dir = D /\ dirh'.bits = Dirh.bits \ {g.num}
    BY <1>1, <2>6, <2>9 DEF Directories
  <2>11. dirh' # Null
    BY <2>10, NullAssumption
  <2>12. Change(c, f)
    BY <2>8, <2>9, SetChanges DEF Inv, Fields
  <2>13. Current'
    BY <2>11 DEF Current
  <2>14. g # Null /\ g.num # Null
    BY <2>2, NullAssumption
  <2>15. LocalRec(f)
    BY <1>1, <1>3, <2>1, <2>8, <2>14 DEF Fields, LocalRec, RenameRec, EnumLabels, ToLabels,
       RemoveLabels
  <2>16. dirhRefs' = dirhRefs + RefsOf(f) - RefsOf(th[c])
    BY <1>1, <1>3, <2>8, <2>9, <2>14 DEF RefsOf, HasDir, Calls, Bit, Fields
  <2>17. FilesInv'
    <3>1. Used(dirf)' = Used(dirf) \ {i}
      BY <2>6, <2>9 DEF Used
    <3>2. \A j \in Used(dirf) : j # i => D[j] = dirf[j] /\ dirf[j].num # g.num
      BY <2>3, <2>6 DEF Used, Inv, FilesInv, DirInv
    <3>3. DirInv'
      <4>1. \A j \in Used(dirf) : j # i => D[j].num \in dirh'.bits /\ D[j].name # Null
        BY <2>10, <3>2, DirhIs DEF Inv, FilesInv, DirInv
      <4>2. \A j, q \in Used(dirf) : (j # q /\ j # i /\ q # i) =>
                  D[j].name # D[q].name /\ D[j].num # D[q].num
        BY <3>2 DEF Inv, FilesInv, DirInv
      <4>3. QED
        BY <2>9, <2>10, <3>1, <4>1, <4>2 DEF DirInv
    <3>4. EntriesOpen'
      BY <1>6, <2>9, <3>1, <3>2 DEF EntriesOpen, Opens, Inv, FilesInv
    <3>5. \A u \in Clients : u # c =>
                 /\ th'[u].pc = th[u].pc /\ th'[u].h = th[u].h /\ th'[u].po = th[u].po
                 /\ th'[u].num = th[u].num
                 /\ th'[u].flags = th[u].flags /\ th'[u].failed = th[u].failed
                 /\ ObjOf(u)' = ObjOf(u)
      BY <2>12, After
    <3>6. th'[c].pc = "remove_file" /\ th'[c].h = g /\ th'[c].num = g.num
      <4>1. f.pc = "remove_file" /\ f.h = g /\ f.num = g.num
        BY <2>8 DEF Fields
      <4>2. QED
        BY <2>12, <4>1, After
    <3>7. \A u \in Clients : th[u].pc # "set_name" /\ th[u].pc \notin RemoveLabels
      BY <1>1, NullAssumption DEF Inv, LocalInv, MutexOK, MutexLabels, RemoveLabels
    <3>8. \A u \in Clients : \A v \in Clients : ~Removing(u, v)
      BY <3>7 DEF Removing
    <3>9. ASSUME NEW u \in Clients, u # c, th[u].h # Null, Listed(u) PROVE Listed(u)' /\ th[u].h.idx # i
      <4>1. th[u].h.idx # i /\ th[u].h.idx \in Used(dirf)
        BY <1>3, <2>1, <2>2, <2>3, <3>9, EntryAlone DEF Listed
      <4>2. QED
        BY <1>6, <2>9, <3>1, <3>2, <3>5, <3>9, <4>1 DEF Listed
    <3>10. Removing(c, c)'
      BY <3>6 DEF Removing, RemoveLabels
    <3>11. ASSUME NEW u \in Clients PROVE HandleOK(u)'
      <4>1. CASE u = c
        BY <3>6, <3>10, <4>1 DEF HandleOK, Ending
      <4>2. CASE u # c
        BY <3>5, <3>8, <3>9, <4>2 DEF HandleOK, Exclusive, Inv, FilesInv
      <4>3. QED
        BY <4>1, <4>2
    <3>12. ASSUME NEW u \in Clients PROVE VersionOK(u)'
      <4>1. CASE u = c
        BY <3>6, <4>1 DEF VersionOK, Ending
      <4>2. CASE u # c
        <5>1. VersionOK(u) /\ HandleOK(u)
          BY DEF Inv, FilesInv
        <5>2. SUFFICES ASSUME th[u].h # Null, "WRITE" \in th[u].flags, th[u].pc \notin Ending,
                              ~th[u].failed
                       PROVE  VersionOK(u)'
          BY <3>5, <4>2 DEF VersionOK
        <5>3. Listed(u)
          BY <5>1, <5>2 DEF HandleOK, Exclusive
        <5>4. D[th[u].h.idx] = dirf[th[u].h.idx]
          BY <3>2, <3>9, <4>2, <5>2, <5>3 DEF Listed
        <5>5. QED
          BY <1>6, <2>9, <3>5, <4>2, <5>1, <5>2, <5>4 DEF VersionOK
      <4>3. QED
        BY <4>1, <4>2
    <3>13. ASSUME NEW u \in Clients PROVE NewOK(u)'
      <4>1. CASE u = c
        BY <2>9, <3>1, <3>2, <3>6, <4>1 DEF NewOK
      <4>2. CASE u # c
        BY <3>5, <3>7, <4>2 DEF NewOK
      <4>3. QED
        BY <4>1, <4>2
    <3>14. ASSUME NEW m \in Numbers PROVE OrphanOK(m)'
      <4>1. CASE m = g.num
        BY <3>6, <4>1 DEF OrphanOK, RemoveLabels
      <4>2. CASE m # g.num
        <5>1. SUFFICES ASSUME bad = 0, files[m] # NoFile PROVE OrphanOK(m)'
          BY <1>6, <2>9 DEF OrphanOK
        <5>2. PICK j \in Used(dirf) : dirf[j].num = m
          BY <3>7, <5>1 DEF OrphanOK, Inv, FilesInv
        <5>3. j \in Used(dirf)' /\ dirf'[j].num = m
          BY <2>3, <2>9, <3>1, <3>2, <4>2, <5>2
        <5>4. QED
          BY <5>3 DEF OrphanOK
      <4>3. QED
        BY <4>1, <4>2
    <3>15. QED
      BY <3>3, <3>4, <3>11, <3>12, <3>13, <3>14 DEF FilesInv
  <2>18. NearChange(c, f)
    BY <2>12, ChangeIsNear
  <2>19. /\ f.enum = th[c].enum /\ f.po = th[c].po /\ f.to = th[c].to /\ f.flags = th[c].flags
         /\ RenameRec(f) <=> RenameRec(th[c])
         /\ th[c].pc # "release_to" /\ th[c].pc # "idle" /\ f.pc \in MutexLabels
    BY <1>1, <2>8 DEF Fields, RenameRec, MutexLabels
  <2>20. QED
    BY <1>1, <1>2, <1>6, <2>6, <2>9, <2>10, <2>11, <2>13, <2>15, <2>16, <2>17, <2>18, <2>19,
       StoreStep
<1>9. QED
  BY <1>5, <1>7, <1>8

-----------------------------------------------------------------------------
(* Power is lost, the initial state, and every step *)

\* Nothing is in memory.
Fresh ==
    /\ dirh = Null /\ dirhRefs = 0 /\ fsMutex = Null
    /\ pobj = [p \in PObjs |-> FreeObj] /\ tee_pobjs = <<>>
    /\ th = [c \in Clients |-> IdleClient]

\* What the invariant says of the memory.
FreshInv ==
    /\ dirh \in Directories \cup {Null} /\ dirhRefs \in Nat /\ fsMutex \in Clients \cup {Null}
    /\ pobj \in [PObjs -> [refcnt : Nat, name : Names \cup {Null},
                           flags : SUBSET FlagNames, creating : BOOLEAN]]
    /\ tee_pobjs \in Seq(PObjs) /\ th \in [Clients -> ClientRecs]
    /\ LocalInv /\ PobjRefs /\ DirRefs /\ SharingInv
    /\ \A c \in Clients : HandleOK(c) /\ VersionOK(c) /\ NewOK(c)

LEMMA FreshOK == Fresh => FreshInv
<1>1. SUFFICES ASSUME Fresh PROVE FreshInv
  OBVIOUS
<1>2. \A c \in Clients : /\ th[c].pc = "idle" /\ th[c].po = Null /\ th[c].to = Null
                         /\ th[c].flags = {} /\ th[c].num = Null /\ th[c].h = Null
                         /\ th[c].failed = FALSE /\ th[c].enum = Null /\ th[c].ent = Null
  BY <1>1 DEF Fresh, IdleClient
<1>3. \A p \in PObjs : pobj[p].refcnt = 0
  BY <1>1 DEF Fresh, FreeObj
<1>4. /\ dirh = Null /\ dirhRefs = 0 /\ fsMutex = Null /\ tee_pobjs = <<>>
  BY <1>1 DEF Fresh
<1>5. pobj \in [PObjs -> [refcnt : Nat, name : Names \cup {Null},
                          flags : SUBSET FlagNames, creating : BOOLEAN]]
  BY <1>1 DEF Fresh, FreeObj
<1>6. th \in [Clients -> ClientRecs]
  <2>1. IdleClient \in ClientRecs
    BY DEF IdleClient, ClientRecs, Labels
  <2>2. QED
    BY <1>1, <2>1 DEF Fresh
<1>7. tee_pobjs \in Seq(PObjs) /\ DOMAIN tee_pobjs = {}
  BY <1>4
<1>8. LocalInv
  <2>1. ASSUME NEW c \in Clients PROVE LocalRec(th[c])
    BY <1>2 DEF LocalRec, RenameRec, EnumLabels, ToLabels, RemoveLabels
  <2>2. ASSUME NEW c \in Clients PROVE MutexOK(c)
    BY <1>2, <1>4, NullAssumption DEF MutexOK, MutexLabels
  <2>3. ASSUME NEW c \in Clients PROVE EnumOK(c)
    BY <1>2 DEF EnumOK
  <2>4. QED
    BY <1>4, <2>1, <2>2, <2>3 DEF LocalInv
<1>9. Cardinality({}) = 0
  BY FS_EmptySet
<1>10. PobjRefs
  <2>1. ASSUME NEW p \in PObjs
        PROVE  {c \in Clients : th[c].po = p} = {} /\ {c \in Clients : th[c].to = p} = {}
    BY <1>2, NullAssumption
  <2>2. ASSUME NEW p \in PObjs
        PROVE  /\ Cardinality({c \in Clients : th[c].po = p}) = 0
               /\ Cardinality({c \in Clients : th[c].to = p}) = 0
    BY <1>9, <2>1, Zenon
  <2>3. ASSUME NEW p \in PObjs
        PROVE  pobj[p].refcnt = Cardinality({c \in Clients : th[c].po = p})
                                + Cardinality({c \in Clients : th[c].to = p})
    BY <1>3, <2>2
  <2>4. ASSUME NEW p \in PObjs
        PROVE  pobj[p].refcnt > 0 <=> \E i \in DOMAIN tee_pobjs : tee_pobjs[i] = p
    BY <1>3, <1>7
  <2>5. QED
    BY <2>3, <2>4, Zenon DEF PobjRefs
<1>11. DirRefs
  <2>1. /\ {c \in Clients : th[c].h # Null} = {}
        /\ {c \in Clients : th[c].enum # Null /\ th[c].enum.dir # "none"} = {}
        /\ {c \in Clients : th[c].pc \in {"update", "remove_file"}} = {}
    BY <1>2
  <2>2. /\ Cardinality({c \in Clients : th[c].h # Null}) = 0
        /\ Cardinality({c \in Clients : th[c].enum # Null /\ th[c].enum.dir # "none"}) = 0
        /\ Cardinality({c \in Clients : th[c].pc \in {"update", "remove_file"}}) = 0
    BY <1>9, <2>1, Zenon
  <2>3. QED
    BY <1>4, <2>2 DEF DirRefs
<1>12. SharingInv
  <2>1. ListOK
    BY <1>3, <1>7 DEF ListOK
  <2>2. \A c \in Clients : FlagsOK(c) /\ ~Renames(c)
    BY <1>2 DEF FlagsOK, Renames, RenameRec
  <2>3. \A c, u \in Clients : SharesOK(c, u) /\ ReservedOK(c, u)
    BY <1>2, <2>2 DEF SharesOK, ReservedOK
  <2>4. \A p, q \in PObjs : NamesOK(p, q)
    BY <1>3 DEF NamesOK
  <2>5. QED
    BY <2>1, <2>2, <2>3, <2>4 DEF SharingInv
<1>13. \A c \in Clients : HandleOK(c) /\ VersionOK(c) /\ NewOK(c)
  BY <1>2 DEF HandleOK, VersionOK, NewOK, RemoveLabels
<1>14. QED
  BY <1>4, <1>5, <1>6, <1>7, <1>8, <1>10, <1>11, <1>12, <1>13 DEF FreshInv

LEMMA PowerCutStep ==
    ASSUME Inv, PowerCut
    PROVE  Inv'
<1>1. Fresh'
  BY DEF PowerCut, Fresh
<1>2. Fresh' => FreshInv'
  BY FreshOK, PTL
<1>3. FreshInv'
  BY <1>1, <1>2
<1>4. /\ dirf' = dirf /\ files' = files /\ hashes' = hashes /\ bad' = bad + 1 /\ bad < MaxBad
      /\ dirh' = Null
  BY DEF PowerCut, diskVars
<1>5. TypeOK /\ DirInv /\ EntriesOpen
  BY DEF Inv, FilesInv
<1>6. bad' \in 0 .. MaxBad /\ bad' # 0
  BY <1>4, <1>5, ConstantsAssumption DEF TypeOK
<1>7. TypeOK'
  BY <1>3, <1>4, <1>5, <1>6 DEF TypeOK, FreshInv, ClientRecs
<1>8. DirInv' /\ EntriesOpen'
  BY <1>4, <1>5 DEF DirInv, EntriesOpen, Used, Opens
<1>9. \A n \in Numbers : OrphanOK(n)'
  BY <1>6 DEF OrphanOK
<1>10. QED
  BY <1>3, <1>7, <1>8, <1>9 DEF Inv, FilesInv, FreshInv

LEMMA InitInv ==
    ASSUME Init
    PROVE  Inv
<1>1. Fresh
  BY DEF Init, Fresh
<1>2. FreshInv
  BY <1>1, FreshOK
<1>3. /\ dirf = [i \in Idx |-> Empty] /\ files = [n \in Numbers |-> NoFile]
      /\ hashes = 0 /\ bad = 0 /\ dirh = Null
  BY DEF Init
<1>4. Empty \in Entries /\ NoFile \in Files /\ 0 \in Hashes /\ 0 \in 0 .. MaxBad
  BY ConstantsAssumption DEF Entries, Empty, Numbers, Hashes, Files
<1>5. TypeOK
  BY <1>2, <1>3, <1>4 DEF TypeOK, FreshInv, ClientRecs
<1>6. Used(dirf) = {}
  BY <1>3 DEF Used
<1>7. DirInv /\ EntriesOpen
  BY <1>3, <1>6 DEF DirInv, EntriesOpen
<1>8. \A n \in Numbers : OrphanOK(n)
  BY <1>3 DEF OrphanOK
<1>9. QED
  BY <1>2, <1>5, <1>7, <1>8 DEF Inv, FilesInv, FreshInv

LEMMA ClientStep ==
    ASSUME Inv, WellUsed, NEW c \in Clients,
           \/ \E name \in Names :
                 \/ \E flags \in OpenFlags : Open(c, name, flags)
                 \/ \E flags \in CreateFlags : Create(c, name, flags)
                 \/ Rename(c, name)
           \/ OpenFop(c) \/ Close(c) \/ CloseFop(c) \/ Release(c)
           \/ CreateFile(c) \/ CreateFileFails(c) \/ SetName(c) \/ SetNameFails(c)
           \/ RemoveOld(c) \/ CreateFinal(c) \/ CreateTransformed(c)
           \/ Write(c) \/ WriteFails(c) \/ UpdateHash(c) \/ UpdateHashFails(c)
           \/ RenameFop(c) \/ RenamePobj(c) \/ ReleaseTo(c)
           \/ Delete(c) \/ RemoveFop(c) \/ RemoveFile(c)
           \/ StartEnum(c) \/ NextEnum(c) \/ EnumGet(c) \/ EnumOpen(c) \/ ResetEnum(c)
    PROVE  Inv'
<1>1. CASE \E name \in Names : \E flags \in OpenFlags : Open(c, name, flags)
  BY <1>1, OpenStep
<1>2. CASE \E name \in Names : \E flags \in CreateFlags : Create(c, name, flags)
  BY <1>2, CreateStep
<1>3. CASE \E name \in Names : Rename(c, name)
  BY <1>3, RenameStep
<1>4. CASE OpenFop(c)
  BY <1>4, OpenFopStep
<1>5. CASE Close(c)
  BY <1>5, CloseStep
<1>6. CASE CloseFop(c)
  BY <1>6, CloseFopStep
<1>7. CASE Release(c)
  BY <1>7, ReleaseStep
<1>8. CASE CreateFile(c)
  BY <1>8, CreateFileStep
<1>9. CASE CreateFileFails(c)
  BY <1>9, CreateFileFailsStep
<1>10. CASE SetName(c)
  BY <1>10, SetNameStep
<1>11. CASE SetNameFails(c)
  BY <1>11, SetNameFailsStep
<1>12. CASE RemoveOld(c)
  BY <1>12, RemoveOldStep
<1>13. CASE CreateFinal(c)
  BY <1>13, CreateFinalStep
<1>14. CASE CreateTransformed(c)
  BY <1>14, CreateTransformedStep
<1>15. CASE Write(c)
  BY <1>15, WriteStep
<1>16. CASE WriteFails(c)
  BY <1>16, WriteFailsStep
<1>17. CASE UpdateHash(c)
  BY <1>17, UpdateHashStep
<1>18. CASE UpdateHashFails(c)
  BY <1>18, UpdateHashFailsStep
<1>19. CASE RenameFop(c)
  BY <1>19, RenameFopStep
<1>20. CASE RenamePobj(c)
  BY <1>20, RenamePobjStep
<1>21. CASE ReleaseTo(c)
  BY <1>21, ReleaseToStep
<1>22. CASE Delete(c)
  BY <1>22, DeleteStep
<1>23. CASE RemoveFop(c)
  BY <1>23, RemoveFopStep
<1>24. CASE RemoveFile(c)
  BY <1>24, RemoveFileStep
<1>25. CASE StartEnum(c)
  BY <1>25, StartEnumStep
<1>26. CASE NextEnum(c)
  BY <1>26, NextEnumStep
<1>27. CASE EnumGet(c)
  BY <1>27, EnumGetStep
<1>28. CASE EnumOpen(c)
  BY <1>28, EnumOpenStep
<1>29. CASE ResetEnum(c)
  BY <1>29, ResetEnumStep
<1>30. QED
  BY <1>1, <1>2, <1>3, <1>4, <1>5, <1>6, <1>7, <1>8, <1>9, <1>10, <1>11, <1>12, <1>13, <1>14,
     <1>15, <1>16, <1>17, <1>18, <1>19, <1>20, <1>21, <1>22, <1>23, <1>24, <1>25, <1>26, <1>27,
     <1>28, <1>29

\* Nothing changes.
LEMMA StutterStep ==
    ASSUME Inv, UNCHANGED vars
    PROVE  Inv'
<1>1. TypeOK' /\ LocalInv' /\ SharingInv'
  <2>1. TypeOK'
    BY DEF vars, Inv, TypeOK
  <2>2. LocalInv'
    BY DEF vars, Inv, LocalInv, MutexOK, EnumOK, At
  <2>3. SharingInv'
    BY DEF vars, Inv, SharingInv, ListOK, FlagsOK, SharesOK, ReservedOK, NamesOK, Renames
  <2>4. QED
    BY <2>1, <2>2, <2>3
<1>2. PobjRefs' /\ DirRefs'
  <2>1. th' = th /\ pobj' = pobj /\ tee_pobjs' = tee_pobjs /\ dirhRefs' = dirhRefs
    BY DEF vars
  <2>2. PobjRefs /\ DirRefs
    BY DEF Inv
  <2>3. PobjRefs'
    BY <2>1, <2>2 DEF PobjRefs
  <2>4. DirRefs'
    BY <2>1, <2>2 DEF DirRefs
  <2>5. QED
    BY <2>3, <2>4
<1>3. DirInv' /\ EntriesOpen' /\ \A n \in Numbers : OrphanOK(n)'
  BY DEF vars, Inv, FilesInv, DirInv, EntriesOpen, Opens, Used, OrphanOK
<1>4. \A c \in Clients : HandleOK(c)' /\ VersionOK(c)' /\ NewOK(c)'
  BY DEF vars, Inv, FilesInv, HandleOK, VersionOK, NewOK, Listed, Removing, Exclusive, ObjOf, Used
<1>5. QED
  BY <1>1, <1>2, <1>3, <1>4 DEF Inv, FilesInv

LEMMA NextInv ==
    ASSUME Inv, WellUsed, [Next]_vars
    PROVE  Inv'
<1>1. CASE UNCHANGED vars
  BY <1>1, StutterStep
<1>2. CASE PowerCut
  BY <1>2, PowerCutStep
<1>3. CASE Next /\ ~PowerCut
  BY <1>3, ClientStep DEF Next
<1>4. QED
  BY <1>1, <1>2, <1>3

\* The inductive invariant holds in every reachable state, for callers that
\* keep to WellUsed.
THEOREM InvHolds == ASSUME WellUsed PROVE Spec => []Inv
<1>1. Init => Inv
  BY InitInv
<1>2. Inv /\ [Next]_vars => Inv'
  BY NextInv
<1>3. QED
  BY <1>1, <1>2, PTL DEF Spec


\* Every variable has its type, so no action applies to a null pointer.
THEOREM TypeCorrect == ASSUME WellUsed PROVE Spec => []TypeOK
<1>1. Inv => TypeOK
  BY DEF Inv
<1>2. QED
  BY <1>1, InvHolds, PTL

\* tee_pobj_get(), tee_pobj_release(), get_dirh() and put_dirh() count every
\* reference, also when a file operation fails.
THEOREM ReferencesExact == ASSUME WellUsed PROVE Spec => []RefsExact
<1>1. Inv => RefsExact
  <2>1. SUFFICES ASSUME PobjRefs, DirRefs PROVE RefsExact
    BY DEF Inv
  <2>2. DirRefs => dirhRefs = Cardinality({c \in Clients : th[c].h # Null})
             + Cardinality({c \in Clients : th[c].enum # Null /\ th[c].enum.dir # "none"})
             + Cardinality({c \in Clients : th[c].pc \in {"update", "remove_file"}})
    BY DEF DirRefs
  <2>3. PobjRefs => \A p \in PObjs :
          /\ pobj[p].refcnt = Cardinality({c \in Clients : th[c].po = p})
                              + Cardinality({c \in Clients : th[c].to = p})
          /\ pobj[p].refcnt > 0 <=> \E i \in DOMAIN tee_pobjs : tee_pobjs[i] = p
    BY DEF PobjRefs
  <2>4. QED
    BY <2>1, <2>2, <2>3, Zenon DEF RefsExact
<1>2. QED
  BY <1>1, InvHolds, PTL

\* Each object that dirf.db lists can be opened whenever power is lost: the
\* order in which ree_fs_create(), ree_fs_write(), ree_fs_rename() and
\* ree_fs_remove() sync the object and the directory is right.
THEOREM ListedObjectsOpen == ASSUME WellUsed PROVE Spec => []EntriesOpen
<1>1. Inv => EntriesOpen
  BY DEF Inv, FilesInv
<1>2. QED
  BY <1>1, InvHolds, PTL

\* No two entries of dirf.db have one name or one file, ree_fs_dirh is the
\* directory on disk, and the assertion of tee_fs_dirfile_update_hash() holds.
THEOREM DirectoryIsExact == ASSUME WellUsed PROVE Spec => []DirectoryExact
<1>1. Inv => DirectoryExact
  <2>1. SUFFICES ASSUME Inv PROVE DirectoryExact
    OBVIOUS
  <2>2. DirInv /\ \A c \in Clients : th[c].pc # "assert"
    BY <2>1 DEF Inv, FilesInv, LocalInv, LocalRec
  <2>3. QED
    BY <2>2 DEF DirectoryExact, DirInv, At
<1>2. QED
  BY <1>1, InvHolds, PTL

\* Two handles have one file only if tee_pobj_check_access() allows their
\* flags, also while one of them is renamed, overwritten or removed.
THEOREM AccessExclusive == ASSUME WellUsed PROVE Spec => []ExclusiveAccess
<1>1. Inv => ExclusiveAccess
  <2>1. SUFFICES ASSUME Inv, NEW c \in Clients, NEW u \in Clients, c # u,
                        th[c].h # Null, th[u].h # Null, th[c].h.num = th[u].h.num,
                        th[c].h.linked, th[u].h.linked
                 PROVE  CheckAccess(th[c].flags, th[u].flags)
    BY DEF ExclusiveAccess
  <2>2. th[c].po # Null /\ th[u].po # Null
    BY <2>1, InvTypes DEF LocalRec
  <2>3. ASSUME NEW a \in Clients, NEW b \in Clients, a # b, th[a].pc = "set_name",
               th[b].h # Null, th[a].h.num = th[b].h.num, th[b].h.linked
        PROVE  FALSE
    <3>1. th[b].pc \notin MutexLabels /\ fsMutex = a
      BY <2>1, <2>3, NullAssumption DEF Inv, LocalInv, MutexOK, MutexLabels
    <3>2. \A w \in Clients : w # a => th[w].pc \notin MutexLabels
      BY <2>1, <3>1, NobodyIn
    <3>3. \A w \in Clients : ~Removing(b, w)
      BY <2>3, <3>2 DEF Removing, RemoveLabels, MutexLabels
    <3>4. Listed(b)
      BY <2>1, <2>3, <3>1, <3>3 DEF HandleOK, Inv, FilesInv, MutexLabels
    <3>5. QED
      BY <2>1, <2>3, <3>4 DEF Listed, NewOK, Inv, FilesInv
  <2>4. th[c].pc # "set_name" /\ th[u].pc # "set_name"
    BY <2>1, <2>3
  <2>5. /\ Listed(c) \/ \E w \in Clients : Removing(c, w)
        /\ Listed(u) \/ \E w \in Clients : Removing(u, w)
    BY <2>1, <2>4 DEF HandleOK, Inv, FilesInv
  <2>6. \A w, v \in Clients : (th[w].pc \in RemoveLabels /\ th[v].pc \in RemoveLabels) => w = v
    BY <2>1 DEF Inv, LocalInv, MutexOK, MutexLabels, RemoveLabels
  <2>7. \A w \in Clients : th[w].pc \in RemoveLabels => \A j \in Used(dirf) : dirf[j].num # th[w].num
    BY <2>1 DEF Inv, FilesInv, NewOK
  <2>8. CASE Listed(c) /\ Listed(u)
    <3>1. th[c].h.idx = th[u].h.idx
      BY <2>1, <2>8 DEF Listed, Inv, FilesInv, DirInv
    <3>2. pobj[ObjOf(c)].name = pobj[ObjOf(u)].name
      BY <2>8, <3>1 DEF Listed
    <3>3. QED
      BY <2>1, <2>2, <3>2, OneName
  <2>9. CASE \E w, v \in Clients : Removing(c, w) /\ Removing(u, v)
    <3>1. th[c].po = th[u].po
      BY <2>6, <2>9 DEF Removing
    <3>2. QED
      BY <2>1, <2>2, <3>1 DEF Inv, SharingInv, SharesOK
  <2>10. ~(Listed(c) /\ \E w \in Clients : Removing(u, w))
    BY <2>1, <2>7 DEF Listed, Removing
  <2>11. ~(Listed(u) /\ \E w \in Clients : Removing(c, w))
    BY <2>1, <2>7 DEF Listed, Removing
  <2>12. QED
    BY <2>5, <2>8, <2>9, <2>10, <2>11
<1>2. QED
  BY <1>1, InvHolds, PTL

\* No file is left over when every request succeeds: whoever takes the entry
\* of a file away removes the file before it gives the mutex back.
THEOREM NoOrphans == ASSUME WellUsed PROVE Spec => []NoOrphanFile
<1>1. Inv => NoOrphanFile
  <2>1. SUFFICES ASSUME Inv, bad = 0, fsMutex = Null, NEW n \in Numbers, files[n] # NoFile
                 PROVE  \E i \in Used(dirf) : dirf[i].num = n
    BY DEF NoOrphanFile
  <2>2. \A c \in Clients : th[c].pc # "set_name" /\ th[c].pc \notin RemoveLabels
    BY <2>1, NullAssumption DEF Inv, LocalInv, MutexOK, MutexLabels, RemoveLabels
  <2>3. OrphanOK(n)
    BY <2>1 DEF Inv, FilesInv
  <2>4. QED
    BY <2>1, <2>2, <2>3 DEF OrphanOK
<1>2. QED
  BY <1>1, InvHolds, PTL

=============================================================================
