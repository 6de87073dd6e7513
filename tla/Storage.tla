------------------------------ MODULE Storage -------------------------------
(***************************************************************************)
(* Persistent objects in the REE file system: the system calls of          *)
(* core/tee/tee_svc_storage.c, the list of objects in use                  *)
(* (core/tee/tee_pobj.c), the file operations of core/tee/tee_ree_fs.c     *)
(* and the directory file dirf.db (core/tee/fs_dirfile.c).                 *)
(*                                                                         *)
(* A file is what module FsHtree shows it to be: two committed versions,   *)
(* each known by its root hash; a sync replaces the version that the tree  *)
(* in memory was not read from.  The directory file is AtomicFile.         *)
(*                                                                         *)
(* A file operation holds ree_fs_mutex and is split where it has changed   *)
(* the storage, so that power can be lost or the next request of it can    *)
(* fail there.  The object list has its own mutex: one step per function.  *)
(***************************************************************************)
EXTENDS Integers, Sequences, FiniteSets, FiniteSetsExt

CONSTANTS Clients,      \* threads of TAs, each with a handle and an enumerator
          Names,        \* identifiers of objects, with the UUID of their TA
          OpenFlags,    \* sets of flags an object is opened with
          CreateFlags,  \* sets of flags an object is created with
          Faults,       \* "object", "directory": the syncs that may fail
          Retry,        \* a handle is used again after an error on it
          EnumAlone,    \* no other call runs during an enumeration, and one
                        \* that could not be started is given up
          MaxFile,      \* bound: the highest file number
          MaxHash,      \* bound: the number of file contents written
          MaxBad,       \* bound: failed requests and power cuts
          Null

FlagNames == {"READ", "WRITE", "META", "SHARE_READ", "SHARE_WRITE", "OVERWRITE"}

ASSUME ConstantsAssumption ==
    /\ OpenFlags \subseteq SUBSET (FlagNames \ {"OVERWRITE"})
    /\ CreateFlags \subseteq SUBSET FlagNames
    /\ Faults \subseteq {"object", "directory"}
    /\ Retry \in BOOLEAN /\ EnumAlone \in BOOLEAN
    /\ MaxFile \in Nat /\ MaxHash \in Nat /\ MaxBad \in Nat
    /\ IsFiniteSet(Names) /\ IsFiniteSet(Clients)

VARIABLES
    dirf,       \* dirf.db, as committed
    files,      \* the other files: a pair of root hashes, or NoFile
    dirh,       \* ree_fs_dirh: the entries in memory and the file numbers in use
    dirhRefs,   \* ree_fs_dirh_refcount
    fsMutex,    \* the client that holds ree_fs_mutex
    pobj,       \* struct tee_pobj
    tee_pobjs,  \* the list of them
    th,         \* the call, the handle and the enumerator of each client
    hashes,     \* the number of contents written so far
    bad         \* the number of failures so far

vars == <<dirf, files, dirh, dirhRefs, fsMutex, pobj, tee_pobjs, th, hashes, bad>>
diskVars == <<dirf, files, hashes>>
dirhVars == <<dirh, dirhRefs, fsMutex>>
pobjVars == <<pobj, tee_pobjs>>

Numbers == 0 .. MaxFile
Idx == 1 .. Cardinality(Names)
PObjs == 1 .. 2 * Cardinality(Clients)

Hashes == 0 .. MaxHash

NoFile == <<>>
Files == {NoFile} \cup Hashes \X Hashes
Entries == [name : Names \cup {Null}, num : Numbers, hash : Hashes]
Directories == [dir : [Idx -> Entries], bits : SUBSET Numbers]
Handles == [num : Numbers, idx : {0} \cup Idx, hash : Hashes, slot : {1, 2},
            linked : BOOLEAN, tree : BOOLEAN]
Enumerators == [idx : {0} \cup Idx, dir : {"none", "current", "stale"}]

\* A null pointer is none of the things it is compared with.
ASSUME NullAssumption ==
    /\ Null \notin Names \cup Clients \cup PObjs \cup Numbers
    /\ Null \notin Directories /\ Null \notin Handles /\ Null \notin Enumerators

Empty == [name |-> Null, num |-> 0, hash |-> 0]
FreeObj == [refcnt |-> 0, name |-> Null, flags |-> {}, creating |-> FALSE]

\* "to": the name given to a rename, and the object that reserves it.
IdleClient == [pc |-> "idle", po |-> Null, to |-> Null, flags |-> {}, num |-> Null,
               h |-> Null, failed |-> FALSE, enum |-> Null, ent |-> Null]

Init ==
    /\ dirf = [i \in Idx |-> Empty]
    /\ files = [n \in Numbers |-> NoFile]
    /\ dirh = Null
    /\ dirhRefs = 0
    /\ fsMutex = Null
    /\ pobj = [p \in PObjs |-> FreeObj]
    /\ tee_pobjs = <<>>
    /\ th = [c \in Clients |-> IdleClient]
    /\ hashes = 0
    /\ bad = 0

At(c, label) == th[c].pc = label
Set(c, f) == [th EXCEPT ![c] = f]
Goto(c, label) == Set(c, [th[c] EXCEPT !.pc = label])

-----------------------------------------------------------------------------
(* Objects in use: tee_pobj.c *)

\* tee_pobj_check_access()
Shares(o, n, access, share) ==
    /\ access \in o \cup n => share \in o \cap n
    /\ share \in o <=> share \in n
CheckAccess(o, n) ==
    /\ "META" \notin o \cup n
    /\ Shares(o, n, "READ", "SHARE_READ")
    /\ Shares(o, n, "WRITE", "SHARE_WRITE")

Named(name) == {i \in DOMAIN tee_pobjs : pobj[tee_pobjs[i]].name = name}

\* tee_pobj_get(): the last object of the list with the name gets a reference,
\* if the usage and the flags allow it, or a new object is added.  It is p.
PobjGet(name, flags, usage, p) ==
    IF Named(name) # {}
      THEN /\ p = tee_pobjs[Max(Named(name))]
           /\ \/ usage = "ENUM"
              \/ /\ ~pobj[p].creating
                 /\ usage = "CREATE" => "OVERWRITE" \in flags
                 /\ CheckAccess(pobj[p].flags, flags)
           /\ pobj' = [pobj EXCEPT ![p].refcnt = @ + 1]
           /\ UNCHANGED tee_pobjs
      ELSE /\ pobj[p].refcnt = 0 /\ \A q \in PObjs : pobj[q].refcnt = 0 => p <= q
           /\ pobj' = [pobj EXCEPT ![p] = [refcnt |-> 1, name |-> name, flags |-> flags,
                                           creating |-> usage = "CREATE"]]
           /\ tee_pobjs' = Append(tee_pobjs, p)

\* tee_pobj_release(), with TAILQ_REMOVE() by the last reference.
PobjRelease(p) ==
    IF pobj[p].refcnt = 1
      THEN /\ pobj' = [pobj EXCEPT ![p] = FreeObj]
           /\ \E i \in DOMAIN tee_pobjs :
                 /\ tee_pobjs[i] = p
                 /\ tee_pobjs' = SubSeq(tee_pobjs, 1, i - 1)
                                 \o SubSeq(tee_pobjs, i + 1, Len(tee_pobjs))
      ELSE /\ pobj' = [pobj EXCEPT ![p].refcnt = @ - 1]
           /\ UNCHANGED tee_pobjs

-----------------------------------------------------------------------------
(* The directory in memory: fs_dirfile.c, get_dirh() and put_dirh() *)

Used(dir) == {i \in Idx : dir[i] # Empty}
Find(dir, name) == {i \in Used(dir) : dir[i].name = name}

\* tee_fs_dirfile_open(): an entry whose file number was met before is cleared.
DirfileOpen ==
    LET Dup(i) == \E j \in Used(dirf) : j < i /\ dirf[j].num = dirf[i].num
    IN  [dir |-> [i \in Idx |-> IF i \in Used(dirf) /\ Dup(i) THEN Empty ELSE dirf[i]],
         bits |-> {dirf[i].num : i \in Used(dirf)}]

\* get_dirh(): the directory an operation works with.
Dirh == IF dirh = Null THEN DirfileOpen ELSE dirh

\* An enumerator keeps the pointer it got from opendir ("current"): it is stale
\* once the directory was closed.  It has none when opendir failed.
Stale(T) == [c \in Clients |-> IF T[c].enum # Null /\ T[c].enum.dir = "current"
                               THEN [T[c] EXCEPT !.enum.dir = "stale"] ELSE T[c]]

\* put_dirh_primitive(): d is the directory afterwards, refs its references,
\* and T the clients.  The last reference, or an error, closes it.
PutDirh(d, refs, close, T) ==
    /\ dirhRefs' = refs
    /\ IF close \/ refs = 0
         THEN dirh' = Null /\ th' = Stale(T)
         ELSE dirh' = d /\ th' = T

\* tee_fs_dirfile_get_tmp(): the first number that is not in use.
GetTmp(d) == Min(Numbers \ d.bits)

\* A file is opened by the hash its entry has.
Opens(e) == files[e.num] # NoFile /\ e.hash \in {files[e.num][1], files[e.num][2]}

Handle(e, i) == [num |-> e.num, idx |-> i, hash |-> e.hash, linked |-> TRUE, tree |-> TRUE,
                 slot |-> IF files[e.num][1] = e.hash THEN 1 ELSE 2]

\* A removed file stays with the handles that have it open.
Unlink(T, n) == [c \in Clients |-> IF T[c].h # Null /\ T[c].h.num = n
                                   THEN [T[c] EXCEPT !.h.linked = FALSE] ELSE T[c]]

Fails(what) == what \in Faults /\ bad < MaxBad /\ bad' = bad + 1

\* No call of another client starts during an enumeration, nor the reverse.
MayStart(c) == /\ At(c, "idle")
               /\ EnumAlone => \A u \in Clients : th[u].enum = Null
MayEnum(c) == /\ At(c, "idle")
              /\ EnumAlone => \A u \in Clients \ {c} : At(u, "idle") /\ th[u].enum = Null

-----------------------------------------------------------------------------
(* syscall_storage_obj_open() *)

Open(c, name, flags) ==
    /\ MayStart(c) /\ th[c].h = Null
    /\ \E p \in PObjs : /\ PobjGet(name, flags, "OPEN", p)
                        /\ th' = Set(c, [th[c] EXCEPT !.pc = "open", !.po = p, !.flags = flags])
    /\ UNCHANGED <<diskVars, dirhVars, bad>>

OpenFop_KeepRef(c) ==
    LET found == Find(Dirh.dir, pobj[th[c].po].name)
        i == Min(found)
        ok == found # {} /\ Opens(Dirh.dir[i])
    IN  /\ At(c, "open") /\ fsMutex = Null
        /\ IF ok
             THEN PutDirh(Dirh, dirhRefs + 1, FALSE,
                          Set(c, [th[c] EXCEPT !.pc = "idle", !.h = Handle(Dirh.dir[i], i)]))
             ELSE PutDirh(Dirh, dirhRefs + 1, FALSE,
                          Goto(c, IF found = {} THEN "release" ELSE "remove"))
        /\ UNCHANGED <<diskVars, pobjVars, fsMutex, bad>>

OpenFop_PutTwice(c) ==
    LET found == Find(Dirh.dir, pobj[th[c].po].name)
        i == Min(found)
        ok == found # {} /\ Opens(Dirh.dir[i])
    IN  /\ At(c, "open") /\ fsMutex = Null
        /\ IF ok
             THEN PutDirh(Dirh, dirhRefs + 1, FALSE,
                          Set(c, [th[c] EXCEPT !.pc = "idle", !.h = Handle(Dirh.dir[i], i)]))
             ELSE PutDirh(Dirh, dirhRefs - 1, TRUE,
                          Goto(c, IF found = {} THEN "release" ELSE "remove"))
        /\ UNCHANGED <<diskVars, pobjVars, fsMutex, bad>>

\* ree_fs_open(), called for the head of the object.  An object that does not
\* open is corrupt, and is removed.
OpenFop(c) ==
    LET found == Find(Dirh.dir, pobj[th[c].po].name)
        i == Min(found)
        ok == found # {} /\ Opens(Dirh.dir[i])
    IN  /\ At(c, "open") /\ fsMutex = Null
        /\ IF ok
             THEN PutDirh(Dirh, dirhRefs + 1, FALSE,
                          Set(c, [th[c] EXCEPT !.pc = "idle", !.h = Handle(Dirh.dir[i], i)]))
             ELSE PutDirh(Dirh, dirhRefs, TRUE, Goto(c, IF found = {} THEN "release" ELSE "remove"))
        /\ UNCHANGED <<diskVars, pobjVars, fsMutex, bad>>

\* tee_obj_close(): the file, then the object.
Close(c) ==
    /\ MayStart(c) /\ th[c].h # Null
    /\ th' = Goto(c, "close")
    /\ UNCHANGED <<diskVars, dirhVars, pobjVars, bad>>

\* ree_fs_close() does nothing for an object that was never opened.
CloseFop(c) ==
    /\ At(c, "close") /\ fsMutex = Null
    /\ IF th[c].h = Null
         THEN th' = Goto(c, "release") /\ UNCHANGED <<dirh, dirhRefs>>
         ELSE PutDirh(dirh, dirhRefs - 1, FALSE,
                      Set(c, [th[c] EXCEPT !.pc = "release", !.h = Null]))
    /\ UNCHANGED <<diskVars, pobjVars, fsMutex, bad>>

Release(c) ==
    /\ At(c, "release")
    /\ PobjRelease(th[c].po)
    /\ th' = Set(c, [IdleClient EXCEPT !.enum = th[c].enum])
    /\ UNCHANGED <<diskVars, dirhVars, bad>>

-----------------------------------------------------------------------------
(* syscall_storage_obj_create() *)

Create(c, name, flags) ==
    /\ MayStart(c) /\ th[c].h = Null
    /\ \E p \in PObjs : /\ PobjGet(name, flags, "CREATE", p)
                        /\ th' = Set(c, [th[c] EXCEPT !.pc = "create", !.po = p, !.flags = flags])
    /\ UNCHANGED <<diskVars, dirhVars, bad>>

\* ree_fs_create(): a new file with the content of the object, synced.
CreateFile(c) ==
    LET n == GetTmp(Dirh)
    IN  /\ At(c, "create") /\ fsMutex = Null
        /\ Numbers \ Dirh.bits # {} /\ hashes < MaxHash
        /\ files' = [files EXCEPT ![n] = <<0, hashes + 1>>]
        /\ hashes' = hashes + 1
        /\ dirh' = [Dirh EXCEPT !.bits = @ \cup {n}]
        /\ dirhRefs' = dirhRefs + 1
        /\ fsMutex' = c
        /\ th' = Set(c, [th[c] EXCEPT !.pc = "set_name",
                             !.h = [num |-> n, idx |-> 0, hash |-> hashes + 1, slot |-> 2,
                                    linked |-> TRUE, tree |-> TRUE]])
        /\ UNCHANGED <<dirf, pobjVars, bad>>

\* The file could not be made or synced: it is removed.
CreateFileFails(c) ==
    /\ At(c, "create") /\ fsMutex = Null
    /\ Fails("object")
    /\ PutDirh(Dirh, dirhRefs, TRUE, Goto(c, "release"))
    /\ UNCHANGED <<diskVars, pobjVars, fsMutex>>

NameIdx_Append(name) == Min(Idx \ Used(dirh.dir))

\* The entry that set_name() makes: it replaces the one that has the name, if
\* there is one, or takes the first free index (find_empty_idx()).
NameIdx(name) == Min(IF Find(dirh.dir, name) # {} THEN Find(dirh.dir, name)
                                                  ELSE Idx \ Used(dirh.dir))
WithName(c) == [dirh.dir EXCEPT ![NameIdx(pobj[th[c].po].name)] =
                    [name |-> pobj[th[c].po].name, num |-> th[c].h.num, hash |-> th[c].h.hash]]

SetName(c) ==
    LET old == Find(dirh.dir, pobj[th[c].po].name)
        i == NameIdx(pobj[th[c].po].name)
    IN  /\ At(c, "set_name")
        /\ old # {} => "OVERWRITE" \in th[c].flags
        /\ dirf' = WithName(c)
        /\ dirh' = [dirh EXCEPT !.dir = dirf']
        /\ fsMutex' = IF old = {} THEN Null ELSE c
        /\ th' = Set(c, [th[c] EXCEPT !.pc = IF old = {} THEN "created" ELSE "remove_old",
                                      !.num = IF old = {} THEN Null ELSE dirh.dir[i].num,
                                      !.h.idx = i])
        /\ UNCHANGED <<files, hashes, dirhRefs, pobjVars, bad>>

\* The name exists, or dirf.db could not be synced: the new file is removed.
SetNameFails(c) ==
    /\ At(c, "set_name")
    /\ IF Find(dirh.dir, pobj[th[c].po].name) # {} /\ "OVERWRITE" \notin th[c].flags
         THEN UNCHANGED bad ELSE Fails("directory")
    /\ files' = [files EXCEPT ![th[c].h.num] = NoFile]
    /\ PutDirh(dirh, dirhRefs - 1, TRUE, Set(c, [th[c] EXCEPT !.pc = "release", !.h = Null]))
    /\ fsMutex' = Null
    /\ UNCHANGED <<dirf, hashes, pobjVars>>

RemoveOld_Keep(c) ==
    /\ At(c, "remove_old")
    /\ th' = Set(c, [th[c] EXCEPT !.pc = "created", !.num = Null])
    /\ fsMutex' = Null
    /\ UNCHANGED <<diskVars, dirh, dirhRefs, pobjVars, bad>>

\* The file of the object that was overwritten is removed last.
RemoveOld(c) ==
    /\ At(c, "remove_old")
    /\ files' = [files EXCEPT ![th[c].num] = NoFile]
    /\ th' = Unlink(Set(c, [th[c] EXCEPT !.pc = "created", !.num = Null]), th[c].num)
    /\ fsMutex' = Null
    /\ UNCHANGED <<dirf, hashes, dirh, dirhRefs, pobjVars, bad>>

\* tee_pobj_create_final(), and the handle is closed when the caller wants
\* none; a transient object that became persistent does not get there.
CreateFinal(c) ==
    /\ At(c, "created")
    /\ pobj' = [pobj EXCEPT ![th[c].po].creating = FALSE]
    /\ \E label \in {"idle", "close"} : th' = Goto(c, label)
    /\ UNCHANGED <<diskVars, dirhVars, tee_pobjs, bad>>
CreateTransformed(c) ==
    /\ At(c, "created")
    /\ th' = Goto(c, "idle")
    /\ UNCHANGED <<diskVars, dirhVars, pobjVars, bad>>

-----------------------------------------------------------------------------
(* syscall_storage_obj_write(), syscall_storage_obj_trunc() *)

MayWrite(c) ==
    /\ MayStart(c) /\ th[c].h # Null /\ (th[c].failed => Retry)
    /\ "WRITE" \in th[c].flags
    /\ fsMutex = Null

Write_InPlace(c) ==
    LET h == th[c].h
    IN  /\ MayWrite(c)
        /\ hashes < MaxHash
        /\ files' = IF h.linked THEN [files EXCEPT ![h.num][h.slot] = hashes + 1] ELSE files
        /\ hashes' = hashes + 1
        /\ th' = Set(c, [th[c] EXCEPT !.pc = "update", !.h.hash = hashes + 1])
        /\ dirh' = Dirh
        /\ dirhRefs' = dirhRefs + 1
        /\ fsMutex' = c
        /\ UNCHANGED <<dirf, pobjVars, bad>>

\* ree_fs_write() and ree_fs_truncate(), up to the sync of the object.  They
\* follow the pointer to the tree even when a failed sync has cleared it.
Write(c) ==
    LET h == th[c].h
    IN  /\ MayWrite(c)
        /\ hashes < MaxHash
        /\ IF h.tree
             THEN /\ files' = IF h.linked THEN [files EXCEPT ![h.num][3 - h.slot] = hashes + 1]
                              ELSE files
                  /\ hashes' = hashes + 1
                  /\ th' = Set(c, [th[c] EXCEPT !.pc = "update", !.h.hash = hashes + 1,
                                                !.h.slot = 3 - @])
             ELSE /\ th' = Goto(c, "null_tree")
                  /\ UNCHANGED <<files, hashes>>
        /\ dirh' = Dirh
        /\ dirhRefs' = dirhRefs + 1
        /\ fsMutex' = c
        /\ UNCHANGED <<dirf, pobjVars, bad>>

\* A failed sync takes the tree from the handle.
WriteFails(c) ==
    /\ MayWrite(c)
    /\ Fails("object")
    /\ PutDirh(Dirh, dirhRefs, TRUE, Set(c, [th[c] EXCEPT !.failed = TRUE, !.h.tree = FALSE]))
    /\ UNCHANGED <<diskVars, pobjVars, fsMutex>>

\* tee_fs_dirfile_update_hash() and commit_dirh_writes(), with the assertion
\* that the entry is still that of the file.
UpdateHash(c) ==
    LET h == th[c].h
    IN  /\ At(c, "update")
        /\ IF dirh.dir[h.idx].num = h.num
             THEN /\ dirf' = [dirh.dir EXCEPT ![h.idx].hash = h.hash]
                  /\ PutDirh([dirh EXCEPT !.dir = dirf'], dirhRefs - 1, FALSE, Goto(c, "idle"))
                  /\ fsMutex' = Null
             ELSE /\ th' = Goto(c, "assert")
                  /\ UNCHANGED <<dirf, dirhVars>>
        /\ UNCHANGED <<files, hashes, pobjVars, bad>>

UpdateHashFails(c) ==
    /\ At(c, "update")
    /\ Fails("directory")
    /\ PutDirh(dirh, dirhRefs - 1, TRUE, Set(c, [th[c] EXCEPT !.pc = "idle", !.failed = TRUE]))
    /\ fsMutex' = Null
    /\ UNCHANGED <<diskVars, pobjVars>>

-----------------------------------------------------------------------------
(* syscall_storage_obj_rename(), syscall_storage_obj_del() *)

\* The new name is reserved first.
Rename(c, name) ==
    /\ MayStart(c) /\ th[c].h # Null /\ "META" \in th[c].flags
    /\ \E p \in PObjs : /\ PobjGet(name, {"META"}, "RENAME", p)
                        /\ th' = Set(c, [th[c] EXCEPT !.pc = "rename", !.to = p])
    /\ UNCHANGED <<diskVars, dirhVars, bad>>

\* ree_fs_rename(), never with overwrite.
RenameFop(c) ==
    LET old == Find(Dirh.dir, pobj[th[c].po].name)
        new == pobj[th[c].to].name
        Done == [Dirh.dir EXCEPT ![Min(old)].name = new]
    IN  /\ At(c, "rename") /\ fsMutex = Null
        /\ \/ /\ Find(Dirh.dir, new) = {} /\ old # {}
              /\ dirf' = Done
              /\ PutDirh([Dirh EXCEPT !.dir = Done], dirhRefs, FALSE, Goto(c, "rename_pobj"))
              /\ UNCHANGED bad
           \/ /\ IF Find(Dirh.dir, new) # {} \/ old = {} THEN UNCHANGED bad ELSE Fails("directory")
              /\ PutDirh(Dirh, dirhRefs, TRUE, Goto(c, "release_to"))
              /\ UNCHANGED dirf
        /\ UNCHANGED <<files, hashes, pobjVars, fsMutex>>

RenamePobj_KeepName(c) ==
    /\ At(c, "rename_pobj")
    /\ th' = Goto(c, "release_to")
    /\ UNCHANGED <<diskVars, dirhVars, pobjVars, bad>>

\* tee_pobj_rename() needs to have the only reference.
RenamePobj(c) ==
    /\ At(c, "rename_pobj")
    /\ pobj' = IF pobj[th[c].po].refcnt = 1
                 THEN [pobj EXCEPT ![th[c].po].name = pobj[th[c].to].name] ELSE pobj
    /\ th' = Goto(c, "release_to")
    /\ UNCHANGED <<diskVars, dirhVars, tee_pobjs, bad>>

ReleaseTo(c) ==
    /\ At(c, "release_to")
    /\ PobjRelease(th[c].to)
    /\ th' = Set(c, [th[c] EXCEPT !.pc = "idle", !.to = Null])
    /\ UNCHANGED <<diskVars, dirhVars, bad>>

Delete(c) ==
    /\ MayStart(c) /\ th[c].h # Null /\ "META" \in th[c].flags
    /\ th' = Goto(c, "remove")
    /\ UNCHANGED <<diskVars, dirhVars, pobjVars, bad>>

\* ree_fs_remove(): the entry, then the file.  The handle is closed in any case.
RemoveFop(c) ==
    LET found == Find(Dirh.dir, pobj[th[c].po].name)
        n == Dirh.dir[Min(found)].num
        Done == [Dirh.dir EXCEPT ![Min(found)] = Empty]
    IN  /\ At(c, "remove") /\ fsMutex = Null
        /\ \/ /\ found # {}
              /\ dirf' = Done
              /\ dirh' = [dir |-> Done, bits |-> Dirh.bits \ {n}]
              /\ dirhRefs' = dirhRefs + 1
              /\ fsMutex' = c
              /\ th' = Set(c, [th[c] EXCEPT !.pc = "remove_file", !.num = n])
              /\ UNCHANGED bad
           \/ /\ IF found = {} THEN UNCHANGED bad ELSE Fails("directory")
              /\ PutDirh(Dirh, dirhRefs, TRUE, Goto(c, "close"))
              /\ UNCHANGED <<dirf, fsMutex>>
        /\ UNCHANGED <<files, hashes, pobjVars>>

RemoveFile(c) ==
    /\ At(c, "remove_file")
    /\ files' = [files EXCEPT ![th[c].num] = NoFile]
    /\ PutDirh(dirh, dirhRefs - 1, FALSE,
               Unlink(Set(c, [th[c] EXCEPT !.pc = "close", !.num = Null]), th[c].num))
    /\ fsMutex' = Null
    /\ UNCHANGED <<dirf, hashes, pobjVars, bad>>

-----------------------------------------------------------------------------
(* Enumeration *)

\* syscall_storage_start_enum(), ree_fs_opendir_rpc(): there must be an entry.
StartEnum(c) ==
    /\ MayEnum(c) /\ th[c].enum = Null /\ fsMutex = Null
    /\ IF Used(Dirh.dir) = {}
         THEN PutDirh(Dirh, dirhRefs, FALSE,
                      Set(c, [th[c] EXCEPT !.enum = [idx |-> 0, dir |-> "none"]]))
         ELSE PutDirh(Dirh, dirhRefs + 1, FALSE,
                      Set(c, [th[c] EXCEPT !.enum = [idx |-> 0, dir |-> "current"]]))
    /\ UNCHANGED <<diskVars, pobjVars, fsMutex, bad>>

\* syscall_storage_next_enum(), ree_fs_readdir_rpc(): the next entry, from the
\* directory the enumerator was started with, which is used unchecked.
NextEnum(c) ==
    LET rest == {i \in Used(dirh.dir) : i > th[c].enum.idx}
    IN  /\ MayEnum(c) /\ th[c].enum # Null /\ fsMutex = Null
        /\ EnumAlone => th[c].enum.dir # "none"
        /\ CASE th[c].enum.dir = "none" -> th' = Goto(c, "null_dir")
             [] th[c].enum.dir = "stale" -> th' = Goto(c, "stale_dirh")
             [] OTHER ->
                  /\ rest # {}
                  /\ th' = Set(c, [th[c] EXCEPT !.pc = "enum_get", !.enum.idx = Min(rest),
                                                !.ent = dirh.dir[Min(rest)].name])
        /\ UNCHANGED <<diskVars, dirhVars, pobjVars, bad>>

EnumGet(c) ==
    /\ At(c, "enum_get")
    /\ \E p \in PObjs : /\ PobjGet(th[c].ent, {}, "ENUM", p)
                        /\ th' = Set(c, [th[c] EXCEPT !.pc = "enum_open", !.to = p])
    /\ UNCHANGED <<diskVars, dirhVars, bad>>

\* The head of the object is read through a handle that is closed again.
EnumOpen(c) ==
    LET found == Find(Dirh.dir, pobj[th[c].to].name)
        ok == found # {} /\ Opens(Dirh.dir[Min(found)])
    IN  /\ At(c, "enum_open") /\ fsMutex = Null
        /\ PutDirh(Dirh, dirhRefs, ~ok, Set(c, [th[c] EXCEPT !.pc = "release_to", !.ent = Null]))
        /\ UNCHANGED <<diskVars, pobjVars, fsMutex, bad>>

\* syscall_storage_reset_enum(), ree_fs_closedir_rpc(), which asserts that the
\* directory is still the one the enumerator was started with.
ResetEnum(c) ==
    /\ MayEnum(c) /\ th[c].enum # Null /\ fsMutex = Null
    /\ CASE th[c].enum.dir = "none" -> th' = Set(c, [th[c] EXCEPT !.enum = Null])
                                      /\ UNCHANGED <<dirh, dirhRefs>>
         [] th[c].enum.dir = "stale" -> th' = Goto(c, "stale_dirh") /\ UNCHANGED <<dirh, dirhRefs>>
         [] OTHER -> PutDirh(dirh, dirhRefs - 1, FALSE, Set(c, [th[c] EXCEPT !.enum = Null]))
    /\ UNCHANGED <<diskVars, pobjVars, fsMutex, bad>>

-----------------------------------------------------------------------------
\* Power is lost: the storage stays, everything in memory is gone.
PowerCut ==
    /\ bad < MaxBad
    /\ bad' = bad + 1
    /\ dirh' = Null /\ dirhRefs' = 0 /\ fsMutex' = Null
    /\ pobj' = [p \in PObjs |-> FreeObj] /\ tee_pobjs' = <<>>
    /\ th' = [c \in Clients |-> IdleClient]
    /\ UNCHANGED diskVars

Next ==
    \/ \E c \in Clients :
          \/ \E name \in Names :
                \/ \E flags \in OpenFlags : Open(c, name, flags)
                \/ \E flags \in CreateFlags : Create(c, name, flags)
                \/ Rename(c, name)
          \/ OpenFop(c) \/ Close(c) \/ CloseFop(c) \/ Release(c)
          \/ CreateFile(c) \/ CreateFileFails(c) \/ SetName(c) \/ SetNameFails(c)
          \/ RemoveOld(c) \/ CreateFinal(c) \/ CreateTransformed(c)
          \/ Write(c) \/ WriteFails(c) \/ UpdateHash(c) \/ UpdateHashFails(c)
          \/ RenameFop(c) \/ RenamePobj(c) \/ ReleaseTo(c)
          \/ Delete(c) \/ RemoveFop(c) \/ RemoveFile(c)
          \/ StartEnum(c) \/ NextEnum(c) \/ EnumGet(c) \/ EnumOpen(c) \/ ResetEnum(c)
    \/ PowerCut

Spec == Init /\ [][Next]_vars

-----------------------------------------------------------------------------
(* Properties *)

Labels == {"idle", "open", "close", "release", "create", "set_name", "remove_old", "created",
           "update", "rename", "rename_pobj", "release_to", "remove", "remove_file",
           "enum_get", "enum_open", "assert", "null_tree", "null_dir", "stale_dirh"}

\* Every variable has its type.
TypeOK ==
    /\ dirf \in [Idx -> Entries]
    /\ files \in [Numbers -> Files]
    /\ dirh \in Directories \cup {Null}
    /\ dirhRefs \in Nat
    /\ fsMutex \in Clients \cup {Null}
    /\ pobj \in [PObjs -> [refcnt : Nat, name : Names \cup {Null},
                           flags : SUBSET FlagNames, creating : BOOLEAN]]
    /\ tee_pobjs \in Seq(PObjs)
    /\ th \in [Clients -> [pc : Labels, po : PObjs \cup {Null}, to : PObjs \cup {Null},
                           flags : SUBSET FlagNames, num : Numbers \cup {Null},
                           h : Handles \cup {Null}, failed : BOOLEAN,
                           enum : Enumerators \cup {Null}, ent : Names \cup {Null}]]
    /\ hashes \in Hashes
    /\ bad \in 0 .. MaxBad

\* Whenever power is lost, each object that dirf.db lists can be opened: its
\* file exists and has the version that the entry names.
EntriesOpen == \A i \in Used(dirf) : Opens(dirf[i])

\* Two entries never have one name or one file, the directory in memory is the
\* one on disk between two operations, the file numbers it lists are in use,
\* and the entry a handle updates is still that of its file (the assertions of
\* tee_fs_dirfile_find() and tee_fs_dirfile_update_hash()).
DirectoryExact ==
    /\ \A i, j \in Used(dirf) :
          i # j => dirf[i].name # dirf[j].name /\ dirf[i].num # dirf[j].num
    /\ dirh # Null => /\ fsMutex = Null => dirh.dir = dirf
                     /\ \A i \in Used(dirh.dir) : dirh.dir[i].num \in dirh.bits
    /\ \A c \in Clients : ~At(c, "assert")

\* Two handles on one file were opened with flags that allow it, also when the
\* object was renamed between the two: META is exclusive.
ExclusiveAccess ==
    \A c, u \in Clients :
        (c # u /\ th[c].h # Null /\ th[u].h # Null) =>
            \/ th[c].h.num # th[u].h.num
            \/ ~th[c].h.linked \/ ~th[u].h.linked
            \/ CheckAccess(th[c].flags, th[u].flags)

\* The objects in use and the references to the directory are counted exactly,
\* through every error path: none is leaked and none is dropped early.
RefsExact ==
    /\ \A p \in PObjs :
          /\ pobj[p].refcnt = Cardinality({c \in Clients : th[c].po = p})
                              + Cardinality({c \in Clients : th[c].to = p})
          /\ pobj[p].refcnt > 0 <=> \E i \in DOMAIN tee_pobjs : tee_pobjs[i] = p
    /\ dirhRefs = Cardinality({c \in Clients : th[c].h # Null})
                  + Cardinality({c \in Clients : th[c].enum # Null /\ th[c].enum.dir # "none"})
                  + Cardinality({c \in Clients : th[c].pc \in {"update", "remove_file"}})

\* As long as no request failed and power was not lost, each file belongs to an
\* entry, once the create or remove that made the difference is done.
NoOrphanFile ==
    (bad = 0 /\ fsMutex = Null) =>
        \A n \in Numbers : files[n] # NoFile => \E i \in Used(dirf) : dirf[i].num = n

\* Every file operation works with the directory that is open now: none uses
\* the pointer of one that another operation has closed.
DirhIsCurrent == \A c \in Clients : ~At(c, "stale_dirh")

=============================================================================
