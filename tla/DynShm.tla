------------------------------- MODULE DynShm -------------------------------
(***************************************************************************)
(* Shared memory registered by normal world                                *)
(* (core/arch/arm/mm/mobj_dyn_shm.c): reference and map counters, lookup   *)
(* by cookie, and the release by cookie that waits until nobody uses the   *)
(* memory.                                                                 *)
(*                                                                         *)
(* One step is one section of reg_shm_slist_lock or reg_shm_map_lock, one  *)
(* atomic operation on a reference counter, or one operation on shm_mu and *)
(* its condition variable (their own code is module Mutex).  A counter     *)
(* leaves 0 only in a section of the map lock, so a test for 0 in such a   *)
(* section stays true to its end.                                          *)
(*                                                                         *)
(* Normal world gives a cookie to one registration at a time, and names it *)
(* in a parameter of a call only after the registration and not at the     *)
(* same time as it releases it.  It may release it while calls that found  *)
(* the memory still use it, and may release it twice.                      *)
(***************************************************************************)
EXTENDS Integers, FiniteSets

CONSTANTS Threads,      \* threads of OP-TEE core
          Cookies,      \* names of shared memory
          None          \* no thread, no cookie

ASSUME NoneAssumption == None \notin Threads /\ None \notin Cookies
ASSUME ThreadsAssumption == IsFiniteSet(Threads)

VARIABLES
    shm,        \* struct mobj_reg_shm of each cookie
    th,         \* where each thread is
    shm_mu,     \* the thread that holds the mutex
    shm_release_waiters

vars == <<shm, th, shm_mu, shm_release_waiters>>

\* No memory is registered for the cookie: it is not in reg_shm_list.
Free == [live |-> FALSE, refc |-> 0, mapcount |-> 0, mm |-> FALSE,
         guarded |-> FALSE, releasing |-> FALSE, release_frees |-> FALSE]

\* "rel": the thread is in mobj_reg_shm_release_by_cookie().  "map": it counts
\* in mapcount and may use the virtual address.
Idle == [pc |-> "idle", c |-> None, rel |-> FALSE, map |-> FALSE]

Init ==
    /\ shm = [c \in Cookies |-> Free]
    /\ th = [t \in Threads |-> Idle]
    /\ shm_mu = None
    /\ shm_release_waiters = 0

At(t, label) == th[t].pc = label
Goto(t, label) == th' = [th EXCEPT ![t].pc = label]
Return(t) == th' = [th EXCEPT ![t] = Idle]

-----------------------------------------------------------------------------
(* Registration, lookup and use *)

\* mobj_reg_shm_alloc(): a new element with one reference, in the list.  Pages
\* that are refused, or no memory for the element: nothing changes.
Alloc(t, c, label) ==
    /\ At(t, "idle")
    /\ ~shm[c].live
    /\ shm' = [shm EXCEPT ![c] = [Free EXCEPT !.live = TRUE, !.refc = 1, !.guarded = TRUE]]
    /\ th' = [th EXCEPT ![t] = [Idle EXCEPT !.pc = label, !.c = c]]
    /\ UNCHANGED <<shm_mu, shm_release_waiters>>

\* register_shm(): the reference becomes that of the registration.
RegisterShm(t, c) == Alloc(t, c, "unguard")

\* Memory of one call, guarded until its last mobj_put(): temporary parameters
\* and RPC payloads, which mobj_mapped_shm_alloc() maps.
TempShm(t, c) == Alloc(t, c, "hold")
MappedShmAlloc(t, c) == Alloc(t, c, "inc_map")

Unguard(t) ==
    /\ At(t, "unguard")
    /\ shm' = [shm EXCEPT ![th[t].c].guarded = FALSE]
    /\ Return(t)
    /\ UNCHANGED <<shm_mu, shm_release_waiters>>

\* mobj_reg_shm_get_by_cookie(): found under the lock, referenced after it.
Find(t, c) ==
    /\ At(t, "idle")
    /\ shm[c].live /\ ~shm[c].guarded /\ ~shm[c].releasing
    /\ th' = [th EXCEPT ![t] = [Idle EXCEPT !.pc = "get", !.c = c]]
    /\ UNCHANGED <<shm, shm_mu, shm_release_waiters>>

\* mobj_get(), which panics when the counter is 0.
Get(t) ==
    /\ At(t, "get")
    /\ IF shm[th[t].c].refc = 0
         THEN UNCHANGED shm /\ Goto(t, "panic")
         ELSE /\ shm' = [shm EXCEPT ![th[t].c].refc = @ + 1]
              /\ Goto(t, "hold")
    /\ UNCHANGED <<shm_mu, shm_release_waiters>>

-----------------------------------------------------------------------------
(* Mapping in the address space of the core *)

\* mobj_reg_shm_inc_map(): the attempt without the lock, by the user of the
\* memory ("hold") or in the loop.
IncMap(t) ==
    /\ th[t].pc \in {"hold", "inc_map"}
    /\ ~th[t].map
    /\ IF shm[th[t].c].mapcount > 0
         THEN /\ shm' = [shm EXCEPT ![th[t].c].mapcount = @ + 1]
              /\ th' = [th EXCEPT ![t].pc = "hold", ![t].map = TRUE]
         ELSE /\ UNCHANGED shm
              /\ Goto(t, "map_lock")
    /\ UNCHANGED <<shm_mu, shm_release_waiters>>

\* Under the map lock: start again when another thread was first, else map the
\* pages unless they still are.
MapLocked(t) ==
    LET c == th[t].c
    IN  /\ At(t, "map_lock")
        /\ IF shm[c].mapcount > 0
             THEN UNCHANGED shm /\ Goto(t, "inc_map")
             ELSE /\ shm' = [shm EXCEPT ![c].mm = TRUE, ![c].mapcount = 1]
                  /\ th' = [th EXCEPT ![t].pc = "hold", ![t].map = TRUE]
        /\ UNCHANGED <<shm_mu, shm_release_waiters>>

MapFails_KeepMm(t) ==
    /\ At(t, "map_lock")
    /\ shm[th[t].c].mapcount = 0 /\ ~shm[th[t].c].mm
    /\ shm' = [shm EXCEPT ![th[t].c].mm = TRUE]
    /\ Goto(t, "put")
    /\ UNCHANGED <<shm_mu, shm_release_waiters>>

\* No address space or no translation table is left: nothing is mapped, and
\* every caller gives the memory up.
MapFails(t) ==
    /\ At(t, "map_lock")
    /\ shm[th[t].c].mapcount = 0 /\ ~shm[th[t].c].mm
    /\ Goto(t, "put")
    /\ UNCHANGED <<shm, shm_mu, shm_release_waiters>>

\* mobj_reg_shm_dec_map()
DecMap(t) ==
    LET n == shm[th[t].c].mapcount - 1
    IN  /\ At(t, "hold") /\ th[t].map
        /\ shm' = [shm EXCEPT ![th[t].c].mapcount = n]
        /\ th' = [th EXCEPT ![t].pc = IF n = 0 THEN "unmap" ELSE "hold", ![t].map = FALSE]
        /\ UNCHANGED <<shm_mu, shm_release_waiters>>

Unmap(t) ==
    /\ At(t, "unmap")
    /\ shm' = [shm EXCEPT ![th[t].c].mm = @ /\ shm[th[t].c].mapcount > 0]
    /\ Goto(t, "hold")
    /\ UNCHANGED <<shm_mu, shm_release_waiters>>

-----------------------------------------------------------------------------
(* mobj_put() and mobj_reg_shm_free() *)

\* mobj_put(): the last one frees the element.  Its user has unmapped what it
\* mapped, but for memory of one call, which is freed with its mapping.
PutGuard(t) ==
    \/ th[t].pc \in {"put", "rel_put"}
    \/ At(t, "hold") /\ (th[t].map => shm[th[t].c].guarded)

Put_ReleaseNoFree(t) ==
    LET n == shm[th[t].c].refc - 1
    IN  /\ PutGuard(t)
        /\ shm' = [shm EXCEPT ![th[t].c].refc = n]
        /\ IF th[t].rel THEN Goto(t, "rel_lock")
           ELSE IF n = 0 THEN Goto(t, "free") ELSE Return(t)
        /\ UNCHANGED <<shm_mu, shm_release_waiters>>

Put(t) ==
    LET n == shm[th[t].c].refc - 1
    IN  /\ PutGuard(t)
        /\ shm' = [shm EXCEPT ![th[t].c].refc = n]
        /\ IF n = 0 THEN Goto(t, "free")
           ELSE IF th[t].rel THEN Goto(t, "rel_lock") ELSE Return(t)
        /\ UNCHANGED <<shm_mu, shm_release_waiters>>

\* mobj_reg_shm_free(): who frees is decided without a lock.
FreeDecide(t) ==
    /\ At(t, "free")
    /\ Goto(t, IF shm[th[t].c].guarded /\ ~shm[th[t].c].releasing
                 THEN "free_helper" ELSE "release_frees")
    /\ UNCHANGED <<shm, shm_mu, shm_release_waiters>>

\* reg_shm_free_helper(): unmapped, out of the list, and freed.
FreeHelper(t) ==
    /\ At(t, "free_helper")
    /\ shm' = [shm EXCEPT ![th[t].c] = Free]
    /\ Return(t)
    /\ UNCHANGED <<shm_mu, shm_release_waiters>>

SetReleaseFrees(t) ==
    /\ At(t, "release_frees")
    /\ shm' = [shm EXCEPT ![th[t].c].release_frees = TRUE]
    /\ Goto(t, "notify")
    /\ UNCHANGED <<shm_mu, shm_release_waiters>>

NotifyLock(t) ==
    /\ At(t, "notify")
    /\ shm_mu = None
    /\ shm_mu' = t
    /\ Goto(t, "broadcast")
    /\ UNCHANGED <<shm, shm_release_waiters>>

\* condvar_broadcast() when there are waiters, and the unlock.
Broadcast(t) ==
    LET woken == IF shm_release_waiters > 0 THEN {u \in Threads : At(u, "rel_wait")} ELSE {}
    IN  /\ At(t, "broadcast")
        /\ shm_mu' = None
        /\ th' = [u \in Threads |->
                     IF u \in woken THEN [th[u] EXCEPT !.pc = "rel_relock"]
                     ELSE IF u # t THEN th[u]
                     ELSE IF th[t].rel THEN [th[t] EXCEPT !.pc = "rel_lock"] ELSE Idle]
        /\ UNCHANGED <<shm, shm_release_waiters>>

-----------------------------------------------------------------------------
(* mobj_reg_shm_release_by_cookie() *)

Releasable_Again(c) == shm[c].live /\ ~shm[c].guarded

\* The cookie can be released: it is registered and this is the first attempt.
\* Any other call returns TEE_ERROR_BAD_PARAMETERS and changes nothing.
Releasable(c) == shm[c].live /\ ~shm[c].guarded /\ ~shm[c].releasing

Release(t, c) ==
    /\ At(t, "idle")
    /\ \A u \in Threads : At(u, "get") => th[u].c # c
    /\ Releasable(c)
    /\ shm' = [shm EXCEPT ![c].releasing = TRUE]
    /\ th' = [th EXCEPT ![t] = [Idle EXCEPT !.pc = "rel_put", !.c = c, !.rel = TRUE]]
    /\ UNCHANGED <<shm_mu, shm_release_waiters>>

ReleaseLock_NoCount(t) ==
    /\ At(t, "rel_lock")
    /\ shm_mu = None
    /\ shm_mu' = t
    /\ Goto(t, "rel_check")
    /\ UNCHANGED <<shm, shm_release_waiters>>

\* The mutex is taken for the first time.
ReleaseLock(t) ==
    /\ At(t, "rel_lock")
    /\ shm_mu = None
    /\ shm_mu' = t
    /\ shm_release_waiters' = shm_release_waiters + 1
    /\ Goto(t, "rel_check")
    /\ UNCHANGED shm

ReleaseCheck_Refc(t) ==
    /\ At(t, "rel_check")
    /\ IF shm[th[t].c].refc = 0
         THEN /\ shm' = [shm EXCEPT ![th[t].c] = Free]
              /\ th' = [th EXCEPT ![t].pc = "rel_exit", ![t].c = None]
              /\ UNCHANGED shm_mu
         ELSE /\ UNCHANGED shm
              /\ shm_mu' = None
              /\ Goto(t, "rel_wait")
    /\ UNCHANGED shm_release_waiters

\* Free the element, or give the mutex back and wait.
ReleaseCheck(t) ==
    /\ At(t, "rel_check")
    /\ IF shm[th[t].c].release_frees
         THEN /\ shm' = [shm EXCEPT ![th[t].c] = Free]
              /\ th' = [th EXCEPT ![t].pc = "rel_exit", ![t].c = None]
              /\ UNCHANGED shm_mu
         ELSE /\ UNCHANGED shm
              /\ shm_mu' = None
              /\ Goto(t, "rel_wait")
    /\ UNCHANGED shm_release_waiters

\* condvar_wait() returns with the mutex.
ReleaseRelock(t) ==
    /\ At(t, "rel_relock")
    /\ shm_mu = None
    /\ shm_mu' = t
    /\ Goto(t, "rel_check")
    /\ UNCHANGED <<shm, shm_release_waiters>>

ReleaseExit(t) ==
    /\ At(t, "rel_exit")
    /\ shm_release_waiters' = shm_release_waiters - 1
    /\ shm_mu' = None
    /\ Return(t)
    /\ UNCHANGED shm

-----------------------------------------------------------------------------
\* The steps a thread takes inside a function, and those that take the mutex.
Inside(t) ==
    \/ Unguard(t) \/ Get(t) \/ MapLocked(t) \/ MapFails(t) \/ Unmap(t)
    \/ FreeDecide(t) \/ FreeHelper(t) \/ SetReleaseFrees(t) \/ Broadcast(t)
    \/ ReleaseCheck(t) \/ ReleaseExit(t)

TakesMutex(t) == NotifyLock(t) \/ ReleaseLock(t) \/ ReleaseRelock(t)

Next ==
    \E t \in Threads :
        \/ \E c \in Cookies : RegisterShm(t, c) \/ TempShm(t, c) \/ MappedShmAlloc(t, c)
                              \/ Find(t, c) \/ Release(t, c)
        \/ Inside(t) \/ TakesMutex(t)
        \/ IncMap(t) \/ DecMap(t) \/ Put(t)

Spec == Init /\ [][Next]_vars

\* A thread that can run is scheduled, a waiter of the mutex gets it
\* (Mutex!WaiterGetsLock), and a call on the memory ends: its user unmaps it
\* and puts it in the end, whatever else it may do before.
Fairness ==
    \A t \in Threads : /\ WF_vars(Inside(t))
                       /\ SF_vars(TakesMutex(t))
                       /\ WF_vars(At(t, "inc_map") /\ IncMap(t))
                       /\ WF_vars(DecMap(t))
                       /\ SF_vars(Put(t))

FairSpec == Spec /\ Fairness

-----------------------------------------------------------------------------
(* Properties *)

UserLabels == {"hold", "inc_map", "map_lock", "unmap", "put"}
ReleaseLabels == {"rel_put", "rel_lock", "rel_check", "rel_wait", "rel_relock"}
Labels == UserLabels \cup ReleaseLabels
          \cup {"idle", "unguard", "get", "panic", "free", "free_helper",
                "release_frees", "notify", "broadcast", "rel_exit"}

\* Every variable has its type.
TypeOK ==
    /\ shm \in [Cookies -> [live : BOOLEAN, refc : Nat, mapcount : Nat, mm : BOOLEAN,
                             guarded : BOOLEAN, releasing : BOOLEAN, release_frees : BOOLEAN]]
    /\ th \in [Threads -> [pc : Labels, c : Cookies \cup {None}, rel : BOOLEAN, map : BOOLEAN]]
    /\ shm_mu \in Threads \cup {None}
    /\ shm_release_waiters \in Nat

\* The labels of a thread that will still read or write the element: those of
\* its users, of its last mobj_put() and of the release before it frees it.
Touches == UserLabels \cup {"unguard", "get", "free", "free_helper", "release_frees"}
UsesElement(t) == th[t].pc \in Touches \/ (th[t].rel /\ th[t].pc # "rel_exit")

\* An element is freed only when no thread will touch it again: neither a user
\* that found it, nor the release that waits, nor the last mobj_put(), nor a
\* lookup that has found it and not yet referenced it, which never panics.
NoUseAfterFree ==
    \A t \in Threads : /\ UsesElement(t) => shm[th[t].c].live
                       /\ th[t].pc # "panic"

\* The references of an element: those of its users, and that of the
\* registration until the release gives it up.
Users(c) == {t \in Threads : th[t].c = c /\ th[t].pc \in UserLabels}
OwnRef(c) == IF \/ \E t \in Threads : th[t].c = c /\ th[t].pc \in {"unguard", "rel_put"}
                \/ shm[c].live /\ ~shm[c].guarded /\ ~shm[c].releasing
             THEN 1 ELSE 0

\* refc and mapcount count exactly what they stand for, whatever the order of
\* lookups, last puts and a release: neither can wrap below 0.
CountersExact ==
    \A c \in Cookies :
        /\ shm[c].refc = Cardinality(Users(c)) + OwnRef(c)
        /\ (shm[c].live /\ shm[c].refc > 0) =>
              shm[c].mapcount = Cardinality({t \in Users(c) : th[t].map})

\* Memory that a thread has mapped stays mapped until it gives its mapping up
\* (a late dec_map() of another thread never unmaps it), and no mapping is
\* forgotten: one that nobody counts in is about to be unmapped by its last
\* user.
MappedWhileUsed ==
    /\ \A t \in Threads : (At(t, "hold") /\ th[t].map) => shm[th[t].c].mm
    /\ \A c \in Cookies :
          (shm[c].mm /\ shm[c].mapcount = 0) =>
              \E t \in Threads : At(t, "unmap") /\ th[t].c = c

\* A release that sleeps while its memory can be freed has a broadcast coming.
NoLostWakeup ==
    \A t \in Threads :
        (At(t, "rel_wait") /\ shm[th[t].c].release_frees) =>
            \E u \in Threads : th[u].pc \in {"notify", "broadcast"}

\* The release of a cookie returns, once its users are done: OP-TEE gives the
\* memory back.
ReleaseReturns == \A t \in Threads : At(t, "rel_put") ~> At(t, "idle")

=============================================================================
