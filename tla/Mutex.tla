------------------------------- MODULE Mutex --------------------------------
(***************************************************************************)
(* The sleeping read/write mutex and the condition variables of OP-TEE     *)
(* core (core/kernel/mutex.c) over wait queues (core/kernel/wait_queue.c)  *)
(* and the synchronous notifications of normal world that put a thread to  *)
(* sleep and wake it (core/kernel/notif.c).                                *)
(*                                                                         *)
(* One step is one critical section of a spinlock, or one RPC to normal    *)
(* world: between two of them any other thread may run.  A section that    *)
(* nests wq_spin_lock inside m->spin_lock is one step, because the wait    *)
(* queue and m->state are never read in the same section by a thread that  *)
(* holds wq_spin_lock only.                                                *)
(*                                                                         *)
(* A wait_queue_elem lives on the stack of the thread that waits, so a     *)
(* thread stands for its element.                                          *)
(***************************************************************************)
EXTENDS Integers, Sequences, FiniteSets

CONSTANTS Threads,      \* threads of OP-TEE core
          Condvars,     \* condition variables used with this mutex
          NoCv,         \* the NULL condvar
          MaxCalls      \* bound: calls made in one behaviour, unlocks apart

ASSUME ConstantsAssumption ==
    /\ IsFiniteSet(Threads)
    /\ NoCv \notin Condvars
    /\ MaxCalls \in Nat

VARIABLES
    state,      \* m->state: -1 write locked, 0 unlocked, n > 0 readers
    wq,         \* m->wq: the threads whose element is queued, in order
    wqe,        \* the element of each thread: done, wait_read, cv
    notif,      \* threads with a notification pending in normal world
    linked,     \* the condvars with cv->m set to this mutex
    pc,         \* where each thread is
    mode,       \* how a thread holds the mutex, or wants to
    wake,       \* locals of wq_wake_next(): type of the round, thread to notify
    cont,       \* where a thread goes after wq_wake_next()
    sig,        \* arguments of a condvar call in progress: cv, only_one
    calls       \* calls made so far

vars == <<state, wq, wqe, notif, linked, pc, mode, wake, cont, sig, calls>>

Modes == {"read", "write"}
Labels == {"idle", "held", "retry", "sleep", "check", "wake", "notify",
           "cvlink", "signal"}
WqeType == [done : BOOLEAN, wait_read : BOOLEAN, cv : Condvars \cup {NoCv}]
WakeType == [type : Modes \cup {"none"}, target : Threads]
SigType == [cv : Condvars \cup {NoCv}, only_one : BOOLEAN]

\* Locals of a call that is not in progress; a call resets its own at its end.
NullWqe == [done |-> FALSE, wait_read |-> FALSE, cv |-> NoCv]
NullWake(t) == [type |-> "none", target |-> t]
NullSig == [cv |-> NoCv, only_one |-> TRUE]

\* The mutex is held from the section that changes m->state until the one
\* that changes it back; condvar calls start with the mutex held.
Holds(t) == pc[t] \in {"held", "cvlink", "signal"}

\* MUTEX_INITIALIZER, CONDVAR_INITIALIZER
Init ==
    /\ state = 0
    /\ wq = <<>>
    /\ wqe = [t \in Threads |-> NullWqe]
    /\ notif = {}
    /\ linked = {}
    /\ pc = [t \in Threads |-> "idle"]
    /\ mode = [t \in Threads |-> "write"]
    /\ wake = [t \in Threads |-> NullWake(t)]
    /\ cont = [t \in Threads |-> "idle"]
    /\ sig = [t \in Threads |-> NullSig]
    /\ calls = 0

Call ==
    /\ calls < MaxCalls
    /\ calls' = calls + 1

-----------------------------------------------------------------------------
(* wait_queue.c *)

\* wq_wait_init_condvar(): a fresh element at the tail of the queue.
WaitInit(t, read, cv) ==
    /\ wq' = Append(wq, t)
    /\ wqe' = [wqe EXCEPT ![t] = [done |-> FALSE, wait_read |-> read, cv |-> cv]]

\* The elements wq_wake_next() stops at: not waiting for a condvar, not woken
\* yet and, after the first one, of the type of the round.
Eligible(t, i) ==
    /\ wqe[wq[i]].cv = NoCv
    /\ ~wqe[wq[i]].done
    /\ wake[t].type \in {"none", IF wqe[wq[i]].wait_read THEN "read" ELSE "write"}

\* wq_wake_next() returns.
EndWake(t) ==
    /\ pc' = [pc EXCEPT ![t] = cont[t]]
    /\ wake' = [wake EXCEPT ![t] = NullWake(t)]
    /\ cont' = [cont EXCEPT ![t] = "idle"]

\* One turn of the loop of wq_wake_next() under wq_spin_lock.
WakeNext(t) ==
    /\ pc[t] = "wake"
    /\ \/ /\ \A i \in DOMAIN wq : ~Eligible(t, i)
          /\ EndWake(t)
          /\ UNCHANGED wqe
       \/ \E i \in DOMAIN wq :
             /\ Eligible(t, i)
             /\ \A j \in 1 .. i - 1 : ~Eligible(t, j)
             /\ wqe' = [wqe EXCEPT ![wq[i]].done = TRUE]
             /\ wake' = [wake EXCEPT ![t] =
                    [type |-> IF wqe[wq[i]].wait_read THEN "read" ELSE "write",
                     target |-> wq[i]]]
             /\ pc' = [pc EXCEPT ![t] = "notify"]
             /\ UNCHANGED cont
    /\ UNCHANGED <<state, wq, notif, linked, mode, sig, calls>>

\* notif_send_sync() from wq_wake_next(): the RPC leaves one pending
\* notification for the target.  A round of readers goes on, a round that
\* found a writer ends.
SendNotif_NoToken(t) ==
    /\ pc[t] = "notify"
    /\ IF wake[t].type = "read"
         THEN /\ pc' = [pc EXCEPT ![t] = "wake"]
              /\ UNCHANGED <<wake, cont>>
         ELSE EndWake(t)
    /\ UNCHANGED <<state, wq, wqe, notif, linked, mode, sig, calls>>

SendNotif(t) ==
    /\ pc[t] = "notify"
    /\ notif' = notif \cup {wake[t].target}
    /\ IF wake[t].type = "read"
         THEN /\ pc' = [pc EXCEPT ![t] = "wake"]
              /\ UNCHANGED <<wake, cont>>
         ELSE EndWake(t)
    /\ UNCHANGED <<state, wq, wqe, linked, mode, sig, calls>>

\* notif_wait() from wq_wait_final(): normal world holds the thread until a
\* notification is pending for its id and consumes it.
NotifWait(t) ==
    /\ pc[t] = "sleep"
    /\ t \in notif
    /\ notif' = notif \ {t}
    /\ pc' = [pc EXCEPT ![t] = "check"]
    /\ UNCHANGED <<state, wq, wqe, linked, mode, wake, cont, sig, calls>>

\* The RPC returns without a notification: do_notif() ignores its result.
NotifWaitFails(t) ==
    /\ pc[t] = "sleep"
    /\ pc' = [pc EXCEPT ![t] = "check"]
    /\ UNCHANGED <<state, wq, wqe, notif, linked, mode, wake, cont, sig, calls>>

\* SLIST_REMOVE() of the element of t, which ends its life.
LeaveQueue(t) ==
    /\ \E i \in DOMAIN wq :
          /\ wq[i] = t
          /\ wq' = SubSeq(wq, 1, i - 1) \o SubSeq(wq, i + 1, Len(wq))
    /\ wqe' = [wqe EXCEPT ![t] = NullWqe]

\* The section of wq_wait_final() after the RPC: leave the queue when woken,
\* wait again otherwise.
CheckDone_NoRemove(t) ==
    /\ pc[t] = "check"
    /\ pc' = [pc EXCEPT ![t] = IF wqe[t].done THEN "retry" ELSE "sleep"]
    /\ UNCHANGED <<state, wq, wqe, notif, linked, mode, wake, cont, sig, calls>>

CheckDone(t) ==
    /\ pc[t] = "check"
    /\ IF wqe[t].done
         THEN /\ LeaveQueue(t)
              /\ pc' = [pc EXCEPT ![t] = "retry"]
         ELSE /\ pc' = [pc EXCEPT ![t] = "sleep"]
              /\ UNCHANGED <<wq, wqe>>
    /\ UNCHANGED <<state, notif, linked, mode, wake, cont, sig, calls>>

-----------------------------------------------------------------------------
(* mutex.c: the mutex *)

CanLock(m) == IF m = "write" THEN state = 0 ELSE state # -1

\* The section of __mutex_lock() or __mutex_read_lock(): lock, or queue the
\* element before m->spin_lock is released.
LockSection(t, m) ==
    /\ mode' = [mode EXCEPT ![t] = m]
    /\ IF CanLock(m)
         THEN /\ state' = IF m = "write" THEN -1 ELSE state + 1
              /\ pc' = [pc EXCEPT ![t] = "held"]
              /\ UNCHANGED <<wq, wqe>>
         ELSE /\ WaitInit(t, m = "read", NoCv)
              /\ pc' = [pc EXCEPT ![t] = "sleep"]
              /\ UNCHANGED state
    /\ UNCHANGED <<notif, linked, wake, cont, sig>>

\* mutex_lock() and mutex_read_lock(), first turn of the loop.
Lock(t, m) ==
    /\ pc[t] = "idle"
    /\ Call
    /\ LockSection(t, m)

\* A later turn, after wq_wait_final().
Retry(t) ==
    /\ pc[t] = "retry"
    /\ LockSection(t, mode[t])
    /\ UNCHANGED calls

\* mutex_trylock() and mutex_read_trylock() that succeed; one that fails
\* changes nothing.
TryLock_ReadAnyTime(t, m) ==
    /\ pc[t] = "idle"
    /\ m = "read" \/ CanLock(m)
    /\ Call
    /\ state' = IF m = "write" THEN -1 ELSE state + 1
    /\ mode' = [mode EXCEPT ![t] = m]
    /\ pc' = [pc EXCEPT ![t] = "held"]
    /\ UNCHANGED <<wq, wqe, notif, linked, wake, cont, sig>>

TryLock(t, m) ==
    /\ pc[t] = "idle"
    /\ CanLock(m)
    /\ Call
    /\ state' = IF m = "write" THEN -1 ELSE state + 1
    /\ mode' = [mode EXCEPT ![t] = m]
    /\ pc' = [pc EXCEPT ![t] = "held"]
    /\ UNCHANGED <<wq, wqe, notif, linked, wake, cont, sig>>

\* Start of wq_wake_next(), which returns to label k.
StartWake_ToCaller(t, k) ==
    /\ pc' = [pc EXCEPT ![t] = "wake"]
    /\ wake' = [wake EXCEPT ![t] = NullWake(t)]
    /\ cont' = [cont EXCEPT ![t] = pc[t]]

StartWake(t, k) ==
    /\ pc' = [pc EXCEPT ![t] = "wake"]
    /\ wake' = [wake EXCEPT ![t] = NullWake(t)]
    /\ cont' = [cont EXCEPT ![t] = k]

\* mutex_unlock()
Unlock(t) ==
    /\ pc[t] = "held"
    /\ mode[t] = "write"
    /\ state' = 0
    /\ StartWake(t, "idle")
    /\ UNCHANGED <<wq, wqe, notif, linked, mode, sig, calls>>

\* mutex_read_unlock(): only the last reader wakes.
ReadUnlock_NoWake(t) ==
    /\ pc[t] = "held"
    /\ mode[t] = "read"
    /\ state' = state - 1
    /\ pc' = [pc EXCEPT ![t] = "idle"]
    /\ UNCHANGED <<wq, wqe, notif, linked, mode, wake, cont, sig, calls>>

ReadUnlock(t) ==
    /\ pc[t] = "held"
    /\ mode[t] = "read"
    /\ state' = state - 1
    /\ IF state' = 0
         THEN StartWake(t, "idle")
         ELSE /\ pc' = [pc EXCEPT ![t] = "idle"]
              /\ UNCHANGED <<wake, cont>>
    /\ UNCHANGED <<wq, wqe, notif, linked, mode, sig, calls>>

-----------------------------------------------------------------------------
(* mutex.c: condition variables, called with the mutex held *)

\* condvar_wait(), the section of cv->spin_lock: the condvar stays linked to
\* the mutex until it is initialized again.
CondvarLink(t, cv) ==
    /\ pc[t] = "held"
    /\ Call
    /\ linked' = linked \cup {cv}
    /\ sig' = [sig EXCEPT ![t].cv = cv]
    /\ pc' = [pc EXCEPT ![t] = "cvlink"]
    /\ UNCHANGED <<state, wq, wqe, notif, mode, wake, cont>>

\* condvar_wait(), the section of m->spin_lock: queue as a condvar waiter and
\* give up one lock, the way it is held being read from m->state.
CondvarEnqueue_DropAll(t) ==
    /\ pc[t] = "cvlink"
    /\ WaitInit(t, state > 0, sig[t].cv)
    /\ mode' = [mode EXCEPT ![t] = IF state > 0 THEN "read" ELSE "write"]
    /\ sig' = [sig EXCEPT ![t] = NullSig]
    /\ state' = 0
    /\ StartWake(t, "sleep")
    /\ UNCHANGED <<notif, linked, calls>>

CondvarEnqueue(t) ==
    /\ pc[t] = "cvlink"
    /\ WaitInit(t, state > 0, sig[t].cv)
    /\ mode' = [mode EXCEPT ![t] = IF state > 0 THEN "read" ELSE "write"]
    /\ sig' = [sig EXCEPT ![t] = NullSig]
    /\ state' = IF state > 1 THEN state - 1 ELSE 0
    /\ IF state' = 0
         THEN StartWake(t, "sleep")
         ELSE /\ pc' = [pc EXCEPT ![t] = "sleep"]
              /\ UNCHANGED <<wake, cont>>
    /\ UNCHANGED <<notif, linked, calls>>

\* condvar_signal() and condvar_broadcast(), the read of cv->m.
CondvarSignal(t, cv, only_one) ==
    /\ pc[t] = "held"
    /\ Call
    /\ IF cv \in linked
         THEN /\ sig' = [sig EXCEPT ![t] = [cv |-> cv, only_one |-> only_one]]
              /\ pc' = [pc EXCEPT ![t] = "signal"]
         ELSE UNCHANGED <<sig, pc>>
    /\ UNCHANGED <<state, wq, wqe, notif, linked, mode, wake, cont>>

\* wq_promote_condvar(): waiters of the condvar become waiters of the mutex,
\* the first in the queue or all of them.  Nobody is woken here.
PromoteCondvar(t) ==
    LET Waits(i) == wqe[wq[i]].cv = sig[t].cv
        Chosen == {i \in DOMAIN wq :
                      /\ Waits(i)
                      /\ sig[t].only_one => \A j \in 1 .. i - 1 : ~Waits(j)}
        promoted == {wq[i] : i \in Chosen}
    IN  /\ pc[t] = "signal"
        /\ wqe' = [u \in Threads |->
                      IF u \in promoted THEN [wqe[u] EXCEPT !.cv = NoCv] ELSE wqe[u]]
        /\ pc' = [pc EXCEPT ![t] = "held"]
        /\ sig' = [sig EXCEPT ![t] = NullSig]
        /\ UNCHANGED <<state, wq, notif, linked, mode, wake, cont, calls>>

\* condvar_destroy() of a condvar nobody waits for and no call is using (it
\* panics, or is a use after free by the caller, otherwise).
CondvarDestroy(cv) ==
    /\ cv \in linked
    /\ \A i \in DOMAIN wq : wqe[wq[i]].cv # cv
    /\ \A t \in Threads : pc[t] \in {"cvlink", "signal"} => sig[t].cv # cv
    /\ linked' = linked \ {cv}
    /\ UNCHANGED <<state, wq, wqe, notif, pc, mode, wake, cont, sig, calls>>

-----------------------------------------------------------------------------
\* What a thread does without being asked again: every step but new calls and
\* the failure of a wait RPC.
Step(t) ==
    \/ WakeNext(t)
    \/ SendNotif(t)
    \/ NotifWait(t)
    \/ CheckDone(t)
    \/ Retry(t)
    \/ Unlock(t)
    \/ ReadUnlock(t)
    \/ CondvarEnqueue(t)
    \/ PromoteCondvar(t)

Next ==
    \/ \E t \in Threads :
          \/ Step(t)
          \/ NotifWaitFails(t)
          \/ \E m \in Modes : Lock(t, m) \/ TryLock(t, m)
          \/ \E cv \in Condvars :
                \/ CondvarLink(t, cv)
                \/ \E only_one \in BOOLEAN : CondvarSignal(t, cv, only_one)
    \/ \E cv \in Condvars : CondvarDestroy(cv)

Spec == Init /\ [][Next]_vars

\* Normal world keeps scheduling a thread that can run, and a critical section
\* ends: no thread holds the mutex or leaves a call unfinished for ever.
FairSpec == Spec /\ \A t \in Threads : WF_vars(Step(t))

-----------------------------------------------------------------------------
(* Properties *)

Readers == {t \in Threads : Holds(t) /\ mode[t] = "read"}
Writers == {t \in Threads : Holds(t) /\ mode[t] = "write"}

\* Every variable has its type.
TypeOK ==
    /\ state \in Int
    /\ wq \in Seq(Threads)
    /\ wqe \in [Threads -> WqeType]
    /\ notif \in SUBSET Threads
    /\ linked \in SUBSET Condvars
    /\ pc \in [Threads -> Labels]
    /\ mode \in [Threads -> Modes]
    /\ wake \in [Threads -> WakeType]
    /\ cont \in [Threads -> {"idle", "sleep"}]
    /\ sig \in [Threads -> SigType]
    /\ calls \in 0 .. MaxCalls

\* A writer that holds the mutex holds it alone, across every path that gives
\* the lock back and takes it again (unlock, condvar_wait, retry).
Exclusion == \A w \in Writers : Readers \cup Writers = {w}

\* m->state counts exactly the threads that hold the mutex.
StateCounts ==
    state = IF Writers # {} THEN -1 ELSE Cardinality(Readers)

\* Thread t is queued for the mutex and nobody has woken it.
Active(t) == \E i \in DOMAIN wq : wq[i] = t /\ wqe[t].cv = NoCv /\ ~wqe[t].done

\* A free mutex with a waiter that is neither woken nor waiting for a condvar
\* always has somebody who will look at the queue again: the wake-up after an
\* unlock cannot be missed between the failed attempt and the sleep.
NoLostWakeup ==
    (state = 0 /\ \E t \in Threads : Active(t)) =>
        \/ \E t \in Threads : pc[t] \in {"wake", "notify", "retry"}
        \/ \E i \in DOMAIN wq : wqe[wq[i]].done

\* A woken thread that is still asleep has its notification pending or on its
\* way: an element is marked done once and the matching RPC is never skipped.
WokenIsNotified ==
    \A t \in Threads :
        (pc[t] = "sleep" /\ wqe[t].done) =>
            \/ t \in notif
            \/ \E u \in Threads : pc[u] = "notify" /\ wake[u].target = t

\* The queue points at the stack of a waiting thread only while that thread is
\* in the function whose frame holds the element, and to one element at most.
NoDanglingElement ==
    /\ \A i, j \in DOMAIN wq : wq[i] = wq[j] => i = j
    /\ \A t \in Threads :
          (\E i \in DOMAIN wq : wq[i] = t) <=>
              \/ pc[t] \in {"sleep", "check"}
              \/ pc[t] \in {"wake", "notify"} /\ cont[t] = "sleep"

\* A waiter of the mutex (not of a condvar) gets it, once the others stop
\* calling: no wake-up is lost and no thread is left behind in the queue.
WaiterGetsLock ==
    \A t \in Threads : (pc[t] = "sleep" /\ wqe[t].cv = NoCv) ~> Holds(t)

\* The detailed lock implements the abstract one.
RW == INSTANCE RWLock WITH
          holder <- [t \in Threads |-> IF Holds(t) THEN mode[t] ELSE "none"]
ImplementsRWLock == RW!Spec

=============================================================================
