-------------------------- MODULE MutexQueueProofs --------------------------
(***************************************************************************)
(* Proofs about the wait queue of Mutex, for every set of threads, every   *)
(* set of condition variables and every bound on the calls: its elements   *)
(* are those of the threads that wait, a woken thread is notified, and no  *)
(* wake-up is lost.                                                        *)
(***************************************************************************)
EXTENDS MutexProofs, SequenceTheorems

-----------------------------------------------------------------------------
(* The queue as a set *)

\* The threads whose element is in the queue, and that it is there once.
Queued == {wq[i] : i \in DOMAIN wq}
QueuedOnce == \A i, j \in DOMAIN wq : wq[i] = wq[j] => i = j

\* wq_wait_init() of a thread that is not queued adds it to the queue, once.
LEMMA AppendQueued ==
    ASSUME TypeOK, QueuedOnce, NEW t \in Threads, t \notin Queued,
           wq' = Append(wq, t)
    PROVE  /\ QueuedOnce'
           /\ Queued' = Queued \cup {t}
<1>1. /\ DOMAIN wq = 1 .. Len(wq)
      /\ DOMAIN wq' = 1 .. Len(wq) + 1
      /\ \A i \in DOMAIN wq : wq'[i] = wq[i]
      /\ wq'[Len(wq) + 1] = t
      /\ Len(wq) \in Nat
  BY DEF TypeOK
<1>2. QueuedOnce'
  BY <1>1 DEF QueuedOnce, Queued
<1>3. Queued' = Queued \cup {t}
  BY <1>1 DEF Queued
<1> QED
  BY <1>2, <1>3

\* SLIST_REMOVE() takes the element of the thread out and leaves the others.
LEMMA LeaveQueued ==
    ASSUME TypeOK, QueuedOnce, NEW t \in Threads, LeaveQueue(t)
    PROVE  /\ QueuedOnce'
           /\ Queued' = Queued \ {t}
<1>1. PICK k \in DOMAIN wq :
         wq[k] = t /\ wq' = SubSeq(wq, 1, k - 1) \o SubSeq(wq, k + 1, Len(wq))
  BY DEF LeaveQueue
<1>2. wq \in Seq(Threads) /\ Len(wq) \in Nat /\ DOMAIN wq = 1 .. Len(wq)
  BY DEF TypeOK
<1>3. /\ DOMAIN wq' = 1 .. Len(wq) - 1
      /\ \A i \in 1 .. Len(wq) - 1 : wq'[i] = IF i < k THEN wq[i] ELSE wq[i + 1]
  <2>1. PICK front, back :
           /\ front = SubSeq(wq, 1, k - 1)
           /\ back = SubSeq(wq, k + 1, Len(wq))
           /\ wq' = front \o back
    BY <1>1
  <2>2. /\ front \in Seq(Threads)
        /\ Len(front) = k - 1
        /\ \A i \in 1 .. k - 1 : front[i] = wq[i]
    BY <1>2, <2>1
  <2>3. /\ back \in Seq(Threads)
        /\ Len(back) = Len(wq) - k
        /\ \A i \in 1 .. Len(wq) - k : back[i] = wq[k + i]
    BY <1>2, <2>1
  <2>4. /\ wq' \in Seq(Threads)
        /\ Len(wq') = Len(front) + Len(back)
        /\ \A i \in 1 .. Len(front) + Len(back) :
              wq'[i] = IF i <= Len(front) THEN front[i] ELSE back[i - Len(front)]
    <3>1. wq' = front \o back
      BY <2>1
    <3> QED
      BY <2>2, <2>3, <3>1, ConcatProperties, Zenon
  <2>5. Len(wq') = Len(wq) - 1
    BY <1>2, <2>2, <2>3, <2>4
  <2>6. DOMAIN wq' = 1 .. Len(wq) - 1
    BY <2>4, <2>5
  <2>7. ASSUME NEW i \in 1 .. Len(wq) - 1
        PROVE  wq'[i] = IF i < k THEN wq[i] ELSE wq[i + 1]
    <3>1. i \in 1 .. Len(front) + Len(back)
      BY <1>2, <2>2, <2>3
    <3>2. CASE i < k
      <4>1. wq'[i] = front[i]
        BY <1>2, <2>2, <2>4, <3>1, <3>2
      <4> QED
        BY <1>2, <2>2, <3>2, <4>1
    <3>3. CASE ~(i < k)
      <4>1. wq'[i] = back[i - (k - 1)]
        BY <1>2, <2>2, <2>4, <3>1, <3>3
      <4>2. i - (k - 1) \in 1 .. Len(wq) - k /\ k + (i - (k - 1)) = i + 1
        BY <1>2, <3>3
      <4> QED
        BY <2>3, <3>3, <4>1, <4>2
    <3> QED
      BY <3>2, <3>3
  <2> QED
    BY <2>6, <2>7
<1>4. ASSUME NEW i \in DOMAIN wq'
      PROVE  \E j \in DOMAIN wq : /\ j # k
                                  /\ wq'[i] = wq[j]
                                  /\ j = IF i < k THEN i ELSE i + 1
  BY <1>2, <1>3
<1>5. QueuedOnce'
  <2> SUFFICES ASSUME NEW i \in DOMAIN wq', NEW j \in DOMAIN wq', wq'[i] = wq'[j]
               PROVE  i = j
    BY DEF QueuedOnce
  <2>1. i \in Int /\ j \in Int /\ k \in Int
    BY <1>2, <1>3
  <2> QED
    BY <1>4, <2>1 DEF QueuedOnce
<1>6. ASSUME NEW i \in DOMAIN wq' PROVE wq'[i] \in Queued \ {t}
  <2>1. PICK j \in DOMAIN wq : j # k /\ wq'[i] = wq[j]
    BY <1>4
  <2> QED
    BY <1>1, <2>1 DEF Queued, QueuedOnce
<1>7. ASSUME NEW j \in DOMAIN wq, wq[j] # t PROVE wq[j] \in Queued'
  <2>1. CASE j < k
    BY <1>2, <1>3, <2>1 DEF Queued
  <2>2. CASE j > k
    <3>1. j - 1 \in DOMAIN wq' /\ wq'[j - 1] = wq[j]
      BY <1>2, <1>3, <2>2
    <3> QED
      BY <3>1 DEF Queued
  <2> QED
    BY <1>1, <1>2, <1>7, <2>1, <2>2
<1>8. Queued' = Queued \ {t}
  BY <1>6, <1>7 DEF Queued
<1> QED
  BY <1>5, <1>8

-----------------------------------------------------------------------------
(* The queue holds the elements of the threads that wait *)

\* The functions whose frame holds the element of t: from wq_wait_init() to
\* the removal in wq_wait_final(), the wake-up that condvar_wait() sends in
\* between included.
Waits(t) == \/ pc[t] \in {"sleep", "check"}
            \/ pc[t] \in {"wake", "notify"} /\ cont[t] = "sleep"

\* NoDanglingElement in terms of the set of queued threads.
QueueInv == QueuedOnce /\ \A t \in Threads : t \in Queued <=> Waits(t)

\* The two forms say the same.
LEMMA QueueInvIsNoDangling == NoDanglingElement <=> QueueInv
  BY DEF NoDanglingElement, QueueInv, QueuedOnce, Queued, Waits

\* A step that leaves the queue alone and nobody's waiting changed.
LEMMA SameQueue ==
    ASSUME QueueInv, wq' = wq, \A t \in Threads : Waits(t)' <=> Waits(t)
    PROVE  QueueInv'
  BY DEF QueueInv, QueuedOnce, Queued

\* A thread that starts to wait is put in the queue.
LEMMA JoinQueue ==
    ASSUME TypeOK, QueueInv, NEW t \in Threads, ~Waits(t), wq' = Append(wq, t),
           Waits(t)', \A u \in Threads \ {t} : Waits(u)' <=> Waits(u)
    PROVE  QueueInv'
<1>1. QueuedOnce' /\ Queued' = Queued \cup {t}
  BY AppendQueued DEF QueueInv
<1> QED
  BY <1>1 DEF QueueInv

\* Every section keeps the queue equal to the threads that wait.
LEMMA QueueStep == TypeOK /\ QueueInv /\ [Next]_vars => QueueInv'
<1> SUFFICES ASSUME TypeOK, QueueInv, [Next]_vars PROVE QueueInv'
  OBVIOUS
<1>1. ASSUME NEW t \in Threads, WakeNext(t) PROVE QueueInv'
  <2>1. \/ EndWake(t)
        \/ pc' = [pc EXCEPT ![t] = "notify"] /\ UNCHANGED cont
    BY <1>1 DEF WakeNext
  <2>2. \A u \in Threads : Waits(u)' <=> Waits(u)
    BY <1>1, <2>1 DEF WakeNext, EndWake, Waits, TypeOK
  <2> QED
    BY <1>1, <2>2, SameQueue DEF WakeNext
<1>2. ASSUME NEW t \in Threads, SendNotif(t) PROVE QueueInv'
  <2>1. \A u \in Threads : Waits(u)' <=> Waits(u)
    BY <1>2 DEF SendNotif, EndWake, Waits, TypeOK
  <2> QED
    BY <1>2, <2>1, SameQueue DEF SendNotif
<1>3. ASSUME NEW t \in Threads, NotifWait(t) \/ NotifWaitFails(t) PROVE QueueInv'
  <2>1. \A u \in Threads : Waits(u)' <=> Waits(u)
    BY <1>3 DEF NotifWait, NotifWaitFails, Waits, TypeOK
  <2> QED
    BY <1>3, <2>1, SameQueue DEF NotifWait, NotifWaitFails
<1>4. ASSUME NEW t \in Threads, CheckDone(t) PROVE QueueInv'
  <2>1. CASE wqe[t].done
    <3>1. QueuedOnce' /\ Queued' = Queued \ {t}
      BY <1>4, <2>1, LeaveQueued DEF CheckDone, QueueInv
    <3>2. ~Waits(t)' /\ \A u \in Threads \ {t} : Waits(u)' <=> Waits(u)
      BY <1>4, <2>1 DEF CheckDone, Waits, TypeOK
    <3> QED
      BY <3>1, <3>2 DEF QueueInv
  <2>2. CASE ~wqe[t].done
    <3>1. \A u \in Threads : Waits(u)' <=> Waits(u)
      BY <1>4, <2>2 DEF CheckDone, Waits, TypeOK
    <3> QED
      BY <1>4, <2>2, <3>1, SameQueue DEF CheckDone
  <2> QED
    BY <2>1, <2>2
<1>5. ASSUME NEW t \in Threads, NEW m \in Modes, LockSection(t, m), ~Waits(t),
             pc[t] \in {"idle", "retry"}
      PROVE  QueueInv'
  <2>1. CASE CanLock(m)
    <3>1. \A u \in Threads : Waits(u)' <=> Waits(u)
      BY <1>5, <2>1 DEF LockSection, Waits, TypeOK
    <3> QED
      BY <1>5, <2>1, <3>1, SameQueue DEF LockSection
  <2>2. CASE ~CanLock(m)
    <3>1. Waits(t)' /\ \A u \in Threads \ {t} : Waits(u)' <=> Waits(u)
      BY <1>5, <2>2 DEF LockSection, Waits, TypeOK
    <3> QED
      BY <1>5, <2>2, <3>1, JoinQueue DEF LockSection, WaitInit
  <2> QED
    BY <2>1, <2>2
<1>6. ASSUME NEW t \in Threads, Retry(t) PROVE QueueInv'
  <2>1. mode[t] \in Modes /\ ~Waits(t)
    BY <1>6 DEF Retry, Waits, TypeOK
  <2> QED
    BY <1>5, <1>6, <2>1 DEF Retry
<1>7. ASSUME NEW t \in Threads, NEW m \in Modes, Lock(t, m) PROVE QueueInv'
  BY <1>5, <1>7 DEF Lock, Waits
<1>8. ASSUME NEW t \in Threads, NEW m \in Modes, TryLock(t, m) PROVE QueueInv'
  <2>1. \A u \in Threads : Waits(u)' <=> Waits(u)
    BY <1>8 DEF TryLock, Waits, TypeOK
  <2> QED
    BY <1>8, <2>1, SameQueue DEF TryLock
<1>9. ASSUME NEW t \in Threads, Unlock(t) \/ ReadUnlock(t) PROVE QueueInv'
  <2>1. \A u \in Threads : Waits(u)' <=> Waits(u)
    BY <1>9 DEF Unlock, ReadUnlock, StartWake, Waits, TypeOK
  <2> QED
    BY <1>9, <2>1, SameQueue DEF Unlock, ReadUnlock
<1>10. ASSUME NEW t \in Threads, CondvarEnqueue(t) PROVE QueueInv'
  <2>1. /\ ~Waits(t) /\ Waits(t)'
        /\ \A u \in Threads \ {t} : Waits(u)' <=> Waits(u)
    BY <1>10 DEF CondvarEnqueue, StartWake, Waits, TypeOK
  <2> QED
    BY <1>10, <2>1, JoinQueue DEF CondvarEnqueue, WaitInit
<1>11. ASSUME NEW t \in Threads,
              \/ PromoteCondvar(t)
              \/ \E cv \in Condvars :
                    \/ CondvarLink(t, cv)
                    \/ \E only_one \in BOOLEAN : CondvarSignal(t, cv, only_one)
       PROVE  QueueInv'
  <2>1. /\ pc[t] \in {"held", "signal"}
        /\ \E l \in {"held", "signal", "cvlink"} : pc' = [pc EXCEPT ![t] = l]
        /\ UNCHANGED <<wq, cont>>
    BY <1>11 DEF PromoteCondvar, CondvarLink, CondvarSignal, TypeOK
  <2>2. \A u \in Threads : Waits(u)' <=> Waits(u)
    BY <2>1 DEF Waits, TypeOK
  <2> QED
    BY <2>1, <2>2, SameQueue
<1>12. ASSUME NEW cv \in Condvars, CondvarDestroy(cv) PROVE QueueInv'
  BY <1>12, SameQueue DEF CondvarDestroy, Waits
<1>13. CASE UNCHANGED vars
  BY <1>13, SameQueue DEF vars, Waits
<1> QED
  BY <1>1, <1>2, <1>3, <1>4, <1>6, <1>7, <1>8, <1>9, <1>10, <1>11, <1>12, <1>13
     DEF Next, Step

\* The queue of the mutex never points at the stack of a thread that has left
\* the function its element lives in, and never twice at the same element.
THEOREM QueueCorrect == Spec => []NoDanglingElement
<1>1. Init => QueueInv
  BY DEF Init, QueueInv, QueuedOnce, Queued, Waits
<1> QED
  BY <1>1, QueueStep, QueueInvIsNoDangling, TypeCorrect, PTL DEF Spec

-----------------------------------------------------------------------------
(* A woken thread is notified *)

\* The notification of t is pending in normal world, or about to be sent.
Notified(t) == \/ t \in notif
               \/ \E u \in Threads : pc[u] = "notify" /\ wake[u].target = t

\* The inductive form of WokenIsNotified: only "check", where the thread has
\* taken its notification and will look at its element, is without one.  The
\* labels of the wake-up in condvar_wait() are in it, since the thread sleeps
\* after them.
WokenInv == \A t \in Threads : (wqe[t].done /\ pc[t] # "check") => Notified(t)

\* A step of t that marks nobody done and neither takes nor drops a
\* notification.
LEMMA SameNotified ==
    ASSUME TypeOK, WokenInv, NEW t \in Threads, notif' = notif,
           pc[t] # "notify", pc[t] # "check",
           \A u \in Threads \ {t} : pc'[u] = pc[u] /\ wake'[u] = wake[u],
           \A u \in Threads : wqe'[u].done => wqe[u].done
    PROVE  WokenInv'
  BY DEF WokenInv, Notified

\* Every section keeps a woken thread notified until it checks its element.
LEMMA WokenStep == TypeOK /\ WokenInv /\ [Next]_vars => WokenInv'
<1> SUFFICES ASSUME TypeOK, WokenInv, [Next]_vars PROVE WokenInv'
  OBVIOUS
<1>1. ASSUME NEW t \in Threads, WakeNext(t) PROVE WokenInv'
  <2>1. CASE EndWake(t) /\ UNCHANGED wqe
    BY <1>1, <2>1, SameNotified DEF WakeNext, EndWake, TypeOK
  <2>2. ASSUME NEW i \in DOMAIN wq,
               wqe' = [wqe EXCEPT ![wq[i]].done = TRUE],
               wake' = [wake EXCEPT ![t] =
                  [type |-> IF wqe[wq[i]].wait_read THEN "read" ELSE "write",
                   target |-> wq[i]]],
               pc' = [pc EXCEPT ![t] = "notify"]
        PROVE  WokenInv'
    <3>1. wq[i] \in Threads
      BY DEF TypeOK
    <3>2. pc'[t] = "notify" /\ wake'[t].target = wq[i]
      BY <2>2 DEF TypeOK
    <3>3. /\ \A u \in Threads \ {wq[i]} : wqe'[u] = wqe[u]
          /\ \A u \in Threads \ {t} : pc'[u] = pc[u] /\ wake'[u] = wake[u]
          /\ notif' = notif /\ pc[t] = "wake"
      BY <1>1, <2>2, <3>1 DEF WakeNext, TypeOK
    <3>4. \A u \in Threads : Notified(u) => Notified(u)'
      BY <3>3 DEF Notified
    <3> QED
      BY <3>2, <3>3, <3>4 DEF WokenInv, Notified
  <2> QED
    BY <1>1, <2>1, <2>2 DEF WakeNext
<1>2. ASSUME NEW t \in Threads, SendNotif(t) PROVE WokenInv'
  <2>1. \A u \in Threads : Notified(u) => u \in notif' \/ Notified(u)'
    BY <1>2 DEF SendNotif, EndWake, Notified, TypeOK
  <2>2. wqe' = wqe /\ \A u \in Threads \ {t} : pc'[u] = pc[u]
    BY <1>2 DEF SendNotif, EndWake, TypeOK
  <2>3. pc[t] # "check"
    BY <1>2 DEF SendNotif
  <2> QED
    BY <2>1, <2>2, <2>3 DEF WokenInv, Notified
<1>3. ASSUME NEW t \in Threads, NotifWait(t) \/ NotifWaitFails(t) PROVE WokenInv'
  <2>1. /\ pc[t] = "sleep" /\ pc' = [pc EXCEPT ![t] = "check"]
        /\ notif \ {t} \subseteq notif' /\ UNCHANGED <<wqe, wake>>
    BY <1>3 DEF NotifWait, NotifWaitFails
  <2> QED
    BY <2>1 DEF WokenInv, Notified, TypeOK
<1>4. ASSUME NEW t \in Threads, CheckDone(t) PROVE WokenInv'
  <2>1. ~wqe'[t].done
    BY <1>4 DEF CheckDone, LeaveQueue, NullWqe, TypeOK
  <2>2. /\ pc[t] = "check" /\ UNCHANGED <<notif, wake>>
        /\ \A u \in Threads \ {t} : pc'[u] = pc[u] /\ wqe'[u] = wqe[u]
    BY <1>4 DEF CheckDone, LeaveQueue, TypeOK
  <2> QED
    BY <2>1, <2>2 DEF WokenInv, Notified
<1>5. ASSUME NEW t \in Threads, NEW m \in Modes, LockSection(t, m),
             pc[t] \in {"idle", "retry"}
      PROVE  WokenInv'
  <2>1. /\ \A u \in Threads : wqe'[u].done => wqe[u].done
        /\ \A u \in Threads \ {t} : pc'[u] = pc[u]
        /\ UNCHANGED <<notif, wake>>
    BY <1>5 DEF LockSection, WaitInit, TypeOK
  <2> QED
    BY <1>5, <2>1, SameNotified
<1>6. ASSUME NEW t \in Threads, Retry(t) PROVE WokenInv'
  <2>1. mode[t] \in Modes
    BY DEF TypeOK
  <2> QED
    BY <1>5, <1>6, <2>1 DEF Retry
<1>7. ASSUME NEW t \in Threads, NEW m \in Modes, Lock(t, m) PROVE WokenInv'
  BY <1>5, <1>7 DEF Lock
<1>8. ASSUME NEW t \in Threads, NEW m \in Modes, TryLock(t, m) PROVE WokenInv'
  BY <1>8, SameNotified DEF TryLock, TypeOK
<1>9. ASSUME NEW t \in Threads, Unlock(t) \/ ReadUnlock(t) PROVE WokenInv'
  BY <1>9, SameNotified DEF Unlock, ReadUnlock, StartWake, TypeOK
<1>10. ASSUME NEW t \in Threads, CondvarEnqueue(t) PROVE WokenInv'
  <2>1. /\ \A u \in Threads : wqe'[u].done => wqe[u].done
        /\ \A u \in Threads \ {t} : pc'[u] = pc[u] /\ wake'[u] = wake[u]
        /\ notif' = notif /\ pc[t] = "cvlink"
    BY <1>10 DEF CondvarEnqueue, WaitInit, StartWake, TypeOK
  <2> QED
    BY <2>1, SameNotified
<1>11. ASSUME NEW t \in Threads, PromoteCondvar(t) PROVE WokenInv'
  <2>1. \A u \in Threads : wqe'[u].done => wqe[u].done
    BY <1>11 DEF PromoteCondvar, TypeOK, WqeType
  <2> QED
    BY <1>11, <2>1, SameNotified DEF PromoteCondvar, TypeOK
<1>12. ASSUME NEW t \in Threads, NEW cv \in Condvars,
              \/ CondvarLink(t, cv)
              \/ \E only_one \in BOOLEAN : CondvarSignal(t, cv, only_one)
       PROVE  WokenInv'
  <2>1. /\ pc[t] = "held" /\ UNCHANGED <<notif, wake, wqe>>
        /\ \A u \in Threads \ {t} : pc'[u] = pc[u]
    BY <1>12 DEF CondvarLink, CondvarSignal, TypeOK
  <2> QED
    BY <2>1, SameNotified
<1>13. ASSUME NEW cv \in Condvars, CondvarDestroy(cv) PROVE WokenInv'
  BY <1>13 DEF CondvarDestroy, WokenInv, Notified
<1>14. CASE UNCHANGED vars
  BY <1>14 DEF vars, WokenInv, Notified
<1> QED
  BY <1>1, <1>2, <1>3, <1>4, <1>6, <1>7, <1>8, <1>9, <1>10, <1>11, <1>12, <1>13,
     <1>14 DEF Next, Step

\* An element is marked done together with a notification that will arrive:
\* a woken thread never sleeps on without one.
THEOREM WokenCorrect == Spec => []WokenIsNotified
<1>1. Init => WokenInv
  BY DEF Init, WokenInv, NullWqe
<1>2. WokenInv => WokenIsNotified
  BY DEF WokenInv, Notified, WokenIsNotified
<1> QED
  BY <1>1, <1>2, WokenStep, TypeCorrect, PTL DEF Spec

-----------------------------------------------------------------------------
(* No wake-up is lost *)

\* Somebody will look at the mutex or at the whole queue again.  A thread in
\* "wake" counts only before its round has found its first element: a round
\* of readers ends without a look at the writers, and it is the readers it
\* woke that will.
SomeoneLooks ==
    \/ \E t \in Threads : pc[t] = "wake" /\ wake[t].type = "none"
    \/ \E t \in Threads : pc[t] = "retry"
    \/ \E t \in Queued : wqe[t].done

\* The inductive form of NoLostWakeup.
WakeupInv == (state = 0 /\ \E t \in Threads : Active(t)) => SomeoneLooks

\* It implies the property.
LEMMA WakeupInvSuffices == WakeupInv => NoLostWakeup
  BY DEF WakeupInv, SomeoneLooks, NoLostWakeup, Queued

\* A step with which nobody becomes active and nobody stops looking.
LEMMA SameWakeup ==
    ASSUME WakeupInv, state' = 0 => state = 0,
           \A t \in Threads : Active(t)' => Active(t),
           SomeoneLooks => SomeoneLooks'
    PROVE  WakeupInv'
  BY DEF WakeupInv

\* Every section keeps somebody looking at a free mutex with a waiter.
LEMMA WakeupStep == TypeOK /\ HoldInv /\ WakeupInv /\ [Next]_vars => WakeupInv'
<1> SUFFICES ASSUME TypeOK, HoldInv, WakeupInv, [Next]_vars PROVE WakeupInv'
  OBVIOUS
<1>1. ASSUME NEW t \in Threads, WakeNext(t) PROVE WakeupInv'
  <2>1. CASE EndWake(t) /\ UNCHANGED wqe /\ \A i \in DOMAIN wq : ~Eligible(t, i)
    <3>1. \A u \in Threads : Active(u)' <=> Active(u)
      BY <1>1, <2>1 DEF WakeNext, Active
    <3>2. CASE wake[t].type = "none"
      <4>1. \A u \in Threads : ~Active(u)
        BY <2>1, <3>2 DEF Active, Eligible
      <4> QED
        BY <3>1, <4>1 DEF WakeupInv
    <3>3. CASE wake[t].type # "none"
      <4>1. \A u \in Threads \ {t} : pc'[u] = pc[u] /\ wake'[u] = wake[u]
        BY <2>1 DEF EndWake, TypeOK
      <4>2. SomeoneLooks => SomeoneLooks'
        BY <1>1, <2>1, <3>3, <4>1 DEF WakeNext, SomeoneLooks, Queued
      <4> QED
        BY <1>1, <3>1, <4>2, SameWakeup DEF WakeNext
    <3> QED
      BY <3>2, <3>3
  <2>2. ASSUME NEW i \in DOMAIN wq, wqe' = [wqe EXCEPT ![wq[i]].done = TRUE]
        PROVE  WakeupInv'
    <3>1. wq[i] \in Threads /\ wq' = wq
      BY <1>1 DEF TypeOK, WakeNext
    <3>2. wqe'[wq[i]].done /\ wq[i] \in Queued'
      BY <2>2, <3>1 DEF TypeOK, WqeType, Queued
    <3> QED
      BY <3>2 DEF WakeupInv, SomeoneLooks
  <2> QED
    BY <1>1, <2>1, <2>2 DEF WakeNext
<1>2. ASSUME NEW t \in Threads, SendNotif(t) PROVE WakeupInv'
  <2>1. \A u \in Threads : Active(u)' <=> Active(u)
    BY <1>2 DEF SendNotif, Active
  <2>2. SomeoneLooks => SomeoneLooks'
    BY <1>2 DEF SendNotif, EndWake, SomeoneLooks, Queued, TypeOK
  <2> QED
    BY <1>2, <2>1, <2>2, SameWakeup DEF SendNotif
<1>3. ASSUME NEW t \in Threads, NotifWait(t) \/ NotifWaitFails(t) PROVE WakeupInv'
  <2>1. \A u \in Threads : Active(u)' <=> Active(u)
    BY <1>3 DEF NotifWait, NotifWaitFails, Active
  <2>2. SomeoneLooks => SomeoneLooks'
    BY <1>3 DEF NotifWait, NotifWaitFails, SomeoneLooks, Queued, TypeOK
  <2> QED
    BY <1>3, <2>1, <2>2, SameWakeup DEF NotifWait, NotifWaitFails
<1>4. ASSUME NEW t \in Threads, CheckDone(t) PROVE WakeupInv'
  <2>1. CASE wqe[t].done
    BY <1>4, <2>1 DEF CheckDone, WakeupInv, SomeoneLooks, TypeOK
  <2>2. CASE ~wqe[t].done
    <3>1. \A u \in Threads : Active(u)' <=> Active(u)
      BY <1>4, <2>2 DEF CheckDone, Active
    <3>2. SomeoneLooks => SomeoneLooks'
      BY <1>4, <2>2 DEF CheckDone, SomeoneLooks, Queued, TypeOK
    <3> QED
      BY <1>4, <2>2, <3>1, <3>2, SameWakeup DEF CheckDone
  <2> QED
    BY <2>1, <2>2
<1>5. ASSUME NEW t \in Threads, NEW m \in Modes, LockSection(t, m) PROVE WakeupInv'
  <2>1. state' # 0
    BY <1>5, HoldersFinite DEF LockSection, CanLock, HoldInv, StateCounts, TypeOK, Modes
  <2> QED
    BY <2>1 DEF WakeupInv
<1>6. ASSUME NEW t \in Threads, Retry(t) PROVE WakeupInv'
  BY <1>5, <1>6 DEF Retry, TypeOK
<1>7. ASSUME NEW t \in Threads, NEW m \in Modes, Lock(t, m) PROVE WakeupInv'
  BY <1>5, <1>7 DEF Lock
<1>8. ASSUME NEW t \in Threads, NEW m \in Modes, TryLock(t, m) PROVE WakeupInv'
  <2>1. state' # 0
    BY <1>8, HoldersFinite DEF TryLock, CanLock, HoldInv, StateCounts, TypeOK, Modes
  <2> QED
    BY <2>1 DEF WakeupInv
<1>9. ASSUME NEW t \in Threads, StartWake(t, "idle") \/ StartWake(t, "sleep")
      PROVE  SomeoneLooks'
  BY <1>9 DEF StartWake, NullWake, SomeoneLooks, TypeOK
<1>10. ASSUME NEW t \in Threads, Unlock(t) PROVE WakeupInv'
  BY <1>9, <1>10 DEF Unlock, WakeupInv
<1>11. ASSUME NEW t \in Threads, ReadUnlock(t) PROVE WakeupInv'
  BY <1>9, <1>11 DEF ReadUnlock, WakeupInv
<1>12. ASSUME NEW t \in Threads, CondvarEnqueue(t) PROVE WakeupInv'
  BY <1>9, <1>12 DEF CondvarEnqueue, WakeupInv
<1>13. ASSUME NEW t \in Threads,
              \/ PromoteCondvar(t)
              \/ \E cv \in Condvars :
                    \/ CondvarLink(t, cv)
                    \/ \E only_one \in BOOLEAN : CondvarSignal(t, cv, only_one)
       PROVE  WakeupInv'
  <2>1. Holds(t) /\ state' = state
    BY <1>13 DEF PromoteCondvar, CondvarLink, CondvarSignal, Holds
  <2>2. state' # 0
    BY <2>1, HolderKnowsMode
  <2> QED
    BY <2>2 DEF WakeupInv
<1>14. ASSUME NEW cv \in Condvars, CondvarDestroy(cv) PROVE WakeupInv'
  BY <1>14 DEF CondvarDestroy, WakeupInv, SomeoneLooks, Active, Queued
<1>15. CASE UNCHANGED vars
  BY <1>15 DEF vars, WakeupInv, SomeoneLooks, Active, Queued
<1> QED
  BY <1>1, <1>2, <1>3, <1>4, <1>6, <1>7, <1>8, <1>10, <1>11, <1>12, <1>13, <1>14,
     <1>15 DEF Next, Step

\* The mutex is never free with a waiter that nobody will wake: the unlock
\* between the failed attempt and the sleep of a waiter is not missed, nor is
\* a writer left behind by a round that woke the readers.
THEOREM WakeupCorrect == Spec => []NoLostWakeup
<1>1. Init => WakeupInv
  BY DEF Init, WakeupInv, Active
<1>2. HoldInv <=> Exclusion /\ StateCounts
  BY DEF HoldInv
<1> QED
  BY <1>1, <1>2, WakeupStep, WakeupInvSuffices, TypeCorrect, HoldersCorrect,
     PTL DEF Spec

=============================================================================
