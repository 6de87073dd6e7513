----------------------------- MODULE MutexProofs ----------------------------
(***************************************************************************)
(* Proofs about Mutex for every set of threads, every set of condition     *)
(* variables and every bound on the calls.                                 *)
(***************************************************************************)
EXTENDS Mutex, FiniteSetTheorems, TLAPS

-----------------------------------------------------------------------------
(* Type correctness *)

\* The records the actions store have the type of the variable they are
\* stored in.
LEMMA NullTypes ==
    /\ NullWqe \in WqeType
    /\ NullSig \in SigType
    /\ \A t \in Threads : NullWake(t) \in WakeType
  BY DEF NullWqe, NullSig, NullWake, WqeType, SigType, WakeType

\* Starting or ending wq_wake_next() keeps the types of what it assigns.
LEMMA WakeTypes ==
    ASSUME TypeOK, NEW t \in Threads,
           EndWake(t) \/ StartWake(t, "idle") \/ StartWake(t, "sleep")
    PROVE  /\ pc' \in [Threads -> Labels]
           /\ wake' \in [Threads -> WakeType]
           /\ cont' \in [Threads -> {"idle", "sleep"}]
  BY NullTypes DEF TypeOK, EndWake, StartWake, Labels

\* Queueing an element keeps the types of the queue and of the elements.
LEMMA WaitInitTypes ==
    ASSUME TypeOK, NEW t \in Threads, NEW read \in BOOLEAN,
           NEW cv \in Condvars \cup {NoCv}, WaitInit(t, read, cv)
    PROVE  /\ wq' \in Seq(Threads)
           /\ wqe' \in [Threads -> WqeType]
<1>1. [done |-> FALSE, wait_read |-> read, cv |-> cv] \in WqeType
  BY DEF WqeType
<1> QED
  BY <1>1 DEF TypeOK, WaitInit

\* Every step of a behaviour of the mutex keeps the types of its variables.
LEMMA TypeStep == TypeOK /\ [Next]_vars => TypeOK'
<1> SUFFICES ASSUME TypeOK, [Next]_vars PROVE TypeOK'
  OBVIOUS
<1>1. ASSUME NEW t \in Threads, WakeNext(t) PROVE TypeOK'
  <2>1. CASE EndWake(t) /\ UNCHANGED wqe
    BY <1>1, <2>1, WakeTypes DEF WakeNext, TypeOK
  <2>2. CASE \E i \in DOMAIN wq :
                /\ wqe' = [wqe EXCEPT ![wq[i]].done = TRUE]
                /\ wake' = [wake EXCEPT ![t] =
                      [type |-> IF wqe[wq[i]].wait_read THEN "read" ELSE "write",
                       target |-> wq[i]]]
                /\ pc' = [pc EXCEPT ![t] = "notify"]
                /\ UNCHANGED cont
    <3>1. PICK i \in DOMAIN wq :
                /\ wqe' = [wqe EXCEPT ![wq[i]].done = TRUE]
                /\ wake' = [wake EXCEPT ![t] =
                      [type |-> IF wqe[wq[i]].wait_read THEN "read" ELSE "write",
                       target |-> wq[i]]]
                /\ pc' = [pc EXCEPT ![t] = "notify"]
                /\ UNCHANGED cont
      BY <2>2
    <3>2. wq[i] \in Threads
      BY DEF TypeOK
    <3>3. wqe' \in [Threads -> WqeType]
      BY <3>1, <3>2 DEF TypeOK, WqeType
    <3>4. wake' \in [Threads -> WakeType]
      BY <3>1, <3>2 DEF TypeOK, WakeType, Modes
    <3> QED
      BY <1>1, <3>1, <3>3, <3>4 DEF WakeNext, TypeOK, Labels
  <2> QED
    BY <1>1, <2>1, <2>2 DEF WakeNext
<1>2. ASSUME NEW t \in Threads, SendNotif(t) PROVE TypeOK'
  <2>1. wake[t].target \in Threads
    BY DEF TypeOK, WakeType
  <2>2. CASE EndWake(t)
    BY <1>2, <2>1, <2>2, WakeTypes DEF SendNotif, TypeOK
  <2>3. CASE ~EndWake(t)
    BY <1>2, <2>1, <2>3 DEF SendNotif, TypeOK, Labels
  <2> QED
    BY <2>2, <2>3
<1>3. ASSUME NEW t \in Threads, NotifWait(t) \/ NotifWaitFails(t) PROVE TypeOK'
  BY <1>3 DEF NotifWait, NotifWaitFails, TypeOK, Labels
<1>4. ASSUME NEW t \in Threads, CheckDone(t) PROVE TypeOK'
  <2>1. CASE wqe[t].done
    <3>1. PICK i \in DOMAIN wq :
             wq' = SubSeq(wq, 1, i - 1) \o SubSeq(wq, i + 1, Len(wq))
      BY <1>4, <2>1 DEF CheckDone, LeaveQueue
    <3>2. wq' \in Seq(Threads)
      BY <3>1 DEF TypeOK
    <3> QED
      BY <1>4, <2>1, <3>2, NullTypes DEF CheckDone, LeaveQueue, TypeOK, Labels
  <2>2. CASE ~wqe[t].done
    BY <1>4, <2>2 DEF CheckDone, TypeOK, Labels
  <2> QED
    BY <2>1, <2>2
<1>5. ASSUME NEW t \in Threads, NEW m \in Modes, LockSection(t, m), calls' \in 0 .. MaxCalls
      PROVE  TypeOK'
  <2>1. CASE CanLock(m)
    BY <1>5, <2>1 DEF LockSection, CanLock, TypeOK, Labels, Modes
  <2>2. CASE ~CanLock(m)
    <3>1. WaitInit(t, m = "read", NoCv)
      BY <1>5, <2>2 DEF LockSection
    <3>2. (m = "read") \in BOOLEAN
      OBVIOUS
    <3>3. wq' \in Seq(Threads) /\ wqe' \in [Threads -> WqeType]
      BY <3>1, <3>2, WaitInitTypes
    <3> QED
      BY <1>5, <2>2, <3>3 DEF LockSection, TypeOK, Labels
  <2> QED
    BY <2>1, <2>2
<1>6. ASSUME NEW t \in Threads, Retry(t) PROVE TypeOK'
  BY <1>5, <1>6 DEF Retry, TypeOK
<1>7. ASSUME NEW t \in Threads, NEW m \in Modes, Lock(t, m) PROVE TypeOK'
  <2>1. calls' \in 0 .. MaxCalls
    BY <1>7, ConstantsAssumption DEF Lock, Call, TypeOK
  <2> QED
    BY <1>5, <1>7, <2>1 DEF Lock
<1>8. ASSUME NEW t \in Threads, NEW m \in Modes, TryLock(t, m) PROVE TypeOK'
  BY <1>8, ConstantsAssumption DEF TryLock, Call, CanLock, TypeOK, Labels, Modes
<1>9. ASSUME NEW t \in Threads, Unlock(t) PROVE TypeOK'
  BY <1>9, WakeTypes DEF Unlock, TypeOK
<1>10. ASSUME NEW t \in Threads, ReadUnlock(t) PROVE TypeOK'
  BY <1>10, WakeTypes DEF ReadUnlock, TypeOK, Labels
<1>11. ASSUME NEW t \in Threads, NEW cv \in Condvars, CondvarLink(t, cv) PROVE TypeOK'
  <2>1. sig' \in [Threads -> SigType]
    BY <1>11 DEF CondvarLink, TypeOK, SigType
  <2> QED
    BY <1>11, <2>1, ConstantsAssumption DEF CondvarLink, Call, TypeOK, Labels
<1>12. ASSUME NEW t \in Threads, CondvarEnqueue(t) PROVE TypeOK'
  <2>1. sig[t].cv \in Condvars \cup {NoCv} /\ (state > 0) \in BOOLEAN
    BY DEF TypeOK, SigType
  <2>2. wq' \in Seq(Threads) /\ wqe' \in [Threads -> WqeType]
    BY <1>12, <2>1, WaitInitTypes DEF CondvarEnqueue
  <2>3. /\ pc' \in [Threads -> Labels]
        /\ wake' \in [Threads -> WakeType]
        /\ cont' \in [Threads -> {"idle", "sleep"}]
    <3>1. CASE state' = 0
      BY <1>12, <3>1, WakeTypes DEF CondvarEnqueue
    <3>2. CASE state' # 0
      BY <1>12, <3>2 DEF CondvarEnqueue, TypeOK, Labels
    <3> QED
      BY <3>1, <3>2
  <2>4. state' \in Int
    BY <1>12 DEF CondvarEnqueue, TypeOK
  <2>5. mode' \in [Threads -> Modes]
    BY <1>12 DEF CondvarEnqueue, TypeOK, Modes
  <2>6. sig' \in [Threads -> SigType]
    BY <1>12, NullTypes DEF CondvarEnqueue, TypeOK
  <2> QED
    BY <1>12, <2>2, <2>3, <2>4, <2>5, <2>6 DEF CondvarEnqueue, TypeOK
<1>13. ASSUME NEW t \in Threads, NEW cv \in Condvars, NEW only_one \in BOOLEAN,
              CondvarSignal(t, cv, only_one)
       PROVE  TypeOK'
  <2>1. [cv |-> cv, only_one |-> only_one] \in SigType
    BY DEF SigType
  <2> QED
    BY <1>13, <2>1, ConstantsAssumption DEF CondvarSignal, Call, TypeOK, Labels
<1>14. ASSUME NEW t \in Threads, PromoteCondvar(t) PROVE TypeOK'
  <2>1. wqe' \in [Threads -> WqeType]
    BY <1>14 DEF PromoteCondvar, TypeOK, WqeType
  <2> QED
    BY <1>14, <2>1, NullTypes DEF PromoteCondvar, TypeOK, Labels
<1>15. ASSUME NEW cv \in Condvars, CondvarDestroy(cv) PROVE TypeOK'
  BY <1>15 DEF CondvarDestroy, TypeOK
<1>16. CASE UNCHANGED vars
  BY <1>16 DEF vars, TypeOK
<1> QED
  BY <1>1, <1>2, <1>3, <1>4, <1>6, <1>7, <1>8, <1>9, <1>10, <1>11, <1>12, <1>13,
     <1>14, <1>15, <1>16 DEF Next, Step

\* Type correctness of the mutex, the condition variables and the wait queue.
THEOREM TypeCorrect == Spec => []TypeOK
<1>1. Init => TypeOK
  BY ConstantsAssumption, NullTypes DEF Init, TypeOK, Labels, Modes
<1> QED
  BY <1>1, TypeStep, PTL DEF Spec

-----------------------------------------------------------------------------
(* Who holds the mutex *)

\* What a step does to the holders: nothing, one lock taken when m->state
\* allows it, or one lock given back.
Keeps == Readers' = Readers /\ Writers' = Writers /\ state' = state
TakesRead(t) ==
    /\ t \notin Readers \cup Writers
    /\ state # -1
    /\ Readers' = Readers \cup {t} /\ Writers' = Writers /\ state' = state + 1
TakesWrite(t) ==
    /\ t \notin Readers \cup Writers
    /\ state = 0
    /\ Readers' = Readers /\ Writers' = Writers \cup {t} /\ state' = -1
GivesRead(t) ==
    /\ t \in Readers
    /\ Readers' = Readers \ {t} /\ Writers' = Writers /\ state' = state - 1
GivesWrite(t) ==
    /\ t \in Writers
    /\ Readers' = Readers /\ Writers' = Writers \ {t} /\ state' = 0

\* m->state counts the holders and a writer is alone: the part of the
\* invariant that is inductive by itself.
HoldInv == Exclusion /\ StateCounts

\* The sets of readers and writers of m->state are finite, so that they can
\* be counted.
LEMMA HoldersFinite ==
    ASSUME TypeOK
    PROVE  /\ IsFiniteSet(Readers)
           /\ Cardinality(Readers) \in Nat
           /\ Cardinality(Readers) = 0 <=> Readers = {}
           /\ Readers \cap Writers = {}
<1>1. Readers \subseteq Threads
  BY DEF Readers
<1>2. IsFiniteSet(Readers)
  BY <1>1, ConstantsAssumption, FS_Subset
<1>3. Readers \cap Writers = {}
  BY DEF Readers, Writers
<1> QED
  BY <1>2, <1>3, FS_CardinalityType, FS_EmptySet

\* Every way to take or give back a lock keeps m->state equal to the number
\* of holders, or to -1 for a writer.
LEMMA HoldersStep ==
    ASSUME TypeOK, HoldInv, NEW t \in Threads,
           \/ Keeps
           \/ TakesRead(t) \/ TakesWrite(t)
           \/ GivesRead(t) \/ GivesWrite(t)
    PROVE  HoldInv'
<1>1. CASE Keeps
  BY <1>1 DEF Keeps, HoldInv, Exclusion, StateCounts
<1>2. CASE TakesRead(t)
  <2>1. Writers = {} /\ state = Cardinality(Readers)
    BY <1>2 DEF TakesRead, HoldInv, StateCounts
  <2>2. Cardinality(Readers') = Cardinality(Readers) + 1
    BY <1>2, HoldersFinite, FS_AddElement DEF TakesRead
  <2> QED
    BY <1>2, <2>1, <2>2 DEF TakesRead, HoldInv, Exclusion, StateCounts
<1>3. CASE TakesWrite(t)
  <2>1. Writers = {} /\ Readers = {}
    BY <1>3, HoldersFinite DEF TakesWrite, HoldInv, StateCounts
  <2> QED
    BY <1>3, <2>1 DEF TakesWrite, HoldInv, Exclusion, StateCounts
<1>4. CASE GivesRead(t)
  <2>1. Writers = {}
    BY <1>4, HoldersFinite DEF GivesRead, HoldInv, Exclusion
  <2>2. Cardinality(Readers') = Cardinality(Readers) - 1
    BY <1>4, HoldersFinite, FS_RemoveElement DEF GivesRead
  <2> QED
    BY <1>4, <2>1, <2>2 DEF GivesRead, HoldInv, Exclusion, StateCounts
<1>5. CASE GivesWrite(t)
  <2>1. Writers = {t} /\ Readers = {}
    BY <1>5, HoldersFinite DEF GivesWrite, HoldInv, Exclusion
  <2>2. Cardinality(Readers') = 0
    BY <1>5, <2>1, FS_EmptySet DEF GivesWrite
  <2> QED
    BY <1>5, <2>1, <2>2 DEF GivesWrite, HoldInv, Exclusion, StateCounts
<1> QED
  BY <1>1, <1>2, <1>3, <1>4, <1>5

\* A thread that holds the mutex finds in m->state how it holds it: what
\* condvar_wait() relies on to take the same lock again, and why no unlock
\* reaches its panic().
LEMMA HolderKnowsMode ==
    ASSUME TypeOK, HoldInv, NEW t \in Threads, Holds(t)
    PROVE  /\ mode[t] = "write" <=> state = -1
           /\ mode[t] = "read" <=> state > 0
           /\ state # 0
<1>1. t \in Readers \/ t \in Writers
  BY DEF Readers, Writers, TypeOK, Modes
<1>2. CASE t \in Readers
  <2>1. Writers = {} /\ Readers # {}
    BY <1>2, HoldersFinite DEF HoldInv, Exclusion
  <2> QED
    BY <1>2, <2>1, HoldersFinite DEF HoldInv, StateCounts, Readers
<1>3. CASE t \in Writers
  BY <1>3 DEF HoldInv, StateCounts, Writers
<1> QED
  BY <1>1, <1>2, <1>3

\* Each action of the mutex is one of the five cases of HoldersStep.
LEMMA HoldersCases ==
    ASSUME TypeOK, HoldInv, [Next]_vars
    PROVE  \/ Keeps
           \/ \E t \in Threads : \/ TakesRead(t) \/ TakesWrite(t)
                                 \/ GivesRead(t) \/ GivesWrite(t)
<1> DEFINE Cases == \/ Keeps
                    \/ \E t \in Threads : \/ TakesRead(t) \/ TakesWrite(t)
                                          \/ GivesRead(t) \/ GivesWrite(t)
<1> SUFFICES Cases
  OBVIOUS
<1>1. ASSUME NEW t \in Threads,
             \/ WakeNext(t) \/ SendNotif(t) \/ NotifWait(t) \/ NotifWaitFails(t)
             \/ CheckDone(t)
      PROVE  Keeps
  <2>1. /\ pc[t] \in {"wake", "notify", "sleep", "check"}
        /\ \E l \in {"wake", "notify", "sleep", "check", "retry", "idle"} :
              pc' = [pc EXCEPT ![t] = l]
        /\ UNCHANGED <<state, mode>>
    BY <1>1 DEF WakeNext, SendNotif, NotifWait, NotifWaitFails, CheckDone, EndWake, TypeOK
  <2> QED
    BY <2>1 DEF Keeps, Readers, Writers, Holds, TypeOK
<1>2. ASSUME NEW t \in Threads, NEW m \in Modes, LockSection(t, m), ~Holds(t)
      PROVE  Cases
  <2>1. CASE ~CanLock(m)
    <3>1. Keeps
      BY <1>2, <2>1 DEF LockSection, Keeps, Readers, Writers, Holds, TypeOK
    <3> QED
      BY <3>1
  <2>2. CASE CanLock(m) /\ m = "write"
    <3>1. TakesWrite(t)
      BY <1>2, <2>2 DEF LockSection, CanLock, TakesWrite, Readers, Writers, Holds, TypeOK
    <3> QED
      BY <3>1
  <2>3. CASE CanLock(m) /\ m = "read"
    <3>1. TakesRead(t)
      BY <1>2, <2>3 DEF LockSection, CanLock, TakesRead, Readers, Writers, Holds, TypeOK
    <3> QED
      BY <3>1
  <2> QED
    BY <2>1, <2>2, <2>3 DEF Modes
<1>3. ASSUME NEW t \in Threads, Retry(t) PROVE Cases
  <2>1. mode[t] \in Modes /\ ~Holds(t) /\ LockSection(t, mode[t])
    BY <1>3 DEF Retry, Holds, TypeOK
  <2> QED
    BY <1>2, <2>1
<1>4. ASSUME NEW t \in Threads, NEW m \in Modes, Lock(t, m) PROVE Cases
  BY <1>2, <1>4 DEF Lock, Holds
<1>5. ASSUME NEW t \in Threads, NEW m \in Modes, TryLock(t, m) PROVE Cases
  <2>1. CASE m = "write"
    <3>1. TakesWrite(t)
      BY <1>5, <2>1 DEF TryLock, CanLock, TakesWrite, Readers, Writers, Holds, TypeOK
    <3> QED
      BY <3>1
  <2>2. CASE m = "read"
    <3>1. TakesRead(t)
      BY <1>5, <2>2 DEF TryLock, CanLock, TakesRead, Readers, Writers, Holds, TypeOK
    <3> QED
      BY <3>1
  <2> QED
    BY <2>1, <2>2 DEF Modes
<1>6. ASSUME NEW t \in Threads, Unlock(t) PROVE GivesWrite(t)
  BY <1>6 DEF Unlock, StartWake, GivesWrite, Readers, Writers, Holds, TypeOK
<1>7. ASSUME NEW t \in Threads, ReadUnlock(t) PROVE GivesRead(t)
  BY <1>7 DEF ReadUnlock, StartWake, GivesRead, Readers, Writers, Holds, TypeOK
<1>8. ASSUME NEW t \in Threads, CondvarEnqueue(t) PROVE Cases
  <2>1. /\ mode[t] = "write" <=> state = -1
        /\ mode[t] = "read" <=> state > 0
        /\ state # 0
    BY <1>8, HolderKnowsMode DEF CondvarEnqueue, Holds
  <2>2. mode' = mode
    BY <1>8, <2>1 DEF CondvarEnqueue, TypeOK, Modes
  <2>3. /\ pc[t] = "cvlink"
        /\ \E l \in {"wake", "sleep"} : pc' = [pc EXCEPT ![t] = l]
    BY <1>8 DEF CondvarEnqueue, StartWake
  <2>4. CASE mode[t] = "write"
    <3>1. state' = 0
      BY <1>8, <2>1, <2>4 DEF CondvarEnqueue
    <3>2. GivesWrite(t)
      BY <2>2, <2>3, <2>4, <3>1 DEF GivesWrite, Readers, Writers, Holds, TypeOK
    <3> QED
      BY <3>2
  <2>5. CASE mode[t] = "read"
    <3>1. state' = state - 1
      BY <1>8, <2>1, <2>5 DEF CondvarEnqueue, TypeOK
    <3>2. GivesRead(t)
      BY <2>2, <2>3, <2>5, <3>1 DEF GivesRead, Readers, Writers, Holds, TypeOK
    <3> QED
      BY <3>2
  <2> QED
    BY <2>4, <2>5 DEF TypeOK, Modes
<1>9. ASSUME NEW t \in Threads,
             \/ PromoteCondvar(t)
             \/ \E cv \in Condvars :
                   \/ CondvarLink(t, cv)
                   \/ \E only_one \in BOOLEAN : CondvarSignal(t, cv, only_one)
      PROVE  Keeps
  <2>1. /\ pc[t] \in {"held", "signal"}
        /\ \E l \in {"held", "signal", "cvlink"} : pc' = [pc EXCEPT ![t] = l]
        /\ UNCHANGED <<state, mode>>
    BY <1>9 DEF PromoteCondvar, CondvarLink, CondvarSignal, TypeOK
  <2> QED
    BY <2>1 DEF Keeps, Readers, Writers, Holds, TypeOK
<1>10. ASSUME NEW cv \in Condvars, CondvarDestroy(cv) PROVE Keeps
  BY <1>10 DEF CondvarDestroy, Keeps, Readers, Writers, Holds
<1>11. CASE UNCHANGED vars
  BY <1>11 DEF vars, Keeps, Readers, Writers, Holds
<1> QED
  BY <1>1, <1>3, <1>4, <1>5, <1>6, <1>7, <1>8, <1>9, <1>10, <1>11 DEF Next, Step

\* A writer excludes every other holder and m->state counts the holders, in
\* every interleaving of the sections of mutex.c and wait_queue.c.
THEOREM HoldersCorrect == Spec => [](Exclusion /\ StateCounts)
<1>1. Init => HoldInv
  <2> SUFFICES ASSUME Init PROVE HoldInv
    OBVIOUS
  <2>1. Readers = {} /\ Writers = {}
    BY DEF Init, Readers, Writers, Holds
  <2> QED
    BY <2>1, FS_EmptySet DEF Init, HoldInv, Exclusion, StateCounts
<1>2. TypeOK /\ HoldInv /\ [Next]_vars => HoldInv'
  <2> SUFFICES ASSUME TypeOK, HoldInv, [Next]_vars PROVE HoldInv'
    OBVIOUS
  <2>1. CASE Keeps
    BY <2>1 DEF Keeps, HoldInv, Exclusion, StateCounts
  <2>2. CASE ~Keeps
    BY <2>2, HoldersCases, HoldersStep
  <2> QED
    BY <2>1, <2>2
<1>3. HoldInv => Exclusion /\ StateCounts
  BY DEF HoldInv
<1> QED
  BY <1>1, <1>2, <1>3, TypeCorrect, PTL DEF Spec

\* m->state alone: it counts the holders, so that no unlock finds a value it
\* does not expect.
THEOREM StateCorrect == Spec => []StateCounts
  BY HoldersCorrect, PTL

-----------------------------------------------------------------------------
(* Refinement *)

\* The mutex over wait queues and notifications implements the abstract
\* read/write lock: every section is an acquisition, a release or a stutter.
THEOREM MutexImplementsRWLock == Spec => ImplementsRWLock
<1> DEFINE held == [t \in Threads |-> IF Holds(t) THEN mode[t] ELSE "none"]
<1>1. Init => RW!Init
  BY DEF Init, RW!Init, Holds
<1>2. TypeOK /\ HoldInv /\ [Next]_vars => [RW!Next]_held
  <2> SUFFICES ASSUME TypeOK, HoldInv, [Next]_vars PROVE [RW!Next]_held
    OBVIOUS
  <2>1. \A t \in Threads : /\ held[t] = "read" <=> t \in Readers
                           /\ held[t] = "write" <=> t \in Writers
                           /\ held[t] \in {"none", "read", "write"}
    BY DEF Readers, Writers, TypeOK, Modes
  <2>2. \A t \in Threads : /\ held'[t] = "read" <=> t \in Readers'
                           /\ held'[t] = "write" <=> t \in Writers'
                           /\ held'[t] \in {"none", "read", "write"}
    BY TypeStep DEF Readers, Writers, TypeOK, Modes
  <2>3. CASE Keeps
    <3>1. held' = held
      BY <2>1, <2>2, <2>3 DEF Keeps
    <3> QED
      BY <3>1
  <2>4. ASSUME NEW t \in Threads, TakesRead(t) PROVE RW!Next
    <3>1. held[t] = "none" /\ held' = [held EXCEPT ![t] = "read"]
      BY <2>1, <2>2, <2>4, HoldersFinite DEF TakesRead
    <3>2. Writers = {}
      BY <2>4 DEF TakesRead, HoldInv, StateCounts
    <3> QED
      BY <2>1, <3>1, <3>2 DEF RW!Next, RW!Acquire, RW!Compatible
  <2>5. ASSUME NEW t \in Threads, TakesWrite(t) PROVE RW!Next
    <3>1. held[t] = "none" /\ held' = [held EXCEPT ![t] = "write"]
      BY <2>1, <2>2, <2>5 DEF TakesWrite
    <3>2. Writers = {} /\ Readers = {}
      BY <2>5, HoldersFinite DEF TakesWrite, HoldInv, StateCounts
    <3> QED
      BY <2>1, <3>1, <3>2 DEF RW!Next, RW!Acquire, RW!Compatible
  <2>6. ASSUME NEW t \in Threads, GivesRead(t) \/ GivesWrite(t) PROVE RW!Next
    <3>1. held[t] # "none" /\ held' = [held EXCEPT ![t] = "none"]
      BY <2>1, <2>2, <2>6, HoldersFinite DEF GivesRead, GivesWrite
    <3> QED
      BY <3>1 DEF RW!Next, RW!Release
  <2> QED
    BY <2>3, <2>4, <2>5, <2>6, HoldersCases
<1>3. Exclusion /\ StateCounts => HoldInv
  BY DEF HoldInv
<1> QED
  BY <1>1, <1>2, <1>3, TypeCorrect, HoldersCorrect, PTL DEF Spec, ImplementsRWLock, RW!Spec

=============================================================================
