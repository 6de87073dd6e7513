------------------------------- MODULE RWLock -------------------------------
(***************************************************************************)
(* What the sleeping mutex of core/kernel/mutex.c promises its users: a    *)
(* lock that one writer or any number of readers hold.  A thread acquires  *)
(* or releases in one step; nothing is said of the order in which waiting  *)
(* threads are served.                                                     *)
(***************************************************************************)

CONSTANT Threads

VARIABLE holder     \* [Threads -> {"none", "read", "write"}]

\* Nobody holds a mutex set to MUTEX_INITIALIZER.
Init == holder = [t \in Threads |-> "none"]

\* A write lock excludes everybody, a read lock only the writer.
Compatible(m) ==
    \A u \in Threads : \/ holder[u] = "none"
                       \/ m = "read" /\ holder[u] = "read"

Acquire(t, m) ==
    /\ holder[t] = "none"
    /\ Compatible(m)
    /\ holder' = [holder EXCEPT ![t] = m]

Release(t) ==
    /\ holder[t] # "none"
    /\ holder' = [holder EXCEPT ![t] = "none"]

Next ==
    \E t \in Threads : \/ \E m \in {"read", "write"} : Acquire(t, m)
                       \/ Release(t)

Spec == Init /\ [][Next]_holder

=============================================================================
