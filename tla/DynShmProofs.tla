---------------------------- MODULE DynShmProofs ----------------------------
(***************************************************************************)
(* Proofs about DynShm for every set of threads and of cookies.            *)
(*                                                                         *)
(* None of the properties is inductive by itself: that an element is not   *)
(* freed under a thread rests on its counter being exact, the counter on   *)
(* no thread being left with a freed element, and both on the order of the *)
(* last mobj_put() and the release.  Inv is the conjunction that is.       *)
(***************************************************************************)
EXTENDS DynShm, FiniteSetTheorems, TLAPS

-----------------------------------------------------------------------------
(* The inductive invariant *)

\* The last mobj_put() of an element, from the counter that reaches 0 to the
\* choice of who frees it.
Finishing == {"free", "free_helper", "release_frees"}

\* The locals of a thread fit the function it is in.
LocalOK(t) ==
    /\ th[t].pc = "idle" => th[t] = Idle
    /\ th[t].pc \notin {"idle", "rel_exit"} => th[t].c \in Cookies
    /\ th[t].pc = "rel_exit" => th[t].c = None
    /\ th[t].pc \in {"unguard", "get", "inc_map", "map_lock", "unmap", "put"} => ~th[t].map
    /\ th[t].pc \in ReleaseLabels \cup {"rel_exit"} => th[t].rel
    /\ th[t].rel => th[t].pc \in ReleaseLabels \cup Finishing \cup
                                 {"notify", "broadcast", "rel_exit"}

\* The element a thread will touch is in the state that the thread relies on.
ElementOK(t) ==
    LET s == shm[th[t].c]
    IN  /\ UsesElement(t) => s.live
        /\ th[t].pc = "unguard" => s.guarded
        /\ th[t].pc = "get" => ~s.guarded /\ ~s.releasing
        /\ th[t].pc \in Finishing => s.refc = 0 /\ ~s.release_frees
        /\ th[t].pc = "free_helper" => s.guarded
        /\ th[t].pc = "release_frees" => s.releasing
        /\ (th[t].rel /\ th[t].pc # "rel_exit") => s.releasing
        /\ th[t].pc # "panic"

\* The flags of an element fit together.
FlagsOK(c) ==
    /\ shm[c].guarded => ~shm[c].releasing
    /\ shm[c].release_frees => shm[c].refc = 0 /\ shm[c].releasing

\* Two threads with one element: memory of one call has one user, one thread
\* finishes an element, one thread releases it.
Releasing(t) == th[t].rel /\ th[t].pc # "rel_exit"
AloneOK(t, u) ==
    (UsesElement(t) /\ UsesElement(u) /\ th[t].c = th[u].c) =>
        /\ shm[th[t].c].guarded => t = u
        /\ (th[t].pc \in Finishing /\ th[u].pc \in Finishing) => t = u
        /\ (Releasing(t) /\ Releasing(u)) => t = u

LifeInv ==
    /\ \A t \in Threads : LocalOK(t) /\ ElementOK(t)
    /\ \A c \in Cookies : FlagsOK(c)
    /\ \A t, u \in Threads : AloneOK(t, u)

\* The threads that shm_release_waiters counts.
Waiters == {t \in Threads : th[t].pc \in {"rel_check", "rel_wait", "rel_relock", "rel_exit"}}
WaitersExact == shm_release_waiters = Cardinality(Waiters)

Inv == /\ TypeOK
       /\ LifeInv
       /\ CountersExact
       /\ MappedWhileUsed
       /\ WaitersExact
       /\ NoLostWakeup

-----------------------------------------------------------------------------
(* What the counters say *)

\* The users of an element that have it mapped.
Mapped(c) == {t \in Users(c) : th[t].map}

\* The sets that the counters count are finite.
LEMMA UsersFinite ==
    ASSUME NEW c
    PROVE  /\ IsFiniteSet(Users(c))
           /\ Cardinality(Users(c)) \in Nat
           /\ Cardinality(Users(c)) = 0 <=> Users(c) = {}
<1>1. Users(c) \subseteq Threads
  BY DEF Users
<1>2. IsFiniteSet(Users(c))
  BY <1>1, ThreadsAssumption, FS_Subset
<1> QED
  BY <1>2, FS_CardinalityType, FS_EmptySet

\* So is the set that mapcount counts.
LEMMA MappedFinite ==
    ASSUME NEW c
    PROVE  /\ IsFiniteSet(Mapped(c))
           /\ Cardinality(Mapped(c)) \in Nat
           /\ Cardinality(Mapped(c)) = 0 <=> Mapped(c) = {}
<1>1. Mapped(c) \subseteq Users(c)
  BY DEF Mapped
<1>2. IsFiniteSet(Mapped(c))
  BY <1>1, UsersFinite, FS_Subset
<1> QED
  BY <1>2, FS_CardinalityType, FS_EmptySet

\* CountersExact for one element.
LEMMA CountersOf ==
    ASSUME CountersExact, TypeOK, NEW c \in Cookies
    PROVE  /\ shm[c].refc = Cardinality(Users(c)) + OwnRef(c)
           /\ (shm[c].live /\ shm[c].refc > 0) => shm[c].mapcount = Cardinality(Mapped(c))
           /\ shm[c].refc \in Nat /\ shm[c].mapcount \in Nat
           /\ Cardinality(Users(c)) \in Nat /\ Cardinality(Mapped(c)) \in Nat
           /\ OwnRef(c) \in {0, 1}
<1>1. /\ shm[c].refc = Cardinality(Users(c)) + OwnRef(c)
      /\ (shm[c].live /\ shm[c].refc > 0) => shm[c].mapcount = Cardinality(Mapped(c))
  BY DEF CountersExact, Mapped
<1>2. shm[c].refc \in Nat /\ shm[c].mapcount \in Nat
  BY DEF TypeOK
<1>3. Cardinality(Users(c)) \in Nat /\ Cardinality(Mapped(c)) \in Nat
  BY UsersFinite, MappedFinite
<1>4. OwnRef(c) \in {0, 1}
  BY DEF OwnRef
<1> QED
  BY <1>1, <1>2, <1>3, <1>4

\* A thread that uses an element, has found it, registers it or is about to
\* give up the reference of the registration finds the counter above 0.
LEMMA Referenced ==
    ASSUME TypeOK, LifeInv, CountersExact, NEW t \in Threads,
           th[t].pc \in UserLabels \cup {"unguard", "get", "rel_put"}
    PROVE  th[t].c \in Cookies /\ shm[th[t].c].refc > 0
<1> DEFINE c == th[t].c
<1>1. c \in Cookies
  BY DEF LifeInv, LocalOK, UserLabels
<1>2. /\ shm[c].refc = Cardinality(Users(c)) + OwnRef(c)
      /\ Cardinality(Users(c)) \in Nat /\ OwnRef(c) \in {0, 1}
  BY <1>1, CountersOf
<1>3. CASE th[t].pc \in UserLabels
  <2>1. Users(c) # {}
    BY <1>3 DEF Users
  <2>2. Cardinality(Users(c)) # 0
    BY <2>1, UsersFinite
  <2> HIDE DEF c
  <2>3. shm[c].refc > 0
    BY <1>2, <2>2
  <2> QED
    BY <1>1, <2>3 DEF c
<1>4. CASE th[t].pc \in {"unguard", "get", "rel_put"}
  <2>1. OwnRef(c) = 1
    BY <1>1, <1>4 DEF OwnRef, LifeInv, ElementOK, UsesElement, Touches
  <2> HIDE DEF c
  <2>2. shm[c].refc > 0
    BY <1>2, <2>1
  <2> QED
    BY <1>1, <2>2 DEF c
<1> QED
  BY <1>1, <1>3, <1>4

\* A registered element that nobody has begun to release has a reference.
LEMMA RegisteredReferenced ==
    ASSUME TypeOK, CountersExact, NEW c \in Cookies,
           shm[c].live, ~shm[c].guarded, ~shm[c].releasing
    PROVE  shm[c].refc > 0
<1>1. OwnRef(c) = 1
  BY DEF OwnRef
<1>2. /\ shm[c].refc = Cardinality(Users(c)) + OwnRef(c)
      /\ Cardinality(Users(c)) \in Nat
  BY CountersOf
<1> QED
  BY <1>1, <1>2

\* A mapped user counts in mapcount.
LEMMA MappedCounted ==
    ASSUME TypeOK, LifeInv, CountersExact, NEW t \in Threads,
           th[t].pc = "hold", th[t].map
    PROVE  shm[th[t].c].mapcount > 0
<1> DEFINE c == th[t].c
<1>1. c \in Cookies /\ shm[c].refc > 0 /\ shm[c].live
  BY Referenced DEF UserLabels, LifeInv, ElementOK, UsesElement, Touches
<1>2. Mapped(c) # {}
  BY DEF Mapped, Users, UserLabels
<1>3. Cardinality(Mapped(c)) \in Nat /\ Cardinality(Mapped(c)) # 0
  BY <1>2, MappedFinite
<1>4. shm[c].mapcount = Cardinality(Mapped(c))
  BY <1>1, CountersOf
<1> HIDE DEF c
<1>5. shm[c].mapcount > 0
  BY <1>3, <1>4
<1> QED
  BY <1>5 DEF c

-----------------------------------------------------------------------------
(* Steps of one thread with one element *)

\* No other thread moves, no other element changes.
OnlyThread(t) == \A u \in Threads \ {t} : th'[u] = th[u]
OnlyElement(c) == \A d \in Cookies \ {c} : shm'[d] = shm[d]

\* The thread goes to a label and its other locals stay.
Goes(t, label) ==
    /\ OnlyThread(t)
    /\ th'[t].pc = label
    /\ th'[t].c = th[t].c /\ th'[t].rel = th[t].rel /\ th'[t].map = th[t].map

\* The locals of a thread that is in none of the functions.
LEMMA IdleFields ==
    Idle.pc = "idle" /\ Idle.c = None /\ Idle.rel = FALSE /\ Idle.map = FALSE
  BY DEF Idle

\* Goto() is such a step.
LEMMA GotoGoes ==
    ASSUME TypeOK, NEW t \in Threads, NEW label, Goto(t, label)
    PROVE  Goes(t, label)
  BY DEF TypeOK, Goto, Goes, OnlyThread

\* A thread that goes to a label or returns has the type of a thread.
LEMMA GotoType ==
    ASSUME TypeOK, NEW t \in Threads,
           (\E label \in Labels : Goto(t, label)) \/ Return(t)
    PROVE  th' \in [Threads -> [pc : Labels, c : Cookies \cup {None}, rel : BOOLEAN, map : BOOLEAN]]
<1>1. CASE \E label \in Labels : Goto(t, label)
  BY <1>1 DEF TypeOK, Goto
<1>2. CASE Return(t)
  BY <1>2 DEF TypeOK, Return, Idle, Labels
<1> QED
  BY <1>1, <1>2

\* How many members a finite set has with one thread more or less.
LEMMA CardinalityOneMore ==
    ASSUME NEW S, IsFiniteSet(S), NEW t
    PROVE  /\ t \notin S => Cardinality(S \cup {t}) = Cardinality(S) + 1
           /\ t \in S => Cardinality(S \ {t}) = Cardinality(S) - 1
           /\ t \in S => S \cup {t} = S
           /\ t \notin S => S \ {t} = S
<1>1. t \notin S => Cardinality(S \cup {t}) = Cardinality(S) + 1
  BY FS_AddElement
<1>2. t \in S => Cardinality(S \ {t}) = Cardinality(S) - 1
  BY FS_RemoveElement
<1>3. t \in S => S \cup {t} = S
  OBVIOUS
<1>4. t \notin S => S \ {t} = S
  OBVIOUS
<1> QED
  BY <1>1, <1>2, <1>3, <1>4

\* A step of t adds t to the users of an element, removes it from them, or
\* changes nothing; the same for those that have it mapped.
LEMMA UsersAfter ==
    ASSUME NEW t \in Threads, OnlyThread(t), NEW c
    PROVE  /\ Users(c)' = IF th'[t].c = c /\ th'[t].pc \in UserLabels
                          THEN Users(c) \cup {t} ELSE Users(c) \ {t}
           /\ Mapped(c)' = IF th'[t].c = c /\ th'[t].pc \in UserLabels /\ th'[t].map
                           THEN Mapped(c) \cup {t} ELSE Mapped(c) \ {t}
  BY DEF OnlyThread, Users, Mapped

\* The counters of the elements that the step is not about stay exact.
LEMMA CountersFrame ==
    ASSUME CountersExact, NEW t \in Threads, NEW c \in Cookies,
           OnlyThread(t), OnlyElement(c),
           th[t].c \in {c, None}, th'[t].c \in {c, None},
           shm'[c].refc = Cardinality(Users(c)') + OwnRef(c)',
           (shm'[c].live /\ shm'[c].refc > 0) => shm'[c].mapcount = Cardinality(Mapped(c)')
    PROVE  CountersExact'
<1> SUFFICES ASSUME NEW d \in Cookies
             PROVE  /\ shm'[d].refc = Cardinality(Users(d)') + OwnRef(d)'
                    /\ (shm'[d].live /\ shm'[d].refc > 0)
                          => shm'[d].mapcount = Cardinality(Mapped(d)')
  BY DEF CountersExact, Mapped
<1>1. CASE d = c
  BY <1>1
<1>2. CASE d # c
  <2>1. d # None /\ shm'[d] = shm[d]
    BY <1>2, NoneAssumption DEF OnlyElement
  <2>2. Users(d)' = Users(d) /\ Mapped(d)' = Mapped(d)
    BY <1>2, <2>1 DEF OnlyThread, Users, Mapped
  <2>3. OwnRef(d)' = OwnRef(d)
    BY <1>2, <2>1 DEF OnlyThread, OwnRef
  <2> QED
    BY <2>1, <2>2, <2>3 DEF CountersExact, Mapped
<1> QED
  BY <1>1, <1>2

\* A step of t, not the one of Unmap(), that leaves the mapping alone.
LEMMA MappedFrame ==
    ASSUME TypeOK, LifeInv, MappedWhileUsed, NEW t \in Threads, NEW c \in Cookies,
           OnlyThread(t), OnlyElement(c), th[t].pc # "unmap",
           th'[t].pc = "hold" => ~th'[t].map,
           shm'[c].mm = shm[c].mm, shm'[c].mapcount = shm[c].mapcount
    PROVE  MappedWhileUsed'
<1>1. \A d \in Cookies : shm'[d].mm = shm[d].mm /\ shm'[d].mapcount = shm[d].mapcount
  BY DEF OnlyElement
<1>2. ASSUME NEW u \in Threads, th'[u].pc = "hold", th'[u].map PROVE shm'[th'[u].c].mm
  <2>1. u # t /\ th'[u] = th[u]
    BY <1>2 DEF OnlyThread
  <2>2. th[u].c \in Cookies /\ shm[th[u].c].mm
    BY <1>2, <2>1 DEF LifeInv, LocalOK, MappedWhileUsed, At
  <2> QED
    BY <1>1, <2>1, <2>2
<1>3. ASSUME NEW d \in Cookies, shm'[d].mm, shm'[d].mapcount = 0
      PROVE  \E u \in Threads : th'[u].pc = "unmap" /\ th'[u].c = d
  <2>1. PICK u \in Threads : th[u].pc = "unmap" /\ th[u].c = d
    BY <1>1, <1>3 DEF MappedWhileUsed, At
  <2> QED
    BY <2>1 DEF OnlyThread
<1> QED
  BY <1>2, <1>3 DEF MappedWhileUsed, At

\* A step of t adds t to the waiters of the release or removes it from them.
LEMMA WaitersAfter ==
    ASSUME WaitersExact, NEW t \in Threads, OnlyThread(t)
    PROVE  /\ IsFiniteSet(Waiters)
           /\ Waiters' = IF th'[t].pc \in {"rel_check", "rel_wait", "rel_relock", "rel_exit"}
                         THEN Waiters \cup {t} ELSE Waiters \ {t}
<1>1. Waiters \subseteq Threads
  BY DEF Waiters
<1> QED
  BY <1>1, ThreadsAssumption, FS_Subset DEF OnlyThread, Waiters

\* A step of t that neither starts nor ends its wait.
LEMMA WaitersFrame ==
    ASSUME WaitersExact, NEW t \in Threads, OnlyThread(t),
           shm_release_waiters' = shm_release_waiters, t \in Waiters <=> (t \in Waiters)'
    PROVE  WaitersExact'
<1>1. Waiters' = Waiters
  BY DEF OnlyThread, Waiters
<1> QED
  BY <1>1 DEF WaitersExact

-----------------------------------------------------------------------------
(* Registration and lookup *)

\* mobj_reg_shm_alloc(): no thread holds the cookie of memory that is not
\* registered, so the new element has one user or one registration.
LEMMA AllocStep ==
    ASSUME Inv, NEW t \in Threads, NEW c \in Cookies,
           NEW l \in {"unguard", "hold", "inc_map"}, Alloc(t, c, l)
    PROVE  Inv'
<1> USE DEF UserLabels, ReleaseLabels, Finishing
<1>1. th[t] = Idle /\ th[t].pc = "idle"
  BY DEF Inv, LifeInv, LocalOK, Alloc, At
<1>2. /\ OnlyThread(t)
      /\ th'[t] = [pc |-> l, c |-> c, rel |-> FALSE, map |-> FALSE]
  BY DEF Alloc, Idle, OnlyThread, Inv, TypeOK
<1>3. /\ OnlyElement(c)
      /\ shm'[c] = [live |-> TRUE, refc |-> 1, mapcount |-> 0, mm |-> FALSE,
                    guarded |-> TRUE, releasing |-> FALSE, release_frees |-> FALSE]
      /\ ~shm[c].live
      /\ UNCHANGED <<shm_mu, shm_release_waiters>>
  BY DEF Alloc, Free, OnlyElement, Inv, TypeOK
<1>4. \A u \in Threads \ {t} : UsesElement(u) => th[u].c # c /\ th[u].c \in Cookies
  BY <1>3 DEF Inv, LifeInv, LocalOK, ElementOK, UsesElement, Touches
<1>5. TypeOK'
  BY DEF Alloc, Idle, Free, Inv, TypeOK, Labels
<1>6. \A u \in Threads : LocalOK(u)'
  BY <1>2, NoneAssumption DEF Inv, LifeInv, LocalOK, OnlyThread
<1>7. \A u \in Threads : ElementOK(u)'
  BY <1>2, <1>3, <1>4 DEF Inv, LifeInv, ElementOK, UsesElement, Touches, LocalOK,
                         OnlyThread, OnlyElement
<1>8. \A d \in Cookies : FlagsOK(d)'
  BY <1>3 DEF Inv, LifeInv, FlagsOK, OnlyElement
<1>9. \A u, v \in Threads : AloneOK(u, v)'
  BY <1>2, <1>3, <1>4 DEF Inv, LifeInv, AloneOK, UsesElement, Touches, Releasing, LocalOK,
                         OnlyThread, OnlyElement
<1>10. CountersExact'
  <2>1. Users(c) = {} /\ Mapped(c) = {}
    BY <1>1, <1>4, IdleFields DEF Users, Mapped, UsesElement, Touches
  <2>2. /\ Users(c)' = IF l = "unguard" THEN {} ELSE {t}
        /\ Mapped(c)' = {}
    BY <1>2, <2>1, UsersAfter
  <2>3. OwnRef(c)' = IF l = "unguard" THEN 1 ELSE 0
    BY <1>2, <1>3, <1>4 DEF OwnRef, OnlyThread, UsesElement, Touches, Inv, LifeInv, LocalOK
  <2>4. Cardinality(Users(c)') = (IF l = "unguard" THEN 0 ELSE 1) /\ Cardinality(Mapped(c)') = 0
    BY <2>2, FS_EmptySet, FS_Singleton
  <2>5. th[t].c \in {c, None} /\ th'[t].c \in {c, None}
    BY <1>1, <1>2, IdleFields
  <2>6. shm'[c].refc = Cardinality(Users(c)') + OwnRef(c)'
    BY <1>3, <2>3, <2>4
  <2> QED
    BY <1>2, <1>3, <2>4, <2>5, <2>6, CountersFrame DEF Inv
<1>11. MappedWhileUsed'
  BY <1>1, <1>2, <1>3, <1>4, IdleFields
     DEF Inv, MappedWhileUsed, At, OnlyThread, OnlyElement, UsesElement, Touches, LifeInv, LocalOK
<1>12. WaitersExact'
  <2>1. t \notin Waiters /\ (t \notin Waiters)'
    BY <1>1, <1>2, IdleFields DEF Waiters
  <2> QED
    BY <1>2, <1>3, <2>1, WaitersFrame DEF Inv
<1>13. NoLostWakeup'
  BY <1>1, <1>2, <1>3, <1>4, IdleFields
     DEF Inv, NoLostWakeup, At, OnlyThread, OnlyElement, UsesElement, LifeInv, LocalOK
<1> QED
  BY <1>5, <1>6, <1>7, <1>8, <1>9, <1>10, <1>11, <1>12, <1>13 DEF Inv, LifeInv

\* The reference of the thread becomes that of the registration.
LEMMA UnguardStep ==
    ASSUME Inv, NEW t \in Threads, Unguard(t)
    PROVE  Inv'
<1> USE DEF UserLabels, ReleaseLabels, Finishing
<1>1. PICK c \in Cookies : c = th[t].c
  BY DEF Inv, LifeInv, LocalOK, Unguard, At
<1>2. /\ OnlyThread(t) /\ th[t].pc = "unguard" /\ ~th[t].map /\ ~th[t].rel
      /\ th'[t] = Idle
  BY DEF Unguard, Return, At, OnlyThread, Inv, TypeOK, LifeInv, LocalOK
<1>3. /\ OnlyElement(c)
      /\ shm'[c] = [shm[c] EXCEPT !.guarded = FALSE]
      /\ UNCHANGED <<shm_mu, shm_release_waiters>>
  BY <1>1 DEF Unguard, OnlyElement, Inv, TypeOK
<1>4. /\ shm[c].live /\ shm[c].guarded /\ ~shm[c].releasing
      /\ shm[c].refc > 0 /\ shm[c].refc \in Nat
      /\ \A u \in Threads \ {t} : UsesElement(u) => th[u].c # c /\ th[u].c \in Cookies
  BY <1>1, <1>2, Referenced DEF Inv, LifeInv, LocalOK, ElementOK, FlagsOK, AloneOK, UsesElement,
                               Touches, TypeOK
<1>5. TypeOK'
  BY DEF Unguard, Return, Idle, Inv, TypeOK, Labels
<1>6. \A u \in Threads : LocalOK(u)'
  BY <1>2, IdleFields DEF Inv, LifeInv, LocalOK, OnlyThread
<1>7. \A u \in Threads : ElementOK(u)'
  BY <1>2, <1>3, <1>4, IdleFields
     DEF Inv, LifeInv, ElementOK, UsesElement, Touches, LocalOK, OnlyThread, OnlyElement
<1>8. \A d \in Cookies : FlagsOK(d)'
  BY <1>3, <1>4 DEF Inv, LifeInv, FlagsOK, OnlyElement, TypeOK
<1>9. \A u, v \in Threads : AloneOK(u, v)'
  BY <1>2, <1>3, <1>4, IdleFields
     DEF Inv, LifeInv, AloneOK, UsesElement, Touches, Releasing, LocalOK, OnlyThread, OnlyElement
<1>10. CountersExact'
  <2>1. Users(c)' = Users(c) /\ Mapped(c)' = Mapped(c)
    BY <1>1, <1>2, IdleFields DEF OnlyThread, Users, Mapped
  <2>2. OwnRef(c) = 1 /\ OwnRef(c)' = 1
    BY <1>1, <1>2, <1>3, <1>4 DEF OwnRef, Inv, TypeOK
  <2>3. /\ shm'[c].refc = shm[c].refc /\ shm'[c].mapcount = shm[c].mapcount
        /\ shm'[c].live = shm[c].live
    BY <1>3 DEF Inv, TypeOK
  <2>4. th[t].c \in {c, None} /\ th'[t].c \in {c, None}
    BY <1>1, <1>2, IdleFields
  <2> QED
    BY <1>2, <1>3, <2>1, <2>2, <2>3, <2>4, CountersFrame, CountersOf DEF Inv
<1>11. MappedWhileUsed'
  BY <1>1, <1>2, <1>3, IdleFields DEF Inv, MappedWhileUsed, At, OnlyThread, OnlyElement, TypeOK,
                                      LifeInv, LocalOK
<1>12. WaitersExact'
  <2>1. t \notin Waiters /\ (t \notin Waiters)'
    BY <1>1, <1>2, IdleFields DEF Waiters
  <2> QED
    BY <1>2, <1>3, <2>1, WaitersFrame DEF Inv
<1>13. NoLostWakeup'
  BY <1>1, <1>2, <1>3, <1>4, IdleFields
     DEF Inv, NoLostWakeup, At, OnlyThread, OnlyElement, UsesElement, LifeInv, LocalOK
<1> QED
  BY <1>5, <1>6, <1>7, <1>8, <1>9, <1>10, <1>11, <1>12, <1>13 DEF Inv, LifeInv

\* A lookup finds an element that its registration still references, and
\* counts in nothing yet.
LEMMA FindStep ==
    ASSUME Inv, NEW t \in Threads, NEW c \in Cookies, Find(t, c)
    PROVE  Inv'
<1> USE DEF UserLabels, ReleaseLabels, Finishing
<1>1. th[t] = Idle /\ th[t].pc = "idle"
  BY DEF Inv, LifeInv, LocalOK, Find, At
<1>2. /\ OnlyThread(t)
      /\ th'[t] = [pc |-> "get", c |-> c, rel |-> FALSE, map |-> FALSE]
      /\ UNCHANGED <<shm, shm_mu, shm_release_waiters>>
      /\ shm[c].live /\ ~shm[c].guarded /\ ~shm[c].releasing
  BY DEF Find, Idle, OnlyThread, Inv, TypeOK
<1>3. OnlyElement(c)
  BY <1>2 DEF OnlyElement
<1>5. TypeOK'
  BY DEF Find, Idle, Inv, TypeOK, Labels
<1>6. \A u \in Threads : LocalOK(u)'
  BY <1>2, NoneAssumption DEF Inv, LifeInv, LocalOK, OnlyThread
<1>7. \A u \in Threads : ElementOK(u)'
  BY <1>2 DEF Inv, LifeInv, ElementOK, UsesElement, OnlyThread
<1>8. \A d \in Cookies : FlagsOK(d)'
  BY <1>2 DEF Inv, LifeInv, FlagsOK
<1>9. \A u, v \in Threads : AloneOK(u, v)'
  BY <1>2 DEF Inv, LifeInv, AloneOK, UsesElement, Touches, Releasing, LocalOK, OnlyThread
<1>10. CountersExact'
  <2>1. Users(c)' = Users(c) /\ Mapped(c)' = Mapped(c) /\ OwnRef(c)' = OwnRef(c)
    BY <1>1, <1>2, IdleFields DEF OnlyThread, Users, Mapped, OwnRef
  <2>2. th[t].c \in {c, None} /\ th'[t].c \in {c, None}
    BY <1>1, <1>2, IdleFields
  <2> QED
    BY <1>2, <1>3, <2>1, <2>2, CountersFrame, CountersOf DEF Inv
<1>11. MappedWhileUsed'
  BY <1>1, <1>2, IdleFields DEF Inv, MappedWhileUsed, At, OnlyThread
<1>12. WaitersExact'
  <2>1. t \notin Waiters /\ (t \notin Waiters)'
    BY <1>1, <1>2, IdleFields DEF Waiters
  <2> QED
    BY <1>2, <2>1, WaitersFrame DEF Inv
<1>13. NoLostWakeup'
  BY <1>1, <1>2, IdleFields DEF Inv, NoLostWakeup, At, OnlyThread
<1> QED
  BY <1>5, <1>6, <1>7, <1>8, <1>9, <1>10, <1>11, <1>12, <1>13 DEF Inv, LifeInv

\* mobj_get(): the counter is not 0, since no release has begun.
LEMMA GetStep ==
    ASSUME Inv, NEW t \in Threads, Get(t)
    PROVE  Inv'
<1> USE DEF UserLabels, ReleaseLabels, Finishing
<1>1. PICK c \in Cookies : c = th[t].c
  BY DEF Inv, LifeInv, LocalOK, Get, At
<1>2. /\ th[t].pc = "get" /\ ~th[t].map /\ ~th[t].rel
      /\ shm[c].live /\ shm[c].refc > 0 /\ shm[c].refc \in Nat
      /\ ~shm[c].guarded /\ ~shm[c].releasing
  BY <1>1, Referenced DEF Get, At, Inv, TypeOK, LifeInv, LocalOK, ElementOK, UsesElement, Touches
<1>3. /\ Goto(t, "hold")
      /\ shm' = [shm EXCEPT ![c].refc = @ + 1]
      /\ UNCHANGED <<shm_mu, shm_release_waiters>>
  BY <1>1, <1>2 DEF Get
<1>4. /\ Goes(t, "hold") /\ OnlyThread(t)
      /\ OnlyElement(c)
      /\ shm'[c] = [shm[c] EXCEPT !.refc = @ + 1]
      /\ UNCHANGED <<shm_mu, shm_release_waiters>>
  BY <1>3, GotoGoes DEF Goes, OnlyElement, Inv, TypeOK
<1>5. TypeOK'
  BY <1>2, <1>3 DEF Goto, Inv, TypeOK, Labels
<1>6. \A u \in Threads : LocalOK(u)'
  BY <1>1, <1>2, <1>4 DEF Inv, LifeInv, LocalOK, Goes, OnlyThread
<1>7. \A u \in Threads : ElementOK(u)'
  BY <1>2, <1>4 DEF Inv, LifeInv, ElementOK, UsesElement, Touches, LocalOK, Goes,
                   OnlyThread, OnlyElement, TypeOK
<1>8. \A d \in Cookies : FlagsOK(d)'
  BY <1>2, <1>4 DEF Inv, LifeInv, FlagsOK, OnlyElement, TypeOK
<1>9. \A u, v \in Threads : AloneOK(u, v)'
  BY <1>2, <1>4 DEF Inv, LifeInv, AloneOK, UsesElement, Touches, Releasing, LocalOK, Goes, OnlyThread,
                   OnlyElement, TypeOK
<1>10. CountersExact'
  <2>1. t \notin Users(c) /\ Users(c)' = Users(c) \cup {t} /\ Mapped(c)' = Mapped(c)
    BY <1>1, <1>2, <1>4 DEF Goes, OnlyThread, Users, Mapped
  <2>2. Cardinality(Users(c)') = Cardinality(Users(c)) + 1
    BY <2>1, UsersFinite, CardinalityOneMore
  <2>3. OwnRef(c) = 1 /\ OwnRef(c)' = 1
    BY <1>2, <1>4 DEF OwnRef, Inv, TypeOK
  <2>4. /\ shm'[c].refc = shm[c].refc + 1 /\ shm'[c].mapcount = shm[c].mapcount
        /\ shm'[c].live = shm[c].live
    BY <1>4 DEF Inv, TypeOK
  <2>5. /\ shm[c].refc = Cardinality(Users(c)) + 1
        /\ shm[c].mapcount = Cardinality(Mapped(c))
        /\ Cardinality(Users(c)) \in Nat
    BY <1>2, <2>3, CountersOf DEF Inv
  <2>6. th[t].c \in {c, None} /\ th'[t].c \in {c, None}
    BY <1>1, <1>4 DEF Goes
  <2>7. shm'[c].refc = Cardinality(Users(c)') + OwnRef(c)'
    BY <2>2, <2>3, <2>4, <2>5
  <2> QED
    BY <1>4, <2>1, <2>4, <2>5, <2>6, <2>7, CountersFrame DEF Inv
<1>11. MappedWhileUsed'
  BY <1>1, <1>2, <1>4 DEF Inv, MappedWhileUsed, At, Goes, OnlyThread, OnlyElement, TypeOK,
                          LifeInv, LocalOK
<1>12. WaitersExact'
  <2>1. t \notin Waiters /\ (t \notin Waiters)'
    BY <1>2, <1>4 DEF Waiters, Goes
  <2> QED
    BY <1>4, <2>1, WaitersFrame DEF Inv
<1>13. NoLostWakeup'
  BY <1>2, <1>4 DEF Inv, NoLostWakeup, At, Goes, OnlyThread, OnlyElement, LifeInv, LocalOK, TypeOK
<1> QED
  BY <1>5, <1>6, <1>7, <1>8, <1>9, <1>10, <1>11, <1>12, <1>13 DEF Inv, LifeInv

-----------------------------------------------------------------------------
(* Mapping *)

\* The element but for its mapping stays, and mapcount and the mapping fit the
\* threads after the step.
SameLife(c) ==
    /\ shm'[c].live = shm[c].live /\ shm'[c].refc = shm[c].refc
    /\ shm'[c].guarded = shm[c].guarded /\ shm'[c].releasing = shm[c].releasing
    /\ shm'[c].release_frees = shm[c].release_frees
MappingFits(c) ==
    /\ shm'[c].mapcount = Cardinality(Mapped(c)')
    /\ Mapped(c)' # {} => shm'[c].mm
    /\ (shm'[c].mm /\ shm'[c].mapcount = 0)
          => \E u \in Threads : th'[u].pc = "unmap" /\ th'[u].c = c

\* A step of a user that changes nothing but the mapping of its element keeps
\* the invariant if mapcount and the mapping fit after it.
LEMMA MappingStep ==
    ASSUME Inv, TypeOK', NEW t \in Threads, NEW c \in Cookies, c = th[t].c,
           OnlyThread(t), OnlyElement(c), UNCHANGED shm_release_waiters,
           th[t].pc \in UserLabels, th'[t].pc \in UserLabels,
           th'[t].c = c, th'[t].rel = th[t].rel,
           th'[t].pc # "hold" => ~th'[t].map,
           SameLife(c), MappingFits(c)
    PROVE  Inv'
<1> USE DEF UserLabels, ReleaseLabels, Finishing, SameLife, MappingFits
<1>1. \A u \in Threads : LocalOK(u)'
  BY DEF Inv, LifeInv, LocalOK, OnlyThread
<1>2. \A u \in Threads : ElementOK(u)'
  BY DEF Inv, LifeInv, LocalOK, ElementOK, UsesElement, Touches, OnlyThread, OnlyElement
<1>3. \A d \in Cookies : FlagsOK(d)'
  BY DEF Inv, LifeInv, FlagsOK, OnlyElement
<1>4. \A u, v \in Threads : AloneOK(u, v)'
  BY DEF Inv, LifeInv, LocalOK, AloneOK, UsesElement, Touches, Releasing, OnlyThread, OnlyElement
<1>5. CountersExact'
  <2>1. Users(c)' = Users(c)
    BY DEF OnlyThread, Users
  <2>2. OwnRef(c)' = OwnRef(c)
    BY DEF OnlyThread, OwnRef
  <2>3. shm[c].refc = Cardinality(Users(c)) + OwnRef(c)
    BY CountersOf DEF Inv
  <2> QED
    BY <2>1, <2>2, <2>3, CountersFrame DEF Inv
<1>6. MappedWhileUsed'
  <2>1. ASSUME NEW u \in Threads, th'[u].pc = "hold", th'[u].map PROVE shm'[th'[u].c].mm
    <3>1. CASE th'[u].c = c
      BY <2>1, <3>1 DEF Mapped, Users
    <3>2. CASE th'[u].c # c
      BY <2>1, <3>2 DEF Inv, MappedWhileUsed, At, OnlyThread, OnlyElement, LifeInv, LocalOK
    <3> QED
      BY <3>1, <3>2
  <2>2. ASSUME NEW d \in Cookies, d # c, shm'[d].mm, shm'[d].mapcount = 0
        PROVE  \E u \in Threads : th'[u].pc = "unmap" /\ th'[u].c = d
    BY <2>2 DEF Inv, MappedWhileUsed, At, OnlyThread, OnlyElement
  <2> QED
    BY <2>1, <2>2 DEF MappedWhileUsed, At
<1>7. WaitersExact'
  BY WaitersFrame DEF Inv, Waiters
<1>8. NoLostWakeup'
  BY DEF Inv, NoLostWakeup, At, OnlyThread, OnlyElement, LifeInv, LocalOK
<1> QED
  BY <1>1, <1>2, <1>3, <1>4, <1>5, <1>6, <1>7, <1>8 DEF Inv, LifeInv

\* What a user of an element knows of its mapping.
LEMMA UserKnows ==
    ASSUME Inv, NEW t \in Threads, th[t].pc \in UserLabels
    PROVE  /\ th[t].c \in Cookies
           /\ shm[th[t].c].mapcount = Cardinality(Mapped(th[t].c))
           /\ shm[th[t].c].mapcount > 0 <=> Mapped(th[t].c) # {}
           /\ Mapped(th[t].c) # {} => shm[th[t].c].mm
<1>1. PICK c : c = th[t].c
  OBVIOUS
<1>2. c \in Cookies /\ shm[c].refc > 0 /\ shm[c].live
  BY <1>1, Referenced DEF Inv, LifeInv, ElementOK, UsesElement, Touches
<1>3. shm[c].mapcount = Cardinality(Mapped(c))
  BY <1>2, CountersOf DEF Inv
<1>4. Cardinality(Mapped(c)) \in Nat /\ (Cardinality(Mapped(c)) = 0 <=> Mapped(c) = {})
  BY MappedFinite
<1>5. Mapped(c) # {} => shm[c].mm
  BY DEF Mapped, Users, UserLabels, Inv, LifeInv, LocalOK, MappedWhileUsed, At
<1> QED
  BY <1>1, <1>2, <1>3, <1>4, <1>5

\* mobj_reg_shm_inc_map() without the lock counts one thread more, or none.
LEMMA IncMapStep ==
    ASSUME Inv, NEW t \in Threads, IncMap(t)
    PROVE  Inv'
<1> USE DEF UserLabels
<1>1. PICK c : c = th[t].c
  OBVIOUS
<1>2. /\ th[t].pc \in UserLabels /\ ~th[t].map
      /\ c \in Cookies
      /\ shm[c].mapcount = Cardinality(Mapped(c))
      /\ shm[c].mapcount > 0 <=> Mapped(c) # {}
      /\ Mapped(c) # {} => shm[c].mm
      /\ shm[c].mapcount \in Nat
  BY <1>1, UserKnows DEF IncMap, Inv, TypeOK
<1>3. t \notin Mapped(c)
  BY <1>2 DEF Mapped
<1>4. CASE shm[c].mapcount > 0
  <2>1. /\ shm' = [shm EXCEPT ![c].mapcount = @ + 1]
        /\ th' = [th EXCEPT ![t].pc = "hold", ![t].map = TRUE]
        /\ UNCHANGED <<shm_mu, shm_release_waiters>>
    BY <1>1, <1>4 DEF IncMap
  <2>2. TypeOK'
    BY <1>2, <2>1 DEF Inv, TypeOK, Labels
  <2>3. /\ OnlyThread(t) /\ OnlyElement(c)
        /\ th'[t].pc = "hold" /\ th'[t].map /\ th'[t].c = c /\ th'[t].rel = th[t].rel
        /\ shm'[c] = [shm[c] EXCEPT !.mapcount = @ + 1]
    BY <1>1, <1>2, <2>1 DEF OnlyThread, OnlyElement, Inv, TypeOK
  <2>4. Mapped(c)' = Mapped(c) \cup {t}
    BY <2>3, UsersAfter
  <2>5. Cardinality(Mapped(c)') = Cardinality(Mapped(c)) + 1
    BY <1>3, <2>4, MappedFinite, CardinalityOneMore
  <2>6. shm'[c].mapcount = Cardinality(Mapped(c)') /\ shm'[c].mapcount # 0
    BY <1>2, <2>3, <2>5 DEF Inv, TypeOK
  <2>7. SameLife(c) /\ shm'[c].mm
    BY <1>2, <1>4, <2>3 DEF SameLife, Inv, TypeOK
  <2>8. MappingFits(c)
    BY <2>6, <2>7 DEF MappingFits
  <2> QED
    BY <1>1, <1>2, <2>1, <2>2, <2>3, <2>7, <2>8, MappingStep
<1>5. CASE ~(shm[c].mapcount > 0)
  <2>1. shm' = shm /\ Goto(t, "map_lock") /\ UNCHANGED <<shm_mu, shm_release_waiters>>
    BY <1>1, <1>5 DEF IncMap
  <2>2. TypeOK'
    BY <2>1 DEF Goto, Inv, TypeOK, Labels
  <2>3. Goes(t, "map_lock")
    BY <2>1, GotoGoes DEF Inv
  <2>4. Mapped(c)' = Mapped(c)
    BY <1>2, <2>3 DEF Goes, OnlyThread, Mapped, Users
  <2>5. MappingFits(c)
    BY <1>2, <2>1, <2>3, <2>4 DEF Inv, MappedWhileUsed, At, Goes, OnlyThread, IncMap, MappingFits
  <2>6. SameLife(c) /\ OnlyElement(c)
    BY <2>1 DEF SameLife, OnlyElement
  <2> QED
    BY <1>1, <1>2, <2>1, <2>2, <2>3, <2>5, <2>6, MappingStep DEF Goes
<1> QED
  BY <1>4, <1>5

\* Under the map lock the first thread maps, every other one starts again.
LEMMA MapLockedStep ==
    ASSUME Inv, NEW t \in Threads, MapLocked(t) \/ MapFails(t)
    PROVE  Inv'
<1> USE DEF UserLabels
<1>1. PICK c : c = th[t].c
  OBVIOUS
<1>2. /\ th[t].pc = "map_lock" /\ th[t].pc \in UserLabels /\ ~th[t].map
      /\ c \in Cookies
      /\ shm[c].mapcount = Cardinality(Mapped(c))
      /\ shm[c].mapcount > 0 <=> Mapped(c) # {}
      /\ Mapped(c) # {} => shm[c].mm
      /\ shm[c].mapcount \in Nat
  BY <1>1, UserKnows DEF MapLocked, MapFails, At, Inv, TypeOK, LifeInv, LocalOK
<1>3. t \notin Mapped(c)
  BY <1>2 DEF Mapped
<1>4. CASE MapLocked(t) /\ ~(shm[c].mapcount > 0)
  <2>1. /\ shm' = [shm EXCEPT ![c].mm = TRUE, ![c].mapcount = 1]
        /\ th' = [th EXCEPT ![t].pc = "hold", ![t].map = TRUE]
        /\ UNCHANGED <<shm_mu, shm_release_waiters>>
    BY <1>1, <1>4 DEF MapLocked
  <2>2. TypeOK'
    BY <1>2, <2>1 DEF Inv, TypeOK, Labels
  <2>3. /\ OnlyThread(t) /\ OnlyElement(c)
        /\ th'[t].pc = "hold" /\ th'[t].map /\ th'[t].c = c /\ th'[t].rel = th[t].rel
        /\ shm'[c].mm /\ shm'[c].mapcount = 1
    BY <1>1, <1>2, <2>1 DEF OnlyThread, OnlyElement, Inv, TypeOK
  <2>4. Mapped(c)' = {t}
    BY <1>2, <1>4, <2>3, UsersAfter
  <2>5. SameLife(c)
    BY <1>2, <2>1 DEF SameLife, Inv, TypeOK
  <2>6. MappingFits(c)
    <3>1. Cardinality(Mapped(c)') = 1
      BY <2>4, FS_Singleton
    <3> QED
      BY <2>3, <3>1 DEF MappingFits
  <2> QED
    BY <1>1, <1>2, <2>1, <2>2, <2>3, <2>5, <2>6, MappingStep
<1>5. CASE (MapLocked(t) /\ shm[c].mapcount > 0) \/ MapFails(t)
  <2>1. PICK l \in {"inc_map", "put"} : Goto(t, l)
    BY <1>1, <1>5 DEF MapLocked, MapFails
  <2>2. shm' = shm /\ UNCHANGED <<shm_mu, shm_release_waiters>>
    BY <1>1, <1>5 DEF MapLocked, MapFails
  <2>3. TypeOK'
    BY <2>1, <2>2 DEF Goto, Inv, TypeOK, Labels
  <2>4. Goes(t, l)
    BY <2>1, GotoGoes DEF Inv
  <2>5. Mapped(c)' = Mapped(c)
    BY <1>2, <1>3, <2>4, UsersAfter DEF Goes
  <2>6. MappingFits(c)
    BY <1>2, <2>2, <2>4, <2>5 DEF Inv, MappedWhileUsed, At, Goes, OnlyThread, MappingFits
  <2>7. SameLife(c) /\ OnlyElement(c)
    BY <2>2 DEF SameLife, OnlyElement
  <2> QED
    BY <1>1, <1>2, <2>1, <2>2, <2>3, <2>4, <2>6, <2>7, MappingStep DEF Goes
<1> QED
  BY <1>4, <1>5

\* mobj_reg_shm_dec_map(): the thread that brings mapcount to 0 will unmap.
LEMMA DecMapStep ==
    ASSUME Inv, NEW t \in Threads, DecMap(t)
    PROVE  Inv'
<1> USE DEF UserLabels
<1>1. PICK c : c = th[t].c
  OBVIOUS
<1>2. /\ th[t].pc = "hold" /\ th[t].pc \in UserLabels /\ th[t].map
      /\ c \in Cookies
      /\ shm[c].mapcount = Cardinality(Mapped(c))
      /\ Mapped(c) # {} => shm[c].mm
      /\ shm[c].mapcount \in Nat
  BY <1>1, UserKnows DEF DecMap, At, Inv, TypeOK
<1>3. t \in Mapped(c) /\ shm[c].mapcount > 0
  BY <1>1, <1>2, MappedCounted DEF Mapped, Users, Inv
<1> DEFINE l == IF shm[c].mapcount - 1 = 0 THEN "unmap" ELSE "hold"
<1>4. /\ th' = [th EXCEPT ![t].pc = l, ![t].map = FALSE]
      /\ shm' = [shm EXCEPT ![c].mapcount = shm[c].mapcount - 1]
      /\ UNCHANGED <<shm_mu, shm_release_waiters>>
      /\ l \in {"unmap", "hold"}
  BY <1>1 DEF DecMap
<1>5. TypeOK'
  BY <1>2, <1>3, <1>4 DEF Inv, TypeOK, Labels
<1>6. /\ OnlyThread(t) /\ OnlyElement(c)
      /\ th'[t].pc = l /\ ~th'[t].map /\ th'[t].c = c /\ th'[t].rel = th[t].rel
      /\ shm'[c].mapcount = shm[c].mapcount - 1 /\ shm'[c].mm = shm[c].mm
  BY <1>1, <1>2, <1>4 DEF OnlyThread, OnlyElement, Inv, TypeOK
<1>7. Mapped(c)' = Mapped(c) \ {t}
  BY <1>6, UsersAfter
<1>8. Cardinality(Mapped(c)') = Cardinality(Mapped(c)) - 1
  BY <1>3, <1>7, MappedFinite, CardinalityOneMore
<1>9. SameLife(c)
  BY <1>2, <1>4 DEF SameLife, Inv, TypeOK
<1>10. MappingFits(c)
  <2>1. shm'[c].mapcount = Cardinality(Mapped(c)') /\ shm'[c].mm
    BY <1>2, <1>3, <1>6, <1>8
  <2>2. shm'[c].mapcount = 0 => th'[t].pc = "unmap" /\ th'[t].c = c
    BY <1>2, <1>6
  <2> QED
    BY <2>1, <2>2 DEF MappingFits
<1> QED
  BY <1>1, <1>2, <1>4, <1>5, <1>6, <1>9, <1>10, MappingStep

\* The pages are unmapped only when nobody counts in mapcount by then.
LEMMA UnmapStep ==
    ASSUME Inv, NEW t \in Threads, Unmap(t)
    PROVE  Inv'
<1> USE DEF UserLabels
<1>1. PICK c : c = th[t].c
  OBVIOUS
<1>2. /\ th[t].pc = "unmap" /\ th[t].pc \in UserLabels /\ ~th[t].map
      /\ c \in Cookies
      /\ shm[c].mapcount = Cardinality(Mapped(c))
      /\ shm[c].mapcount > 0 <=> Mapped(c) # {}
      /\ Mapped(c) # {} => shm[c].mm
      /\ shm[c].mapcount \in Nat
  BY <1>1, UserKnows DEF Unmap, At, Inv, TypeOK, LifeInv, LocalOK
<1>3. /\ shm' = [shm EXCEPT ![c].mm = @ /\ shm[c].mapcount > 0]
      /\ Goto(t, "hold")
      /\ UNCHANGED <<shm_mu, shm_release_waiters>>
  BY <1>1 DEF Unmap
<1>4. TypeOK'
  <2>1. PICK b \in BOOLEAN : b = (shm[c].mm /\ shm[c].mapcount > 0)
    OBVIOUS
  <2>2. shm' = [shm EXCEPT ![c].mm = b]
    BY <1>3, <2>1, Zenon
  <2> QED
    BY <1>2, <1>3, <2>2 DEF Goto, Inv, TypeOK, Labels
<1>5. Goes(t, "hold")
  BY <1>3, GotoGoes DEF Inv
<1>6. /\ OnlyElement(c) /\ SameLife(c)
      /\ shm'[c].mapcount = shm[c].mapcount
      /\ shm'[c].mm <=> (shm[c].mm /\ shm[c].mapcount > 0)
  BY <1>2, <1>3 DEF OnlyElement, SameLife, Inv, TypeOK
<1>7. Mapped(c)' = Mapped(c)
  BY <1>2, <1>5, UsersAfter DEF Goes, Mapped
<1>8. MappingFits(c)
  BY <1>2, <1>6, <1>7 DEF MappingFits
<1> QED
  BY <1>1, <1>2, <1>3, <1>4, <1>5, <1>6, <1>8, MappingStep DEF Goes

-----------------------------------------------------------------------------
(* mobj_put() *)

\* Memory of one call has one reference, that of its user.
LEMMA GuardedIsLast ==
    ASSUME Inv, NEW t \in Threads, NEW c \in Cookies, c = th[t].c,
           th[t].pc \in UserLabels, shm[c].guarded
    PROVE  shm[c].refc = 1
<1> USE DEF UserLabels
<1>1. Users(c) = {t}
  BY DEF Inv, LifeInv, AloneOK, Users, UsesElement, Touches
<1>2. OwnRef(c) = 0
  BY DEF OwnRef, Inv, LifeInv, LocalOK, ElementOK, FlagsOK, AloneOK, UsesElement, Touches,
         ReleaseLabels
<1>3. Cardinality(Users(c)) = 1
  BY <1>1, FS_Singleton
<1> QED
  BY <1>2, <1>3, CountersOf DEF Inv

\* mobj_put(): one reference less; the thread that takes the last one frees.
LEMMA PutStep ==
    ASSUME Inv, NEW t \in Threads, Put(t)
    PROVE  Inv'
<1> USE DEF UserLabels, ReleaseLabels, Finishing
<1>1. PICK c : c = th[t].c
  OBVIOUS
<1>2. /\ th[t].pc \in {"hold", "put", "rel_put"}
      /\ th[t].rel <=> th[t].pc = "rel_put"
      /\ th[t].map => th[t].pc \in {"hold", "rel_put"} /\ (th[t].pc = "hold" => shm[c].guarded)
      /\ c \in Cookies /\ shm[c].refc > 0 /\ shm[c].refc \in Nat
      /\ shm[c].live /\ ~shm[c].release_frees
  BY <1>1, Referenced DEF Put, PutGuard, At, Inv, TypeOK, LifeInv, LocalOK, ElementOK, FlagsOK,
                          UsesElement, Touches
<1>3. /\ shm' = [shm EXCEPT ![c].refc = shm[c].refc - 1]
      /\ UNCHANGED <<shm_mu, shm_release_waiters>>
  BY <1>1 DEF Put
<1>4. /\ OnlyElement(c)
      /\ shm'[c] = [shm[c] EXCEPT !.refc = shm[c].refc - 1]
  BY <1>2, <1>3 DEF OnlyElement, Inv, TypeOK
<1>5. \/ shm[c].refc = 1 /\ Goto(t, "free")
      \/ shm[c].refc > 1 /\ th[t].rel /\ Goto(t, "rel_lock")
      \/ shm[c].refc > 1 /\ ~th[t].rel /\ Return(t)
  BY <1>1, <1>2 DEF Put
<1>6. OnlyThread(t)
  BY <1>5 DEF Goto, Return, OnlyThread, Inv, TypeOK
<1>7. \/ /\ shm[c].refc = 1
         /\ th'[t].pc = "free" /\ th'[t].c = c
         /\ th'[t].rel = th[t].rel /\ th'[t].map = th[t].map
      \/ /\ shm[c].refc > 1 /\ th[t].rel
         /\ th'[t].pc = "rel_lock" /\ th'[t].c = c
         /\ th'[t].rel = th[t].rel /\ th'[t].map = th[t].map
      \/ shm[c].refc > 1 /\ ~th[t].rel /\ th'[t] = Idle
  BY <1>1, <1>5 DEF Goto, Return, Inv, TypeOK
<1>8. \A u \in Threads : UsesElement(u) /\ th[u].c = c => th[u].pc \notin Finishing
  BY <1>2 DEF Inv, LifeInv, ElementOK
<1>9. TypeOK'
  <2>1. th' \in [Threads -> [pc : Labels, c : Cookies \cup {None}, rel : BOOLEAN, map : BOOLEAN]]
    BY <1>5, GotoType DEF Inv, Labels
  <2> QED
    BY <1>2, <1>3, <2>1 DEF Inv, TypeOK
<1>10. \A u \in Threads : LocalOK(u)'
  BY <1>2, <1>6, <1>7, IdleFields DEF Inv, LifeInv, LocalOK, OnlyThread
<1>11. \A u \in Threads : ElementOK(u)'
  BY <1>1, <1>2, <1>4, <1>6, <1>7, <1>8, IdleFields
     DEF Inv, LifeInv, LocalOK, ElementOK, UsesElement, Touches, OnlyThread, OnlyElement, TypeOK
<1>12. \A d \in Cookies : FlagsOK(d)'
  BY <1>2, <1>4 DEF Inv, LifeInv, FlagsOK, OnlyElement, TypeOK
<1>13. \A u, v \in Threads : AloneOK(u, v)'
  BY <1>1, <1>2, <1>4, <1>6, <1>7, <1>8, IdleFields
     DEF Inv, LifeInv, LocalOK, AloneOK, UsesElement, Touches, Releasing, OnlyThread, OnlyElement,
         TypeOK
<1>14. CountersExact'
  <2>1. /\ shm'[c].refc = shm[c].refc - 1 /\ shm'[c].mapcount = shm[c].mapcount
        /\ shm'[c].live = shm[c].live /\ shm'[c].guarded = shm[c].guarded
        /\ shm'[c].releasing = shm[c].releasing
    BY <1>2, <1>4 DEF Inv, TypeOK
  <2>2. th[t].c \in {c, None} /\ th'[t].c \in {c, None}
    BY <1>1, <1>7, IdleFields
  <2>3. /\ shm[c].refc = Cardinality(Users(c)) + OwnRef(c)
        /\ shm[c].mapcount = Cardinality(Mapped(c))
        /\ Cardinality(Users(c)) \in Nat
    BY <1>2, CountersOf DEF Inv
  <2>4. shm'[c].refc > 0 => Mapped(c)' = Mapped(c)
    <3>1. shm'[c].refc > 0 => t \notin Mapped(c)
      BY <1>1, <1>2, <2>1, GuardedIsLast DEF Mapped, Users
    <3>2. Mapped(c)' = Mapped(c) \ {t}
      BY <1>6, <1>7, IdleFields, UsersAfter
    <3> QED
      BY <3>1, <3>2
  <2>5. shm'[c].refc = Cardinality(Users(c)') + OwnRef(c)'
    <3>1. CASE th[t].pc = "rel_put"
      <4>1. Users(c)' = Users(c)
        BY <1>6, <1>7, <3>1, IdleFields DEF OnlyThread, Users
      <4>2. OwnRef(c) = 1
        BY <1>1, <3>1 DEF OwnRef
      <4>3. shm[c].releasing /\ ~shm[c].guarded
        BY <1>1, <1>2, <3>1 DEF Inv, LifeInv, ElementOK, FlagsOK
      <4>4. \A u \in Threads \ {t} : th[u].c = c => th[u].pc \notin {"unguard", "rel_put"}
        BY <1>1, <1>2, <3>1, <4>3
           DEF Inv, LifeInv, LocalOK, ElementOK, AloneOK, Releasing, UsesElement
      <4>5. OwnRef(c)' = 0
        BY <1>6, <1>7, <2>1, <4>3, <4>4, IdleFields DEF OwnRef, OnlyThread
      <4> QED
        BY <2>1, <2>3, <4>1, <4>2, <4>5
    <3>2. CASE th[t].pc # "rel_put"
      <4>1. t \in Users(c) /\ Users(c)' = Users(c) \ {t}
        BY <1>1, <1>2, <1>6, <1>7, <3>2, IdleFields DEF OnlyThread, Users
      <4>2. Cardinality(Users(c)') = Cardinality(Users(c)) - 1
        BY <4>1, UsersFinite, CardinalityOneMore
      <4>3. OwnRef(c)' = OwnRef(c)
        BY <1>2, <1>6, <1>7, <2>1, <3>2, IdleFields DEF OwnRef, OnlyThread
      <4>4. OwnRef(c) \in {0, 1}
        BY DEF OwnRef
      <4> QED
        BY <2>1, <2>3, <4>2, <4>3, <4>4
    <3> QED
      BY <3>1, <3>2
  <2>6. (shm'[c].live /\ shm'[c].refc > 0) => shm'[c].mapcount = Cardinality(Mapped(c)')
    BY <2>1, <2>3, <2>4
  <2> QED
    BY <1>2, <1>4, <1>6, <2>2, <2>5, <2>6, CountersFrame DEF Inv
<1>15. MappedWhileUsed'
  <2>1. shm'[c].mm = shm[c].mm /\ shm'[c].mapcount = shm[c].mapcount
    BY <1>2, <1>4 DEF Inv, TypeOK
  <2>2. th[t].pc # "unmap" /\ th'[t].pc # "hold"
    BY <1>2, <1>7, IdleFields
  <2> QED
    BY <1>2, <1>4, <1>6, <2>1, <2>2, MappedFrame DEF Inv
<1>16. WaitersExact'
  <2>1. t \notin Waiters /\ (t \notin Waiters)'
    BY <1>2, <1>7, IdleFields DEF Waiters
  <2> QED
    BY <1>3, <1>6, <2>1, WaitersFrame DEF Inv
<1>17. NoLostWakeup'
  BY <1>2, <1>4, <1>6, <1>7, IdleFields
     DEF Inv, NoLostWakeup, At, OnlyThread, OnlyElement, TypeOK, LifeInv, LocalOK
<1> QED
  BY <1>9, <1>10, <1>11, <1>12, <1>13, <1>14, <1>15, <1>16, <1>17 DEF Inv, LifeInv

-----------------------------------------------------------------------------
(* mobj_reg_shm_free() *)

\* mobj_reg_shm_free() reads two flags without a lock: nobody else can change
\* them by then.
LEMMA FreeDecideStep ==
    ASSUME Inv, NEW t \in Threads, FreeDecide(t)
    PROVE  Inv'
<1> USE DEF UserLabels, ReleaseLabels, Finishing
<1>1. PICK c \in Cookies : c = th[t].c
  BY DEF Inv, LifeInv, LocalOK, FreeDecide, At
<1>2. /\ th[t].pc = "free"
      /\ shm[c].live /\ shm[c].refc = 0 /\ ~shm[c].release_frees
      /\ shm[c].guarded \/ shm[c].releasing
  BY <1>1, RegisteredReferenced
     DEF FreeDecide, At, Inv, LifeInv, ElementOK, UsesElement, Touches
<1>3. PICK l \in {"free_helper", "release_frees"} :
         /\ Goto(t, l)
         /\ l = "free_helper" <=> shm[c].guarded /\ ~shm[c].releasing
  BY <1>1 DEF FreeDecide
<1>4. UNCHANGED <<shm, shm_mu, shm_release_waiters>>
  BY DEF FreeDecide
<1>5. Goes(t, l) /\ OnlyThread(t) /\ OnlyElement(c)
  BY <1>3, <1>4, GotoGoes DEF Inv, Goes, OnlyElement
<1>6. TypeOK'
  BY <1>3, <1>4, GotoType DEF Inv, TypeOK, Labels
<1>7. \A u \in Threads : LocalOK(u)'
  BY <1>1, <1>2, <1>3, <1>5 DEF Inv, LifeInv, LocalOK, Goes, OnlyThread
<1>8. \A u \in Threads : ElementOK(u)'
  BY <1>1, <1>2, <1>3, <1>4, <1>5
     DEF Inv, LifeInv, ElementOK, UsesElement, Touches, Goes, OnlyThread
<1>9. \A d \in Cookies : FlagsOK(d)'
  BY <1>4 DEF Inv, LifeInv, FlagsOK
<1>10. \A u, v \in Threads : AloneOK(u, v)'
  BY <1>2, <1>3, <1>4, <1>5
     DEF Inv, LifeInv, AloneOK, UsesElement, Touches, Releasing, Goes, OnlyThread
<1>11. CountersExact'
  <2>1. Users(c)' = Users(c) /\ Mapped(c)' = Mapped(c) /\ OwnRef(c)' = OwnRef(c)
    BY <1>2, <1>3, <1>4, <1>5 DEF Goes, OnlyThread, Users, Mapped, OwnRef
  <2>2. th[t].c \in {c, None} /\ th'[t].c \in {c, None}
    BY <1>1, <1>5 DEF Goes
  <2> QED
    BY <1>4, <1>5, <2>1, <2>2, CountersFrame, CountersOf DEF Inv
<1>12. MappedWhileUsed'
  BY <1>2, <1>3, <1>4, <1>5, MappedFrame DEF Inv, Goes
<1>13. WaitersExact'
  <2>1. t \notin Waiters /\ (t \notin Waiters)'
    BY <1>2, <1>3, <1>5 DEF Waiters, Goes
  <2> QED
    BY <1>4, <1>5, <2>1, WaitersFrame DEF Inv
<1>14. NoLostWakeup'
  BY <1>2, <1>3, <1>4, <1>5 DEF Inv, NoLostWakeup, At, Goes, OnlyThread
<1> QED
  BY <1>6, <1>7, <1>8, <1>9, <1>10, <1>11, <1>12, <1>13, <1>14 DEF Inv, LifeInv

\* Freeing an element that no other thread will touch.
LEMMA FreedStep ==
    ASSUME Inv, TypeOK', NEW t \in Threads, NEW c \in Cookies, c = th[t].c,
           OnlyThread(t), OnlyElement(c), shm'[c] = Free,
           \A u \in Threads \ {t} : UsesElement(u) => th[u].c # c,
           th'[t] = Idle \/ (th'[t].pc = "rel_exit" /\ th'[t].c = None /\ th'[t].rel),
           th[t].pc \notin {"notify", "broadcast", "unmap"},
           WaitersExact'
    PROVE  Inv'
<1> USE DEF UserLabels, ReleaseLabels, Finishing
<1>1. /\ ~shm'[c].live /\ shm'[c].refc = 0 /\ shm'[c].mapcount = 0 /\ ~shm'[c].mm
      /\ ~shm'[c].guarded /\ ~shm'[c].releasing /\ ~shm'[c].release_frees
  BY DEF Free
<1>2. /\ th'[t].pc \in {"idle", "rel_exit"} /\ th'[t].c = None
      /\ th'[t].pc = "idle" => ~th'[t].rel
  BY IdleFields
<1>3. \A u \in Threads : LocalOK(u)'
  BY <1>2, IdleFields DEF Inv, LifeInv, LocalOK, OnlyThread
<1>4. \A u \in Threads : ElementOK(u)'
  BY <1>1, <1>2 DEF Inv, LifeInv, LocalOK, ElementOK, UsesElement, Touches, OnlyThread, OnlyElement
<1>5. \A d \in Cookies : FlagsOK(d)'
  BY <1>1 DEF Inv, LifeInv, FlagsOK, OnlyElement
<1>6. \A u, v \in Threads : AloneOK(u, v)'
  BY <1>1, <1>2
     DEF Inv, LifeInv, LocalOK, AloneOK, UsesElement, Touches, Releasing, OnlyThread, OnlyElement
<1>7. CountersExact'
  <2>1. Users(c)' = {} /\ Mapped(c)' = {}
    BY <1>2 DEF OnlyThread, Users, Mapped, UsesElement, Touches
  <2>2. OwnRef(c)' = 0
    BY <1>1, <1>2 DEF OnlyThread, OwnRef, UsesElement, Touches, Inv, LifeInv, LocalOK
  <2>3. Cardinality(Users(c)') = 0
    BY <2>1, FS_EmptySet
  <2>4. th[t].c \in {c, None} /\ th'[t].c \in {c, None}
    BY <1>2
  <2> QED
    BY <1>1, <2>2, <2>3, <2>4, CountersFrame DEF Inv
<1>8. MappedWhileUsed'
  <2>1. ASSUME NEW u \in Threads, th'[u].pc = "hold", th'[u].map PROVE shm'[th'[u].c].mm
    BY <1>2, <2>1 DEF Inv, LifeInv, LocalOK, MappedWhileUsed, At, OnlyThread, OnlyElement,
                      UsesElement, Touches
  <2>2. ASSUME NEW d \in Cookies, shm'[d].mm, shm'[d].mapcount = 0
        PROVE  \E u \in Threads : th'[u].pc = "unmap" /\ th'[u].c = d
    BY <1>1, <2>2 DEF Inv, MappedWhileUsed, At, OnlyThread, OnlyElement
  <2> QED
    BY <2>1, <2>2 DEF MappedWhileUsed, At
<1>9. NoLostWakeup'
  <2>1. ASSUME NEW u \in Threads, th'[u].pc = "rel_wait", shm'[th'[u].c].release_frees
        PROVE  \E v \in Threads : th'[v].pc \in {"notify", "broadcast"}
    <3>1. th'[u] = th[u] /\ u # t /\ th[u].c \in Cookies \ {c}
      BY <1>2, <2>1 DEF OnlyThread, Inv, LifeInv, LocalOK, UsesElement
    <3>2. PICK v \in Threads : th[v].pc \in {"notify", "broadcast"}
      BY <2>1, <3>1 DEF Inv, NoLostWakeup, At, OnlyElement
    <3> QED
      BY <3>2 DEF OnlyThread
  <2> QED
    BY <2>1 DEF NoLostWakeup, At
<1> QED
  BY <1>3, <1>4, <1>5, <1>6, <1>7, <1>8, <1>9 DEF Inv, LifeInv

\* The last mobj_put() of memory of one call: nobody else knows it.
LEMMA FreeHelperStep ==
    ASSUME Inv, NEW t \in Threads, FreeHelper(t)
    PROVE  Inv'
<1> USE DEF UserLabels, ReleaseLabels, Finishing
<1>1. PICK c \in Cookies : c = th[t].c
  BY DEF Inv, LifeInv, LocalOK, FreeHelper, At
<1>2. th[t].pc = "free_helper" /\ shm[c].guarded
  BY <1>1 DEF FreeHelper, At, Inv, LifeInv, ElementOK
<1>3. \A u \in Threads \ {t} : UsesElement(u) => th[u].c # c
  BY <1>1, <1>2 DEF Inv, LifeInv, AloneOK, UsesElement, Touches
<1>4. /\ shm' = [shm EXCEPT ![c] = Free] /\ Return(t)
      /\ UNCHANGED <<shm_mu, shm_release_waiters>>
  BY <1>1 DEF FreeHelper
<1>5. TypeOK'
  <2>1. Free \in [live : BOOLEAN, refc : Nat, mapcount : Nat, mm : BOOLEAN,
                  guarded : BOOLEAN, releasing : BOOLEAN, release_frees : BOOLEAN]
    BY DEF Free
  <2> QED
    BY <1>4, <2>1, GotoType DEF Inv, TypeOK
<1>6. OnlyThread(t) /\ th'[t] = Idle /\ OnlyElement(c) /\ shm'[c] = Free
  BY <1>4 DEF Return, OnlyThread, OnlyElement, Inv, TypeOK
<1>7. WaitersExact'
  <2>1. t \notin Waiters /\ (t \notin Waiters)'
    BY <1>2, <1>6, IdleFields DEF Waiters
  <2> QED
    BY <1>4, <1>6, <2>1, WaitersFrame DEF Inv
<1> QED
  BY <1>1, <1>2, <1>3, <1>5, <1>6, <1>7, FreedStep

\* The release that waits, or will wait, may free the element from here on.
LEMMA SetReleaseFreesStep ==
    ASSUME Inv, NEW t \in Threads, SetReleaseFrees(t)
    PROVE  Inv'
<1> USE DEF UserLabels, ReleaseLabels, Finishing
<1>1. PICK c \in Cookies : c = th[t].c
  BY DEF Inv, LifeInv, LocalOK, SetReleaseFrees, At
<1>2. /\ th[t].pc = "release_frees"
      /\ shm[c].live /\ shm[c].refc = 0 /\ shm[c].releasing
  BY <1>1 DEF SetReleaseFrees, At, Inv, LifeInv, ElementOK, UsesElement, Touches
<1>3. /\ shm' = [shm EXCEPT ![c].release_frees = TRUE] /\ Goto(t, "notify")
      /\ UNCHANGED <<shm_mu, shm_release_waiters>>
  BY <1>1 DEF SetReleaseFrees
<1>4. Goes(t, "notify") /\ OnlyThread(t) /\ OnlyElement(c)
  BY <1>3, GotoGoes DEF Inv, Goes, OnlyElement, TypeOK
<1>5. /\ shm'[c].live = shm[c].live /\ shm'[c].refc = shm[c].refc
      /\ shm'[c].mapcount = shm[c].mapcount /\ shm'[c].mm = shm[c].mm
      /\ shm'[c].guarded = shm[c].guarded /\ shm'[c].releasing = shm[c].releasing
      /\ shm'[c].release_frees
  BY <1>3 DEF Inv, TypeOK
<1>6. TypeOK'
  BY <1>3, GotoType DEF Inv, TypeOK, Labels
<1>7. \A u \in Threads : LocalOK(u)'
  BY <1>1, <1>2, <1>4 DEF Inv, LifeInv, LocalOK, Goes, OnlyThread
<1>8. \A u \in Threads : ElementOK(u)'
  <2>1. \A u \in Threads \ {t} : th[u].pc \in Finishing => th[u].c # c
    BY <1>1, <1>2 DEF Inv, LifeInv, AloneOK, UsesElement, Touches
  <2>2. ElementOK(t)'
    BY <1>1, <1>2, <1>4, <1>5 DEF Inv, LifeInv, ElementOK, UsesElement, Touches, Goes
  <2>3. ASSUME NEW u \in Threads \ {t} PROVE ElementOK(u)'
    <3>1. th'[u] = th[u]
      BY <1>4 DEF OnlyThread
    <3>2. CASE th[u].c = c
      BY <1>5, <2>1, <3>1, <3>2 DEF Inv, LifeInv, ElementOK, UsesElement, Touches
    <3>3. CASE th[u].c # c
      BY <1>4, <3>1, <3>3 DEF Inv, LifeInv, LocalOK, ElementOK, UsesElement, Touches, OnlyElement
    <3> QED
      BY <3>2, <3>3
  <2> QED
    BY <2>2, <2>3
<1>9. \A d \in Cookies : FlagsOK(d)'
  BY <1>2, <1>5, <1>4 DEF Inv, LifeInv, FlagsOK, OnlyElement
<1>10. \A u, v \in Threads : AloneOK(u, v)'
  BY <1>1, <1>2, <1>4, <1>5
     DEF Inv, LifeInv, LocalOK, AloneOK, UsesElement, Touches, Releasing, Goes, OnlyThread,
         OnlyElement
<1>11. CountersExact'
  <2>1. Users(c)' = Users(c) /\ Mapped(c)' = Mapped(c)
    BY <1>2, <1>4 DEF Goes, OnlyThread, Users, Mapped
  <2>2. OwnRef(c)' = OwnRef(c)
    BY <1>2, <1>4, <1>5 DEF Goes, OnlyThread, OwnRef
  <2>3. th[t].c \in {c, None} /\ th'[t].c \in {c, None}
    BY <1>1, <1>4 DEF Goes
  <2>4. shm'[c].refc = Cardinality(Users(c)') + OwnRef(c)' /\ ~(shm'[c].refc > 0)
    BY <1>2, <1>5, <2>1, <2>2, CountersOf DEF Inv
  <2> QED
    BY <1>4, <2>3, <2>4, CountersFrame DEF Inv
<1>12. MappedWhileUsed'
  BY <1>2, <1>4, <1>5, MappedFrame DEF Inv, Goes
<1>13. WaitersExact'
  <2>1. t \notin Waiters /\ (t \notin Waiters)'
    BY <1>2, <1>4 DEF Waiters, Goes
  <2> QED
    BY <1>3, <1>4, <2>1, WaitersFrame DEF Inv
<1>14. NoLostWakeup'
  BY <1>4 DEF NoLostWakeup, At, Goes
<1> QED
  BY <1>6, <1>7, <1>8, <1>9, <1>10, <1>11, <1>12, <1>13, <1>14 DEF Inv, LifeInv

-----------------------------------------------------------------------------
(* The mutex, the condition variable and the release by cookie *)

\* A move of a thread that will no more count in refc or finish an element,
\* and leaves every element alone.
LEMMA MoveStep ==
    ASSUME Inv, TypeOK', NEW t \in Threads, NEW label, Goes(t, label), shm' = shm,
           \/ th[t].pc = "notify" /\ label = "broadcast"
           \/ /\ th[t].pc \in {"rel_lock", "rel_check", "rel_relock"}
              /\ label \in {"rel_check", "rel_wait"},
           WaitersExact', NoLostWakeup'
    PROVE  Inv'
<1> USE DEF UserLabels, ReleaseLabels, Finishing
<1>1. PICK c \in Cookies : c = th[t].c
  BY DEF Inv, LifeInv, LocalOK
<1>2. OnlyThread(t) /\ OnlyElement(c)
  BY DEF Goes, OnlyElement
<1>3. \A u \in Threads : LocalOK(u)'
  BY DEF Inv, LifeInv, LocalOK, Goes, OnlyThread
<1>4. \A u \in Threads : ElementOK(u)'
  BY DEF Inv, LifeInv, LocalOK, ElementOK, UsesElement, Touches, Goes, OnlyThread
<1>5. \A d \in Cookies : FlagsOK(d)'
  BY DEF Inv, LifeInv, FlagsOK
<1>6. \A u, v \in Threads : AloneOK(u, v)'
  BY DEF Inv, LifeInv, LocalOK, AloneOK, UsesElement, Touches, Releasing, Goes, OnlyThread
<1>7. CountersExact'
  <2>1. Users(c)' = Users(c) /\ Mapped(c)' = Mapped(c) /\ OwnRef(c)' = OwnRef(c)
    BY DEF Goes, OnlyThread, Users, Mapped, OwnRef
  <2>2. th[t].c \in {c, None} /\ th'[t].c \in {c, None}
    BY <1>1 DEF Goes
  <2> QED
    BY <1>2, <2>1, <2>2, CountersFrame, CountersOf DEF Inv
<1>8. MappedWhileUsed'
  BY <1>2, MappedFrame DEF Inv, Goes
<1> QED
  BY <1>3, <1>4, <1>5, <1>6, <1>7, <1>8 DEF Inv, LifeInv

\* The mutex is taken for the broadcast.
LEMMA NotifyLockStep ==
    ASSUME Inv, NEW t \in Threads, NotifyLock(t)
    PROVE  Inv'
<1>1. th[t].pc = "notify" /\ Goto(t, "broadcast") /\ shm' = shm /\ shm_mu' = t
      /\ shm_release_waiters' = shm_release_waiters
  BY DEF NotifyLock, At
<1>2. Goes(t, "broadcast") /\ TypeOK'
  BY <1>1, GotoGoes, GotoType DEF Inv, TypeOK, Labels
<1>3. WaitersExact'
  <2>1. t \notin Waiters /\ (t \notin Waiters)'
    BY <1>1, <1>2 DEF Waiters, Goes
  <2> QED
    BY <1>1, <1>2, <2>1, WaitersFrame DEF Inv, Goes
<1>4. NoLostWakeup'
  BY <1>2 DEF NoLostWakeup, At, Goes
<1> QED
  BY <1>1, <1>2, <1>3, <1>4, MoveStep

\* A move of the releasing thread neither sends nor drops a broadcast.
LEMMA WakeupFrame ==
    ASSUME Inv, NEW t \in Threads, NEW label, Goes(t, label), shm' = shm,
           th[t].pc \notin {"notify", "broadcast"},
           label = "rel_wait" => ~shm[th[t].c].release_frees
    PROVE  NoLostWakeup'
  BY DEF Inv, NoLostWakeup, At, Goes, OnlyThread

\* The release becomes a waiter.
LEMMA ReleaseLockStep ==
    ASSUME Inv, NEW t \in Threads, ReleaseLock(t)
    PROVE  Inv'
<1>1. /\ th[t].pc = "rel_lock" /\ Goto(t, "rel_check") /\ shm' = shm /\ shm_mu' = t
      /\ shm_release_waiters' = shm_release_waiters + 1
  BY DEF ReleaseLock, At
<1>2. Goes(t, "rel_check") /\ TypeOK'
  BY <1>1, GotoGoes, GotoType DEF Inv, TypeOK, Labels, ReleaseLabels
<1>3. WaitersExact'
  <2>1. t \notin Waiters /\ Waiters' = Waiters \cup {t} /\ IsFiniteSet(Waiters)
    BY <1>1, <1>2, WaitersAfter DEF Inv, Waiters, Goes
  <2>2. Cardinality(Waiters') = Cardinality(Waiters) + 1
    BY <2>1, CardinalityOneMore
  <2> QED
    BY <1>1, <2>2 DEF Inv, WaitersExact
<1>4. NoLostWakeup'
  BY <1>1, <1>2, WakeupFrame
<1> QED
  BY <1>1, <1>2, <1>3, <1>4, MoveStep

\* A woken waiter looks again.
LEMMA ReleaseRelockStep ==
    ASSUME Inv, NEW t \in Threads, ReleaseRelock(t)
    PROVE  Inv'
<1>1. /\ th[t].pc = "rel_relock" /\ Goto(t, "rel_check") /\ shm' = shm /\ shm_mu' = t
      /\ shm_release_waiters' = shm_release_waiters
  BY DEF ReleaseRelock, At
<1>2. Goes(t, "rel_check") /\ TypeOK'
  BY <1>1, GotoGoes, GotoType DEF Inv, TypeOK, Labels, ReleaseLabels
<1>3. WaitersExact'
  <2>1. t \in Waiters /\ (t \in Waiters)'
    BY <1>1, <1>2 DEF Waiters, Goes
  <2> QED
    BY <1>1, <1>2, <2>1, WaitersFrame DEF Inv, Goes
<1>4. NoLostWakeup'
  BY <1>1, <1>2, WakeupFrame
<1> QED
  BY <1>1, <1>2, <1>3, <1>4, MoveStep

\* The release frees the element: its counter is 0, so there is no user; it is
\* being released, so no lookup has found it; the last mobj_put() is over.
LEMMA ReleaseCheckStep ==
    ASSUME Inv, NEW t \in Threads, ReleaseCheck(t)
    PROVE  Inv'
<1> USE DEF UserLabels, ReleaseLabels, Finishing
<1>1. PICK c \in Cookies : c = th[t].c
  BY DEF Inv, LifeInv, LocalOK, ReleaseCheck, At
<1>2. th[t].pc = "rel_check" /\ th[t].rel
  BY DEF Inv, LifeInv, LocalOK, ReleaseCheck, At
<1>3. CASE shm[c].release_frees
  <2>1. /\ shm' = [shm EXCEPT ![c] = Free]
        /\ th' = [th EXCEPT ![t].pc = "rel_exit", ![t].c = None]
        /\ UNCHANGED <<shm_mu, shm_release_waiters>>
    BY <1>1, <1>3 DEF ReleaseCheck
  <2>2. shm[c].refc = 0 /\ shm[c].releasing /\ ~shm[c].guarded
    BY <1>3 DEF Inv, LifeInv, FlagsOK
  <2>3. ASSUME NEW u \in Threads \ {t}, UsesElement(u), th[u].c = c PROVE FALSE
    <3>1. CASE th[u].pc \in UserLabels \cup {"unguard", "get"}
      BY <2>2, <2>3, <3>1, Referenced DEF Inv
    <3>2. CASE th[u].pc \in Finishing
      BY <1>3, <2>3, <3>2 DEF Inv, LifeInv, ElementOK
    <3>3. CASE Releasing(u)
      BY <1>1, <1>2, <2>3, <3>3 DEF Inv, LifeInv, AloneOK, Releasing, UsesElement
    <3> QED
      BY <2>3, <3>1, <3>2, <3>3 DEF UsesElement, Touches, Releasing
  <2>4. TypeOK'
    <3>1. Free \in [live : BOOLEAN, refc : Nat, mapcount : Nat, mm : BOOLEAN,
                    guarded : BOOLEAN, releasing : BOOLEAN, release_frees : BOOLEAN]
      BY DEF Free
    <3>2. th' \in [Threads -> [pc : Labels, c : Cookies \cup {None}, rel : BOOLEAN, map : BOOLEAN]]
      <4>1. "rel_exit" \in Labels
        BY DEF Labels
      <4> QED
        BY <2>1, <4>1 DEF Inv, TypeOK
    <3> QED
      BY <2>1, <3>1, <3>2 DEF Inv, TypeOK
  <2>5. /\ OnlyThread(t) /\ OnlyElement(c) /\ shm'[c] = Free
        /\ th'[t].pc = "rel_exit" /\ th'[t].c = None /\ th'[t].rel
    BY <1>2, <2>1 DEF OnlyThread, OnlyElement, Inv, TypeOK
  <2>6. WaitersExact'
    <3>1. t \in Waiters /\ (t \in Waiters)'
      BY <1>2, <2>5 DEF Waiters
    <3> QED
      BY <2>1, <2>5, <3>1, WaitersFrame DEF Inv
  <2> QED
    BY <1>1, <1>2, <2>3, <2>4, <2>5, <2>6, FreedStep
<1>4. CASE ~shm[c].release_frees
  <2>1. /\ Goto(t, "rel_wait") /\ shm' = shm /\ shm_mu' = None
        /\ shm_release_waiters' = shm_release_waiters
    BY <1>1, <1>4 DEF ReleaseCheck
  <2>2. Goes(t, "rel_wait") /\ TypeOK'
    BY <2>1, GotoGoes, GotoType DEF Inv, TypeOK, Labels
  <2>3. WaitersExact'
    <3>1. t \in Waiters /\ (t \in Waiters)'
      BY <1>2, <2>2 DEF Waiters, Goes
    <3> QED
      BY <2>1, <2>2, <3>1, WaitersFrame DEF Inv, Goes
  <2>4. NoLostWakeup'
    BY <1>1, <1>2, <1>4, <2>1, <2>2, WakeupFrame
  <2> QED
    BY <1>2, <2>1, <2>2, <2>3, <2>4, MoveStep
<1> QED
  BY <1>3, <1>4

\* The release returns: one waiter less.
LEMMA ReleaseExitStep ==
    ASSUME Inv, NEW t \in Threads, ReleaseExit(t)
    PROVE  Inv'
<1> USE DEF UserLabels, ReleaseLabels, Finishing
<1>1. /\ th[t].pc = "rel_exit" /\ th[t].c = None /\ Return(t) /\ shm' = shm /\ shm_mu' = None
      /\ shm_release_waiters' = shm_release_waiters - 1
  BY DEF ReleaseExit, At, Inv, LifeInv, LocalOK
<1>2. OnlyThread(t) /\ th'[t] = Idle
  BY <1>1 DEF Return, OnlyThread, Inv, TypeOK
<1>3. WaitersExact' /\ shm_release_waiters' \in Nat
  <2>1. t \in Waiters /\ Waiters' = Waiters \ {t} /\ IsFiniteSet(Waiters)
    BY <1>1, <1>2, IdleFields, WaitersAfter DEF Inv, Waiters
  <2>2. Cardinality(Waiters') = Cardinality(Waiters) - 1 /\ IsFiniteSet(Waiters')
    BY <2>1, CardinalityOneMore, FS_RemoveElement
  <2>3. Cardinality(Waiters') \in Nat
    BY <2>2, FS_CardinalityType
  <2> QED
    BY <1>1, <2>2, <2>3 DEF Inv, WaitersExact
<1>4. TypeOK'
  BY <1>1, <1>3, GotoType DEF Inv, TypeOK
<1>5. \A u \in Threads : LocalOK(u)'
  BY <1>2, IdleFields DEF Inv, LifeInv, LocalOK, OnlyThread
<1>6. \A u \in Threads : ElementOK(u)'
  BY <1>1, <1>2, IdleFields DEF Inv, LifeInv, ElementOK, UsesElement, Touches, OnlyThread
<1>7. \A d \in Cookies : FlagsOK(d)'
  BY <1>1 DEF Inv, LifeInv, FlagsOK
<1>8. \A u, v \in Threads : AloneOK(u, v)'
  BY <1>1, <1>2, IdleFields
     DEF Inv, LifeInv, AloneOK, UsesElement, Touches, Releasing, OnlyThread
<1>9. CountersExact'
  <2>1. ASSUME NEW d \in Cookies
        PROVE  Users(d)' = Users(d) /\ Mapped(d)' = Mapped(d) /\ OwnRef(d)' = OwnRef(d)
    BY <1>1, <1>2, IdleFields, NoneAssumption DEF OnlyThread, Users, Mapped, OwnRef
  <2> QED
    BY <1>1, <2>1 DEF Inv, CountersExact, Mapped
<1>10. MappedWhileUsed'
  BY <1>1, <1>2, IdleFields DEF Inv, MappedWhileUsed, At, OnlyThread
<1>11. NoLostWakeup'
  BY <1>1, <1>2, IdleFields DEF Inv, NoLostWakeup, At, OnlyThread
<1> QED
  BY <1>3, <1>4, <1>5, <1>6, <1>7, <1>8, <1>9, <1>10, <1>11 DEF Inv, LifeInv

\* The first release of a registered element takes over the reference of the
\* registration.
LEMMA ReleaseStep ==
    ASSUME Inv, NEW t \in Threads, NEW c \in Cookies, Release(t, c)
    PROVE  Inv'
<1> USE DEF UserLabels, ReleaseLabels, Finishing
<1>1. th[t] = Idle /\ th[t].pc = "idle"
  BY DEF Inv, LifeInv, LocalOK, Release, At
<1>2. /\ shm[c].live /\ ~shm[c].guarded /\ ~shm[c].releasing
      /\ \A u \in Threads : th[u].pc = "get" => th[u].c # c
      /\ UNCHANGED <<shm_mu, shm_release_waiters>>
  BY DEF Release, Releasable, At
<1>3. /\ OnlyThread(t) /\ OnlyElement(c)
      /\ th'[t] = [pc |-> "rel_put", c |-> c, rel |-> TRUE, map |-> FALSE]
  BY DEF Release, Idle, OnlyThread, OnlyElement, Inv, TypeOK
<1>4. /\ shm'[c].live = shm[c].live /\ shm'[c].refc = shm[c].refc
      /\ shm'[c].mapcount = shm[c].mapcount /\ shm'[c].mm = shm[c].mm
      /\ shm'[c].guarded = shm[c].guarded /\ shm'[c].releasing
      /\ shm'[c].release_frees = shm[c].release_frees
  BY DEF Release, Inv, TypeOK
<1>5. ~shm[c].release_frees
  BY <1>2 DEF Inv, LifeInv, FlagsOK
<1>6. \A u \in Threads : UsesElement(u) /\ th[u].c = c => ~Releasing(u) /\ th[u].pc \notin Finishing
  BY <1>2, RegisteredReferenced DEF Inv, LifeInv, ElementOK, Releasing
<1>7. TypeOK'
  BY DEF Release, Idle, Inv, TypeOK, Labels
<1>8. \A u \in Threads : LocalOK(u)'
  BY <1>3, NoneAssumption DEF Inv, LifeInv, LocalOK, OnlyThread
<1>9. \A u \in Threads : ElementOK(u)'
  <2>1. ElementOK(t)'
    <3>1. shm'[c].live /\ shm'[c].releasing
      BY <1>2, <1>4
    <3>2. th'[t].pc = "rel_put" /\ th'[t].c = c
      BY <1>3
    <3> QED
      BY <3>1, <3>2 DEF ElementOK
  <2>2. ASSUME NEW u \in Threads \ {t} PROVE ElementOK(u)'
    <3>1. th'[u] = th[u]
      BY <1>3 DEF OnlyThread
    <3>2. CASE th[u].c = c
      BY <1>2, <1>4, <3>1, <3>2 DEF Inv, LifeInv, ElementOK, UsesElement, Touches
    <3>3. CASE th[u].c # c
      BY <1>3, <3>1, <3>3 DEF Inv, LifeInv, LocalOK, ElementOK, UsesElement, Touches, OnlyElement
    <3> QED
      BY <3>2, <3>3
  <2> QED
    BY <2>1, <2>2
<1>10. \A d \in Cookies : FlagsOK(d)'
  BY <1>2, <1>3, <1>4, <1>5 DEF Inv, LifeInv, FlagsOK, OnlyElement
<1>11. \A u, v \in Threads : AloneOK(u, v)'
  BY <1>2, <1>3, <1>4, <1>6
     DEF Inv, LifeInv, LocalOK, AloneOK, UsesElement, Touches, Releasing, OnlyThread, OnlyElement
<1>12. CountersExact'
  <2>1. Users(c)' = Users(c) /\ Mapped(c)' = Mapped(c)
    BY <1>1, <1>3, IdleFields DEF OnlyThread, Users, Mapped
  <2>2. OwnRef(c) = 1 /\ OwnRef(c)' = 1
    BY <1>2, <1>3 DEF OwnRef
  <2>3. th[t].c \in {c, None} /\ th'[t].c \in {c, None}
    BY <1>1, <1>3, IdleFields
  <2>4. /\ shm[c].refc = Cardinality(Users(c)) + OwnRef(c)
        /\ (shm[c].live /\ shm[c].refc > 0) => shm[c].mapcount = Cardinality(Mapped(c))
    BY CountersOf DEF Inv
  <2>5. shm'[c].refc = Cardinality(Users(c)') + OwnRef(c)'
    BY <1>4, <2>1, <2>2, <2>4
  <2>6. (shm'[c].live /\ shm'[c].refc > 0) => shm'[c].mapcount = Cardinality(Mapped(c)')
    BY <1>4, <2>1, <2>4
  <2> QED
    BY <1>3, <2>3, <2>5, <2>6, CountersFrame DEF Inv
<1>13. MappedWhileUsed'
  BY <1>1, <1>3, <1>4, IdleFields, MappedFrame DEF Inv
<1>14. WaitersExact'
  <2>1. t \notin Waiters /\ (t \notin Waiters)'
    BY <1>1, <1>3, IdleFields DEF Waiters
  <2> QED
    BY <1>2, <1>3, <2>1, WaitersFrame DEF Inv
<1>15. NoLostWakeup'
  BY <1>1, <1>3, <1>4, IdleFields
     DEF Inv, NoLostWakeup, At, OnlyThread, OnlyElement, LifeInv, LocalOK
<1> QED
  BY <1>7, <1>8, <1>9, <1>10, <1>11, <1>12, <1>13, <1>14, <1>15 DEF Inv, LifeInv

\* The broadcast wakes every waiter of every release: it changes nothing but
\* where the threads are.
LEMMA BroadcastStep ==
    ASSUME Inv, NEW t \in Threads, Broadcast(t)
    PROVE  Inv'
<1> USE DEF UserLabels, ReleaseLabels, Finishing
<1> DEFINE woken == IF shm_release_waiters > 0 THEN {u \in Threads : At(u, "rel_wait")} ELSE {}
<1>1. /\ th[t].pc = "broadcast"
      /\ th' = [u \in Threads |->
                  IF u \in woken THEN [th[u] EXCEPT !.pc = "rel_relock"]
                  ELSE IF u # t THEN th[u]
                  ELSE IF th[t].rel THEN [th[t] EXCEPT !.pc = "rel_lock"] ELSE Idle]
      /\ shm' = shm /\ shm_mu' = None /\ shm_release_waiters' = shm_release_waiters
  BY DEF Broadcast, At
<1>2. \A u \in Threads : th[u].pc = "rel_wait" <=> u \in woken
  <2>1. ASSUME NEW u \in Threads, th[u].pc = "rel_wait" PROVE shm_release_waiters > 0
    <3>1. u \in Waiters /\ Waiters \subseteq Threads
      BY <2>1 DEF Waiters
    <3>2. IsFiniteSet(Waiters)
      BY <3>1, ThreadsAssumption, FS_Subset
    <3>3. Cardinality(Waiters) \in Nat /\ Cardinality(Waiters) # 0
      BY <3>1, <3>2, FS_CardinalityType, FS_EmptySet
    <3> QED
      BY <3>3 DEF Inv, WaitersExact
  <2> QED
    BY <2>1 DEF At
<1> HIDE DEF woken
<1>3. /\ \A u \in Threads : th[u].pc = "rel_wait" =>
            /\ th'[u].pc = "rel_relock"
            /\ th'[u].c = th[u].c /\ th'[u].rel = th[u].rel /\ th'[u].map = th[u].map
      /\ \A u \in Threads \ {t} : th[u].pc # "rel_wait" => th'[u] = th[u]
      /\ th[t].rel => th'[t].pc = "rel_lock" /\ th'[t].c = th[t].c /\ th'[t].rel
      /\ ~th[t].rel => th'[t] = Idle
  BY <1>1, <1>2 DEF Inv, TypeOK
<1>4. TypeOK'
  <2>1. "rel_relock" \in Labels /\ "rel_lock" \in Labels
    BY DEF Labels
  <2>2. Idle \in [pc : Labels, c : Cookies \cup {None}, rel : BOOLEAN, map : BOOLEAN]
    BY DEF Idle, Labels
  <2> HIDE DEF UserLabels, ReleaseLabels
  <2>3. th' \in [Threads -> [pc : Labels, c : Cookies \cup {None}, rel : BOOLEAN, map : BOOLEAN]]
    BY <1>1, <2>1, <2>2 DEF Inv, TypeOK
  <2> QED
    BY <1>1, <2>3 DEF Inv, TypeOK
<1>5. \A u \in Threads : LocalOK(u)'
  <2> SUFFICES ASSUME NEW u \in Threads PROVE LocalOK(u)'
    OBVIOUS
  <2>1. LocalOK(u)
    BY DEF Inv, LifeInv
  <2>2. CASE th[u].pc = "rel_wait"
    BY <1>3, <2>1, <2>2 DEF LocalOK
  <2>3. CASE u # t /\ th[u].pc # "rel_wait"
    BY <1>3, <2>1, <2>3 DEF LocalOK
  <2>4. CASE u = t /\ th[t].rel
    BY <1>1, <1>3, <2>1, <2>4 DEF LocalOK
  <2>5. CASE u = t /\ ~th[t].rel
    BY <1>1, <1>3, <2>1, <2>5, IdleFields DEF LocalOK
  <2> QED
    BY <1>1, <2>2, <2>3, <2>4, <2>5
<1> DEFINE Outside == {"idle", "broadcast", "rel_wait", "rel_relock", "rel_lock"}
<1>6. ASSUME NEW u \in Threads, th'[u] # th[u]
      PROVE  /\ th[u].pc \in Outside /\ th'[u].pc \in Outside
             /\ th[u].rel => th'[u].rel /\ th'[u].c = th[u].c
             /\ th'[u].rel => th[u].rel
             /\ th[u].pc = "rel_wait" => th'[u].pc = "rel_relock"
             /\ th[u].pc # "rel_wait" => th'[u].pc \in {"idle", "rel_lock"} /\ th[u].pc = "broadcast"
  <2>1. CASE th[u].pc = "rel_wait"
    BY <1>3, <2>1
  <2>2. CASE th[u].pc # "rel_wait"
    <3>1. u = t
      BY <1>3, <1>6, <2>2
    <3>2. CASE th[t].rel
      BY <1>1, <1>3, <3>1, <3>2
    <3>3. CASE ~th[t].rel
      BY <1>1, <1>3, <3>1, <3>3, IdleFields
    <3> QED
      BY <3>2, <3>3
  <2> QED
    BY <2>1, <2>2
<1>7. ASSUME NEW u \in Threads
      PROVE  /\ UsesElement(u)' => UsesElement(u) /\ th'[u].c = th[u].c
             /\ Releasing(u)' => Releasing(u)
             /\ th'[u].pc \notin Outside => th'[u] = th[u]
             /\ th[u].pc \notin Outside => th'[u] = th[u]
  <2>1. CASE th'[u] = th[u]
    BY <2>1 DEF UsesElement, Releasing
  <2>2. CASE th'[u] # th[u]
    BY <1>6, <2>2 DEF UsesElement, Touches, Releasing
  <2> QED
    BY <2>1, <2>2
<1>8. \A u \in Threads : ElementOK(u)'
  <2> SUFFICES ASSUME NEW u \in Threads PROVE ElementOK(u)'
    OBVIOUS
  <2>1. CASE th'[u].pc \notin Outside
    <3>1. th'[u] = th[u] /\ shm' = shm /\ ElementOK(u)
      BY <1>1, <1>7, <2>1 DEF Inv, LifeInv
    <3> QED
      BY <3>1 DEF ElementOK, UsesElement
  <2>2. CASE th'[u].pc \in Outside
    BY <1>1, <1>7, <2>2 DEF Inv, LifeInv, ElementOK, Releasing, UsesElement, Touches
  <2> QED
    BY <2>1, <2>2
<1>9. \A d \in Cookies : FlagsOK(d)'
  BY <1>1 DEF Inv, LifeInv, FlagsOK
<1>10. \A u, v \in Threads : AloneOK(u, v)'
  <2> SUFFICES ASSUME NEW u \in Threads, NEW v \in Threads,
                      UsesElement(u)', UsesElement(v)', th'[u].c = th'[v].c
               PROVE  /\ shm'[th'[u].c].guarded => u = v
                      /\ (th'[u].pc \in Finishing /\ th'[v].pc \in Finishing) => u = v
                      /\ (Releasing(u)' /\ Releasing(v)') => u = v
    BY DEF AloneOK
  <2>1. /\ shm[th[u].c].guarded => u = v
        /\ (th[u].pc \in Finishing /\ th[v].pc \in Finishing) => u = v
        /\ (Releasing(u) /\ Releasing(v)) => u = v
    BY <1>7 DEF Inv, LifeInv, AloneOK
  <2> QED
    BY <1>1, <1>7, <2>1
<1>11. CountersExact'
  <2> SUFFICES ASSUME NEW d \in Cookies
               PROVE  Users(d)' = Users(d) /\ Mapped(d)' = Mapped(d) /\ OwnRef(d)' = OwnRef(d)
    BY <1>1 DEF Inv, CountersExact, Mapped
  <2>1. Users(d)' = Users(d)
    BY <1>7 DEF Users
  <2>2. Mapped(d)' = Mapped(d)
    BY <1>7 DEF Users, Mapped
  <2>3. \A u \in Threads : th'[u].c = d /\ th'[u].pc \in {"unguard", "rel_put"} <=>
                            th[u].c = d /\ th[u].pc \in {"unguard", "rel_put"}
    BY <1>7
  <2> QED
    BY <1>1, <2>1, <2>2, <2>3 DEF OwnRef
<1>12. MappedWhileUsed'
  <2>1. ASSUME NEW u \in Threads, th'[u].pc = "hold", th'[u].map PROVE shm'[th'[u].c].mm
    <3>1. th'[u] = th[u]
      BY <1>7, <2>1
    <3> QED
      BY <1>1, <2>1, <3>1 DEF Inv, MappedWhileUsed, At
  <2>2. ASSUME NEW d \in Cookies, shm'[d].mm, shm'[d].mapcount = 0
        PROVE  \E u \in Threads : th'[u].pc = "unmap" /\ th'[u].c = d
    <3>1. PICK u \in Threads : th[u].pc = "unmap" /\ th[u].c = d
      BY <1>1, <2>2 DEF Inv, MappedWhileUsed, At
    <3> QED
      BY <1>7, <3>1
  <2> QED
    BY <2>1, <2>2 DEF MappedWhileUsed, At
<1>13. WaitersExact'
  <2>1. ASSUME NEW u \in Threads PROVE u \in Waiters' <=> u \in Waiters
    <3>1. CASE th'[u] = th[u]
      BY <3>1 DEF Waiters
    <3>2. CASE th'[u] # th[u]
      BY <1>6, <3>2 DEF Waiters
    <3> QED
      BY <3>1, <3>2
  <2>2. Waiters' = Waiters
    BY <2>1 DEF Waiters
  <2> QED
    BY <1>1, <2>2 DEF Inv, WaitersExact
<1>14. NoLostWakeup'
  <2>1. \A u \in Threads : th'[u].pc # "rel_wait"
    BY <1>3, <1>6
  <2> QED
    BY <2>1 DEF NoLostWakeup, At
<1> QED
  BY <1>4, <1>5, <1>8, <1>9, <1>10, <1>11, <1>12, <1>13, <1>14 DEF Inv, LifeInv

-----------------------------------------------------------------------------
(* The theorems *)

\* No memory is registered and every thread is idle.
LEMMA InitInv == Init => Inv
<1> SUFFICES ASSUME Init PROVE Inv
  OBVIOUS
<1>1. \A t \in Threads : th[t] = Idle /\ th[t].pc = "idle"
  BY IdleFields DEF Init
<1>2. \A c \in Cookies : shm[c] = Free
  BY DEF Init
<1>3. TypeOK
  BY DEF Init, TypeOK, Free, Idle, Labels
<1>4. LifeInv
  <2>1. \A t \in Threads : LocalOK(t) /\ ElementOK(t) /\ ~UsesElement(t)
    BY <1>1, IdleFields
       DEF LocalOK, ElementOK, UsesElement, Touches, UserLabels, ReleaseLabels, Finishing
  <2>2. \A c \in Cookies : FlagsOK(c)
    BY <1>2 DEF FlagsOK, Free
  <2> QED
    BY <2>1, <2>2 DEF LifeInv, AloneOK
<1>5. CountersExact
  <2> SUFFICES ASSUME NEW c \in Cookies
               PROVE  Users(c) = {} /\ OwnRef(c) = 0 /\ shm[c].refc = 0 /\ ~shm[c].live
    BY FS_EmptySet DEF CountersExact
  <2>1. shm[c].refc = 0 /\ ~shm[c].live
    BY <1>2 DEF Free
  <2> QED
    BY <1>1, <2>1 DEF Users, UserLabels, OwnRef
<1>6. MappedWhileUsed
  BY <1>1, <1>2 DEF MappedWhileUsed, At, Free
<1>7. WaitersExact
  <2>1. Waiters = {}
    BY <1>1 DEF Waiters
  <2> QED
    BY <2>1, FS_EmptySet DEF Init, WaitersExact
<1>8. NoLostWakeup
  BY <1>1 DEF NoLostWakeup, At
<1> QED
  BY <1>3, <1>4, <1>5, <1>6, <1>7, <1>8 DEF Inv

\* A step that changes nothing.
LEMMA InvUnchanged ==
    ASSUME Inv, UNCHANGED vars
    PROVE  Inv'
<1> USE DEF vars
<1>1. TypeOK'
  BY DEF Inv, TypeOK
<1>2. LifeInv'
  BY DEF Inv, LifeInv, LocalOK, ElementOK, FlagsOK, AloneOK, UsesElement, Releasing
<1>3. CountersExact'
  BY DEF Inv, CountersExact, Users, OwnRef
<1>4. MappedWhileUsed' /\ NoLostWakeup'
  BY DEF Inv, MappedWhileUsed, NoLostWakeup, At
<1>5. WaitersExact'
  BY DEF Inv, WaitersExact, Waiters
<1> QED
  BY <1>1, <1>2, <1>3, <1>4, <1>5 DEF Inv

\* Every step keeps the invariant.
LEMMA InvStep == Inv /\ [Next]_vars => Inv'
<1> SUFFICES ASSUME Inv, [Next]_vars PROVE Inv'
  OBVIOUS
<1>1. ASSUME NEW t \in Threads, NEW c \in Cookies,
             RegisterShm(t, c) \/ TempShm(t, c) \/ MappedShmAlloc(t, c)
      PROVE  Inv'
  BY <1>1, AllocStep DEF RegisterShm, TempShm, MappedShmAlloc
<1>2. ASSUME NEW t \in Threads, NEW c \in Cookies, Find(t, c) \/ Release(t, c) PROVE Inv'
  BY <1>2, FindStep, ReleaseStep
<1>3. ASSUME NEW t \in Threads, Inside(t) PROVE Inv'
  BY <1>3, UnguardStep, GetStep, MapLockedStep, UnmapStep, FreeDecideStep, FreeHelperStep,
     SetReleaseFreesStep, BroadcastStep, ReleaseCheckStep, ReleaseExitStep DEF Inside
<1>4. ASSUME NEW t \in Threads, TakesMutex(t) PROVE Inv'
  BY <1>4, NotifyLockStep, ReleaseLockStep, ReleaseRelockStep DEF TakesMutex
<1>5. ASSUME NEW t \in Threads, IncMap(t) \/ DecMap(t) \/ Put(t) PROVE Inv'
  BY <1>5, IncMapStep, DecMapStep, PutStep
<1>6. CASE UNCHANGED vars
  BY <1>6, InvUnchanged
<1> QED
  BY <1>1, <1>2, <1>3, <1>4, <1>5, <1>6 DEF Next

\* The inductive invariant holds in every reachable state.
LEMMA InvCorrect == Spec => []Inv
  BY InitInv, InvStep, PTL DEF Spec

\* Every variable has its type: no counter goes below 0.
THEOREM TypeCorrect == Spec => []TypeOK
<1>1. Inv => TypeOK
  BY DEF Inv
<1> QED
  BY <1>1, InvCorrect, PTL

\* mobj_reg_shm_free() and mobj_reg_shm_release_by_cookie() free an element
\* only when no thread will touch it again, and mobj_get() never finds a
\* counter that is 0.
THEOREM LifetimeCorrect == Spec => []NoUseAfterFree
<1>1. Inv => NoUseAfterFree
  BY DEF Inv, LifeInv, ElementOK, NoUseAfterFree
<1> QED
  BY <1>1, InvCorrect, PTL

\* refc counts the users and the registration, mapcount the users that have
\* the memory mapped, however many threads there are.
THEOREM CountersCorrect == Spec => []CountersExact
<1>1. Inv => CountersExact
  BY DEF Inv
<1> QED
  BY <1>1, InvCorrect, PTL

\* What a thread has mapped stays mapped until its own dec_map(), and what
\* nobody counts in is about to be unmapped.
THEOREM MappingCorrect == Spec => []MappedWhileUsed
<1>1. Inv => MappedWhileUsed
  BY DEF Inv
<1> QED
  BY <1>1, InvCorrect, PTL

\* A release that waits for memory which can be freed has a
\* condvar_broadcast() coming.
THEOREM ReleaseWoken == Spec => []NoLostWakeup
<1>1. Inv => NoLostWakeup
  BY DEF Inv
<1> QED
  BY <1>1, InvCorrect, PTL

=============================================================================
