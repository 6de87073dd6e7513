------------------------ MODULE TaManagerWakeProofs -------------------------
(***************************************************************************)
(* Proofs about the condition variables of TaManager: no wake-up is lost,  *)
(* the panic() of tee_ta_set_busy() is a call back into a TA that the      *)
(* thread is already in, and threads never wait for each other in a        *)
(* circle.  They stand on the invariant of TaManagerProofs.                *)
(*                                                                         *)
(* A signal wakes one thread although several wait, so it is not enough    *)
(* that somebody was woken: the thread that is on its way must be one      *)
(* whose next step takes what the others wait for, or finds it taken.      *)
(* WakeOK says which threads those are.  The proof says of each step which *)
(* conditions it keeps for the threads that sleep on (the ...Kept          *)
(* operators), and what its own thread waits for when it goes to sleep.    *)
(* CycleOK adds which call holds the lock of a session.                    *)
(***************************************************************************)
EXTENDS TaManagerProofs

-----------------------------------------------------------------------------
(* The inductive invariant *)

\* The innermost call of thread u is at this place.
Is(u, pc) == stack[u] # <<>> /\ Top(u).pc = pc

\* The TA takes the single-instance lock.
TakesSi(c) == NeedsSiLock(c) /\ ~Has(c, "CONCURRENT")

\* A thread waits for busy_cv only in a TA without the single-instance lock,
\* while the TA is busy or a thread is about to test that.
BusyWake(u) ==
    Is(u, "wait_busy") =>
        /\ ~NeedsSiLock(Top(u).c) /\ ~Has(Top(u).c, "CONCURRENT")
        /\ \/ ctx[Top(u).c].busy
           \/ \E v \in Threads : Is(v, "set_busy") /\ Top(v).c = Top(u).c

\* A thread waits for tee_ta_cv only in a TA with that lock, while it is taken
\* or a thread is about to take it.
SiWake(u) ==
    Is(u, "wait_si") =>
        /\ TakesSi(Top(u).c)
        /\ \/ siThread # None
           \/ \E v \in Threads : Is(v, "set_busy") /\ TakesSi(Top(v).c)

\* A thread waits for lock_cv while the session is locked or a thread is about
\* to lock it, and never when it is being unlinked.
LockWake(u) ==
    Is(u, "wait_lock") =>
        /\ ~sess[Top(u).s].unlink
        /\ \/ sess[Top(u).s].lock # None
           \/ \E v \in Threads : Is(v, "relock") /\ Top(v).s = Top(u).s

\* A thread waits for refc_cv while another call uses the session.
RefcWake(u) == Is(u, "wait_refc") => sess[Top(u).s].ref > 1

\* A thread waits for tee_ta_init_cv while an instance of the TA is loaded,
Loading(c) == ctx[c].live /\ ctx[c].initializing
InitWake(u) == Is(u, "wait_init") => \E c \in Ctxs : Loading(c) /\ ctx[c].uuid = Top(u).uuid

\* and some thread loads it.
LoadWake(c) == Loading(c) => \E v \in Threads : Is(v, "ldelf") /\ Top(v).c = c

SelfOK(u) == BusyWake(u) /\ SiWake(u) /\ LockWake(u) /\ RefcWake(u) /\ InitWake(u)
WakeOK ==
    /\ \A u \in Threads : SelfOK(u)
    /\ \A c \in Ctxs : LoadWake(c)

-----------------------------------------------------------------------------
(* The innermost calls *)

\* Thread t makes the step and the threads of W are woken: the others stay in
\* the call they are in.
Others(t, W) ==
    \A u \in Threads \ {t} :
        /\ stack'[u] = <<>> <=> stack[u] = <<>>
        /\ stack[u] # <<>> =>
              /\ Top(u)'.c = Top(u).c /\ Top(u)'.s = Top(u).s /\ Top(u)'.uuid = Top(u).uuid
              /\ Top(u)'.pc = IF u \in W THEN Resume[Top(u).pc] ELSE Top(u).pc

\* Move() does that.
LEMMA OthersMove ==
    ASSUME Inv, NEW t \in Threads, NEW st, NEW W, \A u \in W : Asleep(u), Move(t, st, W)
    PROVE  Others(t, W)
<1>1. stack \in Stacks
  BY InvFacts DEF Facts
<1>2. ASSUME NEW u \in Threads \ {t}, u \notin W
      PROVE  stack'[u] = stack[u]
  BY <1>2 DEF Move
<1>3. ASSUME NEW u \in Threads \ {t}, u \in W
      PROVE  /\ stack'[u] # <<>> /\ stack[u] # <<>>
             /\ Top(u)'.c = Top(u).c /\ Top(u)'.s = Top(u).s /\ Top(u)'.uuid = Top(u).uuid
             /\ Top(u)'.pc = Resume[Top(u).pc]
  <2>1. /\ stack[u] # <<>> /\ Top(u).pc \in DOMAIN Resume
    BY <1>3 DEF Asleep
  <2>2. PICK n : n = Len(stack[u])
    OBVIOUS
  <2>3. /\ stack[u] \in Seq(CallType) /\ n \in Nat \ {0} /\ Top(u) = stack[u][n] /\ Top(u) \in CallType
    BY <1>1, <2>1, <2>2, TopIs DEF Stacks, Top
  <2>4. PICK f : f = [Top(u) EXCEPT !.pc = Resume[@]]
    OBVIOUS
  <2>5. /\ f \in CallType /\ f.pc = Resume[Top(u).pc] /\ f.c = Top(u).c /\ f.s = Top(u).s
        /\ f.uuid = Top(u).uuid
    BY <2>1, <2>3, <2>4, ResumeIs DEF CallType, Labels
  <2>6. stack'[u] = [stack[u] EXCEPT ![n] = f]
    BY <1>3, <2>2, <2>3, <2>4 DEF Move
  <2>7. stack'[u] \in Seq(CallType) /\ Len(stack'[u]) = n /\ stack'[u][n] = f
    BY <2>2, <2>3, <2>5, <2>6
  <2>8. Top(u)' = f /\ stack'[u] # <<>>
    BY <2>3, <2>7 DEF Top
  <2> QED
    BY <2>1, <2>5, <2>8
<1>4. \A u \in Threads \ {t} : u \notin W => Top(u)' = Top(u)
  BY <1>2 DEF Top
<1> QED
  BY <1>2, <1>3, <1>4 DEF Others

\* Where the step leaves its thread: in a changed call,
LEMMA SelfWith ==
    ASSUME Inv, NEW t \in Threads, stack[t] # <<>>, NEW f \in CallType, NEW W, Move(t, With(t, f), W)
    PROVE  stack'[t] # <<>> /\ Top(t)' = f
<1>1. PICK n : n = Len(stack[t])
  OBVIOUS
<1>2. stack \in Stacks /\ stack[t] \in Seq(CallType) /\ n \in Nat \ {0}
  BY <1>1, InvFacts, TopIs DEF Facts, Stacks
<1>3. stack'[t] = [stack[t] EXCEPT ![n] = f]
  BY <1>1 DEF Move, With
<1>4. stack'[t] \in Seq(CallType) /\ Len(stack'[t]) = n /\ stack'[t][n] = f
  BY <1>1, <1>2, <1>3
<1> QED
  BY <1>2, <1>4 DEF Top

\* at another place of its call,
LEMMA SelfGoto ==
    ASSUME Inv, NEW t \in Threads, stack[t] # <<>>, NEW pc \in Labels, NEW W, Move(t, Goto(t, pc), W)
    PROVE  /\ stack'[t] # <<>> /\ Top(t)'.pc = pc /\ Top(t)'.c = Top(t).c /\ Top(t)'.s = Top(t).s
           /\ Top(t)'.uuid = Top(t).uuid
<1>1. Top(t) \in CallType
  BY InvFacts, TopIs DEF Facts
<1>2. PICK f : f = [Top(t) EXCEPT !.pc = pc]
  OBVIOUS
<1>3. f \in CallType /\ f.pc = pc /\ f.c = Top(t).c /\ f.s = Top(t).s /\ f.uuid = Top(t).uuid
  BY <1>1, <1>2 DEF CallType
<1>4. Move(t, With(t, f), W)
  BY <1>2 DEF Goto
<1> QED
  BY <1>3, <1>4, SelfWith

\* in a new call,
LEMMA SelfCall ==
    ASSUME Inv, NEW t \in Threads, NEW f \in CallType, NEW W, Move(t, Append(stack[t], f), W)
    PROVE  stack'[t] # <<>> /\ Top(t)' = f
<1>1. stack[t] \in Seq(CallType)
  BY InvFacts DEF Facts, Stacks
<1>2. stack'[t] = Append(stack[t], f)
  BY DEF Move
<1>3. Len(stack'[t]) = Len(stack[t]) + 1 /\ stack'[t][Len(stack[t]) + 1] = f /\ stack'[t] # <<>>
  BY <1>1, <1>2
<1> QED
  BY <1>3 DEF Top

\* or back in the one that made the call, which runs.
LEMMA SelfReturn ==
    ASSUME Inv, NEW t \in Threads, stack[t] # <<>>, NEW W, Move(t, Return(t), W), stack'[t] # <<>>
    PROVE  Top(t)'.pc \in {"body", "release", "destroy"}
<1>1. PICK n : n = Len(stack[t])
  OBVIOUS
<1>2. stack \in Stacks /\ stack[t] \in Seq(CallType) /\ n \in Nat \ {0}
  BY <1>1, InvFacts, TopIs DEF Facts, Stacks
<1>3. stack'[t] = SubSeq(stack[t], 1, n - 1)
  BY <1>1 DEF Move, Return
<1>4. /\ stack'[t] \in Seq(CallType) /\ Len(stack'[t]) = n - 1
      /\ \A i \in 1 .. n - 1 : stack'[t][i] = stack[t][i]
  BY <1>1, <1>2, <1>3
<1>5. n - 1 \in Nat \ {0}
  BY <1>2, <1>4
<1>6. Top(t)' = stack[t][n - 1]
  BY <1>4, <1>5 DEF Top
<1>7. PICK x, y : x = <<t, n>> /\ y = <<t, n - 1>>
  OBVIOUS
<1>8. x \in Frames /\ y \in Frames /\ x[1] = t /\ x[2] = n /\ x[2] # 1
  <2>1. \A m \in Nat \ {0} : m <= n => <<t, m>> \in Frames
    BY <1>1, <1>2, FramesIs DEF FramesAre
  <2> QED
    BY <1>2, <1>5, <1>7, <2>1
<1>9. Calls(Call[y], Call[x])
  <2>1. StackOK
    BY DEF Inv
  <2>2. y = <<x[1], x[2] - 1>>
    BY <1>7, <1>8
  <2> QED
    BY <1>8, <2>1, <2>2 DEF StackOK
<1>10. Call[y].pc \in {"body", "release", "destroy"}
  BY <1>9 DEF Calls
<1>11. /\ Call[y].pc = IF F(y).pc \in DOMAIN Resume THEN Resume[F(y).pc] ELSE F(y).pc
       /\ F(y) = stack[t][n - 1]
  BY <1>7, <1>8, CallFields DEF F
<1>12. F(y).pc \in {"body", "release", "destroy"}
  BY <1>10, <1>11, ResumeIs
<1> QED
  BY <1>6, <1>11, <1>12

\* The calls that wait or test name a context or a session.
LEMMA NamesIs ==
    ASSUME Inv, NEW u \in Threads, stack[u] # <<>>
    PROVE  /\ Top(u) \in CallType /\ Place(u) \in Frames
           /\ Call[Place(u)].op = Top(u).op /\ Call[Place(u)].c = Top(u).c /\ Call[Place(u)].s = Top(u).s
           /\ Top(u).pc \in {"wait_busy", "wait_si", "set_busy", "ldelf"} =>
                 Top(u).c \in Ctxs /\ ctx[Top(u).c].live
           /\ Top(u).c # None => Top(u).c \in Ctxs /\ ctx[Top(u).c].live
           /\ Top(u).pc \in {"wait_lock", "relock", "wait_refc"} => Top(u).s \in Sessions
           /\ Top(u).pc \in {"wait_refc", "unlink", "unlinked"} => Top(u).op = "close"
           /\ Top(u).pc \in {"wait_lock", "wait_refc", "relock", "unlink", "unlinked", "put"} =>
                 Uses(Call[Place(u)])
<1>1. Facts
  BY InvFacts
<1>2. /\ Top(u) \in CallType /\ Place(u) \in Frames /\ Call[Place(u)] = Norm(Top(u))
  BY <1>1, TopIs DEF Facts
<1>3. PICK f : f = Call[Place(u)]
  OBVIOUS
<1>4. /\ f \in CallType /\ f.op = Top(u).op /\ f.c = Top(u).c /\ f.s = Top(u).s
      /\ f.pc = IF Top(u).pc \in DOMAIN Resume THEN Resume[Top(u).pc] ELSE Top(u).pc
  BY <1>2, <1>3, NormIs
<1>5. CallOK(f) /\ (f.c # None => ctx[f.c].live) /\ None \notin Ctxs /\ None \notin Sessions
  BY <1>1, <1>2, <1>3 DEF Facts, StackOK, CtxOK, CtxCalls, CtxCall
<1>6. Top(u).pc \in {"wait_busy", "wait_si", "set_busy", "ldelf"} => f.pc \in {"set_busy", "ldelf"}
  BY <1>4, ResumeIs
<1>7. f.pc \in {"set_busy", "ldelf"} => f.c # None
  BY <1>4, <1>5 DEF CallOK, CallType
<1>8. f.c # None => f.c \in Ctxs
  BY <1>4 DEF CallType
<1>9. f.pc \in {"relock", "unlinked"} => f.s \in Sessions
  BY <1>4, <1>5 DEF CallOK, CallType
<1>10. f.pc \in {"unlink", "unlinked"} => f.op = "close"
  BY <1>4, <1>5 DEF CallOK, CallType, InTa
<1>11. f.pc \in {"relock", "unlink", "unlinked", "put"} => Uses(f)
  BY DEF Uses
<1>12. Top(u).pc \in {"wait_lock", "wait_refc", "relock", "unlink", "unlinked", "put"} =>
          f.pc \in {"relock", "unlink", "unlinked", "put"}
  BY <1>4, ResumeIs
<1>13. Top(u).pc \in {"wait_lock", "relock", "wait_refc"} => f.pc \in {"relock", "unlinked"}
  BY <1>4, ResumeIs
<1>14. Top(u).pc \in {"wait_refc", "unlink", "unlinked"} => f.pc \in {"unlink", "unlinked"}
  BY <1>4, ResumeIs
<1> QED
  BY <1>2, <1>3, <1>4, <1>5, <1>6, <1>7, <1>8, <1>9, <1>10, <1>11, <1>12, <1>13, <1>14

-----------------------------------------------------------------------------
(* What a step keeps for the threads that sleep on *)

\* The other threads find the same TAs as before.
TasKept(t) ==
    \A u \in Threads \ {t} :
        stack[u] # <<>> /\ Top(u).c # None => ctx'[Top(u).c].uuid = ctx[Top(u).c].uuid

\* A TA that was busy, or that t was about to test, is busy or another of its
\* waiters is woken.
BusyKept(t, W) ==
    \A u \in Threads \ ({t} \cup W) :
        (/\ Is(u, "wait_busy") /\ ~NeedsSiLock(Top(u).c) /\ ~Has(Top(u).c, "CONCURRENT")
         /\ ctx[Top(u).c].busy \/ (Is(t, "set_busy") /\ Top(t).c = Top(u).c)) =>
            \/ ctx'[Top(u).c].busy
            \/ \E v \in W \ {t} : Is(v, "wait_busy") /\ Top(v).c = Top(u).c

\* The same for the single-instance lock,
SiKept(t, W) ==
    \A u \in Threads \ ({t} \cup W) :
        (/\ Is(u, "wait_si")
         /\ siThread # None \/ (Is(t, "set_busy") /\ TakesSi(Top(t).c))) =>
            \/ siThread' # None
            \/ \E v \in W \ {t} : Is(v, "wait_si")

\* for the lock of a session,
LockKept(t, W) ==
    \A u \in Threads \ ({t} \cup W) :
        Is(u, "wait_lock") /\ ~sess[Top(u).s].unlink =>
            /\ ~sess'[Top(u).s].unlink
            /\ sess[Top(u).s].lock # None \/ (Is(t, "relock") /\ Top(t).s = Top(u).s) =>
                  \/ sess'[Top(u).s].lock # None
                  \/ \E v \in W \ {t} : Is(v, "wait_lock") /\ Top(v).s = Top(u).s

\* for its references,
RefcKept(t, W) ==
    \A u \in Threads \ ({t} \cup W) :
        Is(u, "wait_refc") /\ sess[Top(u).s].ref > 1 => sess'[Top(u).s].ref > 1

\* and for the instances being loaded.
InitKept(t, W) ==
    \A u \in Threads \ ({t} \cup W) : Is(u, "wait_init") =>
        \A c \in Ctxs : Loading(c) => Loading(c)' /\ ctx'[c].uuid = ctx[c].uuid
LoadKept(t) ==
    \A c \in Ctxs : Loading(c)' =>
        \/ Loading(c) /\ ~(Is(t, "ldelf") /\ Top(t).c = c)
        \/ (Is(t, "ldelf") /\ Top(t).c = c)'

\* A thread that is not woken is at the same place, one that is woken tests.
LEMMA OthersAre ==
    ASSUME Inv, NEW t \in Threads, NEW W, \A u \in W : Asleep(u), Others(t, W), NEW u \in Threads \ {t}
    PROVE  /\ u \notin W => \A pc : Is(u, pc)' <=> Is(u, pc)
           /\ u \in W => \A pc \in DOMAIN Resume : ~Is(u, pc)'
           /\ u \in W => \A pc \in DOMAIN Resume : Is(u, pc) => Is(u, Resume[pc])'
           /\ stack[u] # <<>> => /\ stack'[u] # <<>>
                                 /\ Top(u)'.c = Top(u).c /\ Top(u)'.s = Top(u).s
                                 /\ Top(u)'.uuid = Top(u).uuid
<1>1. u \in W => stack[u] # <<>> /\ Top(u).pc \in DOMAIN Resume
  BY DEF Asleep
<1>2. \A pc \in DOMAIN Resume : Resume[pc] \notin DOMAIN Resume
  BY ResumeIs
<1>3. /\ stack'[u] = <<>> <=> stack[u] = <<>>
      /\ stack[u] # <<>> =>
            /\ Top(u)'.c = Top(u).c /\ Top(u)'.s = Top(u).s /\ Top(u)'.uuid = Top(u).uuid
            /\ Top(u)'.pc = IF u \in W THEN Resume[Top(u).pc] ELSE Top(u).pc
  BY DEF Others
<1> QED
  BY <1>1, <1>2, <1>3 DEF Is

\* The flags of a context are those of its TA.
LEMMA HasKept ==
    ASSUME NEW c, ctx'[c].uuid = ctx[c].uuid
    PROVE  /\ \A flag : Has(c, flag)' <=> Has(c, flag)
           /\ NeedsSiLock(c)' <=> NeedsSiLock(c)
           /\ TakesSi(c)' <=> TakesSi(c)
BY DEF Has, NeedsSiLock, TakesSi

\* The setting of the next lemmas.
Steps(t, W) ==
    /\ Inv /\ WakeOK /\ t \in Threads /\ Others(t, W)
    /\ \A u \in W : Asleep(u) /\ u \in Threads

\* The waiters of busy_cv.
LEMMA BusyWakeStep ==
    ASSUME NEW t, NEW W, Steps(t, W), TasKept(t), BusyKept(t, W), NEW u \in Threads \ {t}
    PROVE  BusyWake(u)'
<1>1. CASE u \in W
  BY <1>1, OthersAre, ResumeIs DEF Steps, BusyWake
<1>2. CASE u \notin W
  <2> SUFFICES ASSUME Is(u, "wait_busy")'
               PROVE  /\ ~NeedsSiLock(Top(u).c)' /\ ~Has(Top(u).c, "CONCURRENT")'
                      /\ \/ ctx[Top(u).c].busy'
                         \/ \E v \in Threads : (Is(v, "set_busy") /\ Top(v).c = Top(u).c)'
    BY DEF BusyWake
  <2>1. Is(u, "wait_busy") /\ Top(u)'.c = Top(u).c /\ stack[u] # <<>>
    BY <1>2, OthersAre DEF Steps, Is
  <2>2. PICK c : c = Top(u).c
    OBVIOUS
  <2>3. c \in Ctxs /\ c # None
    BY <2>1, <2>2, NamesIs, ConstantsAssumption DEF Steps, Is
  <2>4. /\ ~NeedsSiLock(c) /\ ~Has(c, "CONCURRENT")
        /\ \/ ctx[c].busy
           \/ \E v \in Threads : Is(v, "set_busy") /\ Top(v).c = c
    BY <2>1, <2>2 DEF Steps, WakeOK, SelfOK, BusyWake
  <2>5. ctx'[c].uuid = ctx[c].uuid
    BY <2>1, <2>2, <2>3 DEF TasKept
  <2>6. ~NeedsSiLock(c)' /\ ~Has(c, "CONCURRENT")'
    BY <2>4, <2>5, HasKept
  <2>7. CASE ctx[c].busy \/ (Is(t, "set_busy") /\ Top(t).c = c)
    <3>1. ctx'[c].busy \/ \E v \in W \ {t} : Is(v, "wait_busy") /\ Top(v).c = c
      BY <1>2, <2>1, <2>2, <2>4, <2>7 DEF BusyKept
    <3>2. ASSUME NEW v \in W \ {t}, Is(v, "wait_busy"), Top(v).c = c
          PROVE  (Is(v, "set_busy") /\ Top(v).c = c)' /\ v \in Threads
      BY <3>2, OthersAre, ResumeIs DEF Steps, Is
    <3>3. ctx[c].busy' \/ \E v \in Threads : Is(v, "set_busy")' /\ Top(v)'.c = c
      BY <3>1, <3>2
    <3> QED
      BY <2>1, <2>2, <2>6, <3>3
  <2>8. CASE \E v \in Threads \ {t} : Is(v, "set_busy") /\ Top(v).c = c
    <3>1. PICK v \in Threads \ {t} : Is(v, "set_busy") /\ Top(v).c = c
      BY <2>8
    <3>2. v \notin W
      BY <3>1, ResumeIs DEF Steps, Asleep, Is
    <3>3. Is(v, "set_busy")' /\ Top(v)'.c = c
      BY <3>1, <3>2, OthersAre DEF Steps, Is
    <3> QED
      BY <2>1, <2>2, <2>6, <3>3
  <2> QED
    BY <2>4, <2>7, <2>8
<1> QED
  BY <1>1, <1>2

\* The waiters of tee_ta_cv.
LEMMA SiWakeStep ==
    ASSUME NEW t, NEW W, Steps(t, W), TasKept(t), SiKept(t, W), NEW u \in Threads \ {t}
    PROVE  SiWake(u)'
<1>1. CASE u \in W
  BY <1>1, OthersAre, ResumeIs DEF Steps, SiWake
<1>2. CASE u \notin W
  <2> SUFFICES ASSUME Is(u, "wait_si")'
               PROVE  /\ TakesSi(Top(u).c)'
                      /\ \/ siThread' # None
                         \/ \E v \in Threads : (Is(v, "set_busy") /\ TakesSi(Top(v).c))'
    BY DEF SiWake
  <2>1. Is(u, "wait_si") /\ Top(u)'.c = Top(u).c /\ stack[u] # <<>>
    BY <1>2, OthersAre DEF Steps, Is
  <2>2. ASSUME NEW v \in Threads \ {t}, Is(v, "wait_si") \/ Is(v, "set_busy"), TakesSi(Top(v).c)
        PROVE  TakesSi(Top(v).c)' /\ Top(v)'.c = Top(v).c
    <3>1. PICK c : c = Top(v).c
      OBVIOUS
    <3>2. c # None /\ stack[v] # <<>>
      BY <2>2, <3>1, NamesIs, ConstantsAssumption DEF Steps, Is
    <3>3. ctx'[c].uuid = ctx[c].uuid
      BY <3>1, <3>2 DEF TasKept
    <3>4. TakesSi(c)'
      BY <2>2, <3>1, <3>3, HasKept
    <3>5. Top(v)'.c = c
      BY <3>1, <3>2, OthersAre DEF Steps
    <3> QED
      BY <3>1, <3>4, <3>5 DEF TakesSi, NeedsSiLock, Has
  <2>3. /\ TakesSi(Top(u).c)
        /\ siThread # None \/ \E v \in Threads : Is(v, "set_busy") /\ TakesSi(Top(v).c)
    BY <2>1 DEF Steps, WakeOK, SelfOK, SiWake
  <2>4. TakesSi(Top(u).c)'
    BY <2>1, <2>2, <2>3
  <2>5. CASE siThread # None \/ (Is(t, "set_busy") /\ TakesSi(Top(t).c))
    <3>1. siThread' # None \/ \E v \in W \ {t} : Is(v, "wait_si")
      BY <1>2, <2>1, <2>5 DEF SiKept
    <3>2. ASSUME NEW v \in W \ {t}, Is(v, "wait_si")
          PROVE  (Is(v, "set_busy") /\ TakesSi(Top(v).c))' /\ v \in Threads
      <4>1. v \in Threads /\ Is(v, "set_busy")'
        BY <3>2, OthersAre, ResumeIs DEF Steps
      <4>2. TakesSi(Top(v).c)
        BY <3>2, <4>1 DEF Steps, WakeOK, SelfOK, SiWake
      <4> QED
        BY <2>2, <3>2, <4>1, <4>2
    <3> QED
      BY <2>4, <3>1, <3>2
  <2>6. CASE \E v \in Threads \ {t} : Is(v, "set_busy") /\ TakesSi(Top(v).c)
    <3>1. PICK v \in Threads \ {t} : Is(v, "set_busy") /\ TakesSi(Top(v).c)
      BY <2>6
    <3>2. v \notin W
      BY <3>1, ResumeIs DEF Steps, Asleep, Is
    <3>3. Is(v, "set_busy")'
      BY <3>1, <3>2, OthersAre DEF Steps
    <3> QED
      BY <2>2, <2>4, <3>1, <3>3
  <2> QED
    BY <2>3, <2>5, <2>6
<1> QED
  BY <1>1, <1>2

\* The waiters of lock_cv.
LEMMA LockWakeStep ==
    ASSUME NEW t, NEW W, Steps(t, W), LockKept(t, W), NEW u \in Threads \ {t}
    PROVE  LockWake(u)'
<1>1. CASE u \in W
  BY <1>1, OthersAre, ResumeIs DEF Steps, LockWake
<1>2. CASE u \notin W
  <2> SUFFICES ASSUME Is(u, "wait_lock")'
               PROVE  /\ ~sess[Top(u).s].unlink'
                      /\ \/ sess[Top(u).s].lock' # None
                         \/ \E v \in Threads : (Is(v, "relock") /\ Top(v).s = Top(u).s)'
    BY DEF LockWake
  <2>1. Is(u, "wait_lock") /\ Top(u)'.s = Top(u).s /\ stack[u] # <<>>
    BY <1>2, OthersAre DEF Steps, Is
  <2>2. PICK s : s = Top(u).s
    OBVIOUS
  <2>3. /\ ~sess[s].unlink
        /\ \/ sess[s].lock # None
           \/ \E v \in Threads : Is(v, "relock") /\ Top(v).s = s
    BY <2>1, <2>2 DEF Steps, WakeOK, SelfOK, LockWake
  <2>4. ~sess'[s].unlink
    BY <1>2, <2>1, <2>2, <2>3 DEF LockKept
  <2>5. CASE sess[s].lock # None \/ (Is(t, "relock") /\ Top(t).s = s)
    <3>1. sess'[s].lock # None \/ \E v \in W \ {t} : Is(v, "wait_lock") /\ Top(v).s = s
      BY <1>2, <2>1, <2>2, <2>3, <2>5 DEF LockKept
    <3>2. ASSUME NEW v \in W \ {t}, Is(v, "wait_lock"), Top(v).s = s
          PROVE  (Is(v, "relock") /\ Top(v).s = s)' /\ v \in Threads
      BY <3>2, OthersAre, ResumeIs DEF Steps, Is
    <3>3. sess'[s].lock # None \/ \E v \in Threads : Is(v, "relock")' /\ Top(v)'.s = s
      BY <3>1, <3>2
    <3> QED
      BY <2>1, <2>2, <2>4, <3>3
  <2>6. CASE \E v \in Threads \ {t} : Is(v, "relock") /\ Top(v).s = s
    <3>1. PICK v \in Threads \ {t} : Is(v, "relock") /\ Top(v).s = s
      BY <2>6
    <3>2. v \notin W
      BY <3>1, ResumeIs DEF Steps, Asleep, Is
    <3>3. Is(v, "relock")' /\ Top(v)'.s = s
      BY <3>1, <3>2, OthersAre DEF Steps, Is
    <3> QED
      BY <2>1, <2>2, <2>4, <3>3
  <2> QED
    BY <2>3, <2>5, <2>6
<1> QED
  BY <1>1, <1>2

\* The waiters of refc_cv and of tee_ta_init_cv.
LEMMA RefcInitStep ==
    ASSUME NEW t, NEW W, Steps(t, W), RefcKept(t, W), InitKept(t, W), NEW u \in Threads \ {t}
    PROVE  RefcWake(u)' /\ InitWake(u)'
<1>1. CASE u \in W
  BY <1>1, OthersAre, ResumeIs DEF Steps, RefcWake, InitWake
<1>2. CASE u \notin W
  <2>1. (\A pc : Is(u, pc)' <=> Is(u, pc)) /\ (stack[u] # <<>> => Top(u)'.s = Top(u).s /\ Top(u)'.uuid = Top(u).uuid)
    BY <1>2, OthersAre DEF Steps
  <2>2. RefcWake(u) /\ InitWake(u)
    BY DEF Steps, WakeOK, SelfOK
  <2>3. RefcWake(u)'
    BY <1>2, <2>1, <2>2 DEF RefcWake, RefcKept, Is
  <2>4. ASSUME Is(u, "wait_init")'
        PROVE  \E c \in Ctxs : Loading(c)' /\ ctx'[c].uuid = Top(u)'.uuid
    <3>1. Is(u, "wait_init") /\ Top(u)'.uuid = Top(u).uuid
      BY <2>1, <2>4 DEF Is
    <3>2. PICK c \in Ctxs : Loading(c) /\ ctx[c].uuid = Top(u).uuid
      BY <2>2, <3>1 DEF InitWake
    <3>3. Loading(c)' /\ ctx'[c].uuid = ctx[c].uuid
      BY <1>2, <3>1, <3>2 DEF InitKept
    <3> QED
      BY <3>1, <3>2, <3>3
  <2> QED
    BY <2>3, <2>4 DEF InitWake
<1> QED
  BY <1>1, <1>2

\* The threads that load.
LEMMA LoadWakeStep ==
    ASSUME NEW t, NEW W, Steps(t, W), LoadKept(t), NEW c \in Ctxs
    PROVE  LoadWake(c)'
<1> SUFFICES ASSUME Loading(c)' PROVE \E v \in Threads : Is(v, "ldelf")' /\ Top(v)'.c = c
  BY DEF LoadWake
<1>1. CASE (Is(t, "ldelf") /\ Top(t).c = c)'
  BY <1>1 DEF Steps
<1>2. CASE Loading(c) /\ ~(Is(t, "ldelf") /\ Top(t).c = c)
  <2>1. PICK v \in Threads : Is(v, "ldelf") /\ Top(v).c = c
    BY <1>2 DEF Steps, WakeOK, LoadWake
  <2>2. v # t /\ v \notin W
    BY <1>2, <2>1, ResumeIs DEF Steps, Asleep, Is
  <2>3. Is(v, "ldelf")' /\ Top(v)'.c = c
    BY <2>1, <2>2, OthersAre DEF Steps, Is
  <2> QED
    BY <2>3
<1> QED
  BY <1>1, <1>2 DEF LoadKept

\* A step that keeps all of these, and whose thread sleeps with reason, keeps
\* the invariant.
LEMMA WakeStep ==
    ASSUME NEW t, NEW W, Steps(t, W), TasKept(t), BusyKept(t, W), SiKept(t, W), LockKept(t, W),
           RefcKept(t, W), InitKept(t, W), LoadKept(t), SelfOK(t)'
    PROVE  WakeOK'
<1>1. ASSUME NEW u \in Threads, u # t PROVE SelfOK(u)'
  BY <1>1, BusyWakeStep, SiWakeStep, LockWakeStep, RefcInitStep DEF SelfOK
<1>2. \A c \in Ctxs : LoadWake(c)'
  BY LoadWakeStep
<1> QED
  BY <1>1, <1>2 DEF WakeOK

-----------------------------------------------------------------------------
(* Steps that disturb no condition *)

\* A thread that runs waits for nothing.
LEMMA SelfAwake ==
    ASSUME NEW t, stack'[t] # <<>> => Top(t)'.pc \notin DOMAIN Resume
    PROVE  SelfOK(t)'
BY ResumeIs DEF SelfOK, BusyWake, SiWake, LockWake, RefcWake, InitWake, Is

\* The step changes nothing in the contexts and locks that a thread may wait for.
CtxPlain ==
    /\ siThread' = siThread
    /\ \A c \in Ctxs : /\ ctx'[c].uuid = ctx[c].uuid
                       /\ ctx'[c].busy <=> ctx[c].busy
                       /\ Loading(c)' <=> Loading(c)
SessPlain ==
    \A s \in Sessions : /\ sess'[s].unlink <=> sess[s].unlink
                        /\ sess'[s].lock = sess[s].lock
                        /\ sess'[s].ref = sess[s].ref

\* It keeps the conditions that are about contexts, unless it was a step that
\* others wait for,
LEMMA PlainCtx ==
    ASSUME Inv, NEW t \in Threads, CtxPlain, ~Is(t, "set_busy"), ~Is(t, "ldelf"), NEW W
    PROVE  TasKept(t) /\ BusyKept(t, W) /\ SiKept(t, W) /\ InitKept(t, W) /\ LoadKept(t)
<1>1. TasKept(t)
  BY NamesIs DEF TasKept, CtxPlain
<1>2. BusyKept(t, W)
  <2>1. \A u \in Threads : Is(u, "wait_busy") => Top(u).c \in Ctxs
    BY NamesIs DEF Is
  <2> QED
    BY <2>1 DEF BusyKept, CtxPlain
<1>3. SiKept(t, W)
  BY DEF SiKept, CtxPlain
<1>4. InitKept(t, W) /\ LoadKept(t)
  BY DEF InitKept, LoadKept, CtxPlain
<1> QED
  BY <1>1, <1>2, <1>3, <1>4

\* and those about sessions.
LEMMA PlainSess ==
    ASSUME Inv, NEW t \in Threads, SessPlain, ~Is(t, "relock"), NEW W
    PROVE  LockKept(t, W) /\ RefcKept(t, W)
<1>1. \A u \in Threads : Is(u, "wait_lock") \/ Is(u, "wait_refc") => Top(u).s \in Sessions
  BY NamesIs DEF Is
<1> QED
  BY <1>1 DEF LockKept, RefcKept, SessPlain

\* The call of the step at one of these places.
LEMMA StartsAt ==
    ASSUME Inv, NEW t \in Threads, NEW pc, At(t, pc)
    PROVE  /\ stack[t] # <<>> /\ Top(t).pc = pc /\ Top(t) \in CallType
           /\ \A l : Is(t, l) <=> l = pc
BY NamesIs DEF At, Runs, Is

\* A plain step of thread t, which runs after it.
LEMMA PlainStep ==
    ASSUME Inv, WakeOK, NEW t \in Threads, NEW st, Move(t, st, {}), CtxPlain, SessPlain,
           stack[t] # <<>> => Top(t).pc \notin {"set_busy", "ldelf", "relock"},
           stack'[t] # <<>> => Top(t)'.pc \notin DOMAIN Resume
    PROVE  WakeOK'
<1>1. PICK W : W = {}
  OBVIOUS
<1>2. Move(t, st, W) /\ \A u \in W : Asleep(u) /\ u \in Threads
  BY <1>1
<1>3. Others(t, W)
  BY <1>2, OthersMove
<1>4. Steps(t, W)
  BY <1>2, <1>3 DEF Steps
<1>5. ~Is(t, "set_busy") /\ ~Is(t, "ldelf") /\ ~Is(t, "relock")
  BY DEF Is
<1>6. SelfOK(t)'
  BY SelfAwake
<1> QED
  BY <1>4, <1>5, <1>6, PlainCtx, PlainSess, WakeStep

\* A plain step to another place of the call.
LEMMA PlainGoto ==
    ASSUME Inv, WakeOK, NEW t \in Threads, NEW pc \in Labels, Move(t, Goto(t, pc), {}), CtxPlain, SessPlain,
           stack[t] # <<>>, Top(t).pc \notin {"set_busy", "ldelf", "relock"}, pc \notin DOMAIN Resume
    PROVE  WakeOK'
<1>1. stack'[t] # <<>> /\ Top(t)'.pc = pc
  BY SelfGoto
<1> QED
  BY <1>1, PlainStep

\* A plain step that changes the call.
LEMMA PlainWith ==
    ASSUME Inv, WakeOK, NEW t \in Threads, NEW f \in CallType, Move(t, With(t, f), {}), CtxPlain, SessPlain,
           stack[t] # <<>>, Top(t).pc \notin {"set_busy", "ldelf", "relock"}, f.pc \notin DOMAIN Resume
    PROVE  WakeOK'
<1>1. stack'[t] # <<>> /\ Top(t)' = f
  BY SelfWith
<1> QED
  BY <1>1, PlainStep

\* A plain step that ends the call.
LEMMA PlainReturn ==
    ASSUME Inv, WakeOK, NEW t \in Threads, Move(t, Return(t), {}), CtxPlain, SessPlain,
           stack[t] # <<>>, Top(t).pc \notin {"set_busy", "ldelf", "relock"}
    PROVE  WakeOK'
<1>1. stack'[t] # <<>> => Top(t)'.pc \in {"body", "release", "destroy"}
  BY SelfReturn
<1> QED
  BY <1>1, PlainStep, ResumeIs

\* What nothing changes is plain.
LEMMA PlainSame ==
    /\ UNCHANGED <<ctx, siThread>> => CtxPlain
    /\ UNCHANGED sess => SessPlain
BY DEF CtxPlain, SessPlain, Loading

\* Field by field, a context with other flags.
LEMMA PlainFlag ==
    ASSUME Inv, NEW c \in Ctxs, NEW k, ctx' = [ctx EXCEPT ![c] = k], siThread' = siThread,
           k.uuid = ctx[c].uuid, k.busy <=> ctx[c].busy, k.live <=> ctx[c].live,
           k.initializing <=> ctx[c].initializing
    PROVE  CtxPlain
<1>1. ctx \in [Ctxs -> CtxType]
  BY DEF Inv, TypeOK
<1>2. ctx'[c] = k /\ \A d \in Ctxs \ {c} : ctx'[d] = ctx[d]
  BY <1>1
<1> QED
  BY <1>2 DEF CtxPlain, Loading

\* The places without a wait.
LEMMA RunLabels ==
    \A pc \in {"open", "find", "load", "ldelf", "undo", "set_busy", "enter", "body", "leave",
               "release", "clear", "put", "get", "relock", "got", "unlink", "unlinked", "drop", "destroy"} :
        pc \in Labels /\ pc \notin DOMAIN Resume
BY ResumeIs DEF Labels

\* calloc() of the session or of the context fails.
LEMMA NoMemoryWake ==
    ASSUME Inv, WakeOK, NEW t \in Threads, OpenNoMemory(t) \/ LoadNoMemory(t)
    PROVE  WakeOK'
<1>1. CASE OpenNoMemory(t)
  <2>1. stack[t] # <<>> /\ Top(t).pc = "open"
    BY <1>1, StartsAt DEF OpenNoMemory
  <2>2. Move(t, Return(t), {}) /\ CtxPlain /\ SessPlain
    BY <1>1, PlainSame DEF OpenNoMemory
  <2> QED
    BY <2>1, <2>2, PlainReturn
<1>2. CASE LoadNoMemory(t)
  <2>1. stack[t] # <<>> /\ Top(t).pc = "load"
    BY <1>2, StartsAt DEF LoadNoMemory
  <2>2. Move(t, Goto(t, "undo"), {}) /\ CtxPlain /\ SessPlain
    BY <1>2, PlainSame DEF LoadNoMemory
  <2> QED
    BY <2>1, <2>2, PlainGoto, RunLabels
<1> QED
  BY <1>1, <1>2

\* A call enters its TA, or is refused there.
LEMMA EnterTaWake ==
    ASSUME Inv, WakeOK, NEW t \in Threads, EnterTa(t)
    PROVE  WakeOK'
<1>1. stack[t] # <<>> /\ Top(t).pc = "enter" /\ Top(t) \in CallType
  BY StartsAt DEF EnterTa
<1>2. CtxPlain /\ SessPlain
  BY PlainSame DEF EnterTa
<1>3. CASE CanEnter(t)
  <2>1. Move(t, Goto(t, "body"), {})
    BY <1>3 DEF EnterTa
  <2> QED
    BY <1>1, <1>2, <2>1, PlainGoto, RunLabels
<1>4. CASE ~CanEnter(t)
  <2>1. PICK f : f = [Top(t) EXCEPT !.pc = AfterBody(t), !.ok = @ /\ Top(t).op # "open"]
    OBVIOUS
  <2>2. AfterBody(t) \in {"unlink", "leave"}
    BY DEF AfterBody
  <2>3. f \in CallType /\ f.pc = AfterBody(t)
    <3>1. (Top(t).ok /\ Top(t).op # "open") \in BOOLEAN
      OBVIOUS
    <3> QED
      BY <1>1, <2>1, <2>2, <3>1, RunLabels DEF CallType
  <2>4. Move(t, With(t, f), {})
    BY <1>4, <2>1 DEF EnterTa
  <2> QED
    BY <1>1, <1>2, <2>2, <2>3, <2>4, PlainWith, RunLabels
<1> QED
  BY <1>3, <1>4

\* The TA returns or panics.
LEMMA TaEndsWake ==
    ASSUME Inv, WakeOK, NEW t \in Threads, TaReturns(t) \/ TaPanics(t)
    PROVE  WakeOK'
<1>1. AfterBody(t) \in {"unlink", "leave"}
  BY DEF AfterBody
<1>2. stack[t] # <<>> /\ Top(t).pc = "body" /\ Top(t) \in CallType
  BY StartsAt DEF TaReturns, TaPanics
<1>3. CASE TaReturns(t)
  <2>1. CtxPlain /\ SessPlain
    BY <1>3, PlainSame DEF TaReturns
  <2>2. PICK ok \in IF Top(t).op = "open" THEN BOOLEAN ELSE {Top(t).ok} :
           Move(t, With(t, [Top(t) EXCEPT !.pc = AfterBody(t), !.ok = ok]), {})
    BY <1>3 DEF TaReturns
  <2>3. ok \in BOOLEAN
    BY <1>2, <2>2 DEF CallType
  <2>4. PICK f : f = [Top(t) EXCEPT !.pc = AfterBody(t), !.ok = ok]
    OBVIOUS
  <2>5. f \in CallType /\ f.pc = AfterBody(t)
    BY <1>1, <1>2, <2>3, <2>4, RunLabels DEF CallType
  <2> QED
    BY <1>1, <1>2, <2>1, <2>2, <2>4, <2>5, PlainWith, RunLabels
<1>4. CASE TaPanics(t)
  <2>1. PICK c : c = Top(t).c
    OBVIOUS
  <2>2. c \in Ctxs
    BY <1>2, <2>1, HereIs, ResumeIs, <1>4 DEF TaPanics, Here, CallOK, CallType
  <2>3. PICK k : k = [ctx[c] EXCEPT !.panicked = TRUE]
    OBVIOUS
  <2>4. /\ k.uuid = ctx[c].uuid /\ (k.busy <=> ctx[c].busy) /\ (k.live <=> ctx[c].live)
        /\ k.initializing <=> ctx[c].initializing
    BY <2>2, <2>3 DEF Inv, TypeOK, CtxType
  <2>5. ctx' = [ctx EXCEPT ![c] = k] /\ siThread' = siThread /\ UNCHANGED sess
    BY <1>4, <2>1, <2>3 DEF TaPanics
  <2>6. CtxPlain /\ SessPlain
    BY <2>2, <2>4, <2>5, PlainFlag, PlainSame
  <2>7. Move(t, Goto(t, AfterBody(t)), {})
    BY <1>4 DEF TaPanics
  <2> QED
    BY <1>1, <1>2, <2>6, <2>7, PlainGoto, RunLabels
<1> QED
  BY <1>3, <1>4

\* The context of a call in the TA or after it.
LEMMA ContextOf ==
    ASSUME Inv, NEW t \in Threads, NEW pc, At(t, pc),
           pc \in {"set_busy", "ldelf", "leave", "release", "clear", "drop", "destroy", "body", "enter"}
    PROVE  Top(t).c \in Ctxs /\ ctx[Top(t).c].live /\ ctx[Top(t).c] \in CtxType
<1>1. Here(t) /\ Top(t).pc = pc
  BY HereIs, ResumeIs
<1>2. Top(t).c # None /\ Top(t).c \in Ctxs
  BY <1>1 DEF Here, CallOK, CallType
<1>3. ctx[Top(t).c].live
  BY <1>1, <1>2, NamesIs DEF Here
<1> QED
  BY <1>2, <1>3 DEF Inv, TypeOK

\* release_ta_ctx() and release_utc_state() once the TA has panicked.
LEMMA LeaveTaWake ==
    ASSUME Inv, WakeOK, NEW t \in Threads, LeaveTa(t) \/ ReleaseState(t)
    PROVE  WakeOK'
<1>1. PICK c : c = Top(t).c
  OBVIOUS
<1>2. /\ stack[t] # <<>> /\ Top(t).pc \in {"leave", "release"} /\ Top(t) \in CallType
      /\ c \in Ctxs /\ ctx[c] \in CtxType
  BY <1>1, StartsAt, ContextOf DEF LeaveTa, ReleaseState
<1>3. SessPlain
  BY PlainSame DEF LeaveTa, ReleaseState
<1>4. CASE LeaveTa(t) /\ ctx[c].panicked
  <2>1. PICK k : k = [ctx[c] EXCEPT !.releasing = TRUE]
    OBVIOUS
  <2>2. /\ k.uuid = ctx[c].uuid /\ (k.busy <=> ctx[c].busy) /\ (k.live <=> ctx[c].live)
        /\ k.initializing <=> ctx[c].initializing
    BY <1>2, <2>1 DEF CtxType
  <2>3. PICK pc : pc = IF ctx[c].releasing THEN "clear" ELSE "release"
    OBVIOUS
  <2>4. PICK f : f = [Top(t) EXCEPT !.ok = FALSE, !.pc = pc]
    OBVIOUS
  <2>5. pc \in Labels /\ pc \notin DOMAIN Resume
    BY <2>3, RunLabels
  <2>6. f \in CallType /\ f.pc = pc
    BY <1>2, <2>4, <2>5 DEF CallType
  <2>7. ctx' = [ctx EXCEPT ![c] = k] /\ siThread' = siThread /\ Move(t, With(t, f), {})
    BY <1>1, <1>4, <2>1, <2>3, <2>4 DEF LeaveTa
  <2>8. CtxPlain
    BY <1>2, <2>2, <2>7, PlainFlag
  <2> QED
    BY <1>2, <1>3, <2>5, <2>6, <2>7, <2>8, PlainWith
<1>5. CASE LeaveTa(t) /\ ~ctx[c].panicked
  <2>1. CtxPlain /\ Move(t, Goto(t, "clear"), {})
    BY <1>1, <1>5, PlainSame DEF LeaveTa
  <2> QED
    BY <1>2, <1>3, <2>1, PlainGoto, RunLabels
<1>6. CASE ReleaseState(t)
  <2>1. PICK k : k = [ctx[c] EXCEPT !.vm = FALSE]
    OBVIOUS
  <2>2. /\ k.uuid = ctx[c].uuid /\ (k.busy <=> ctx[c].busy) /\ (k.live <=> ctx[c].live)
        /\ k.initializing <=> ctx[c].initializing
    BY <1>2, <2>1 DEF CtxType
  <2>3. ctx' = [ctx EXCEPT ![c] = k] /\ siThread' = siThread /\ Move(t, Goto(t, "clear"), {})
    BY <1>1, <1>6, <2>1 DEF ReleaseState
  <2>4. CtxPlain
    BY <1>2, <2>2, <2>3, PlainFlag
  <2> QED
    BY <1>2, <1>3, <2>3, <2>4, PlainGoto, RunLabels
<1> QED
  BY <1>4, <1>5, <1>6

\* A session that only its client sees differently.
LEMMA PlainOpen ==
    ASSUME Inv, NEW s \in Sessions, NEW o \in BOOLEAN, sess' = [sess EXCEPT ![s].open = o]
    PROVE  SessPlain
<1>1. sess \in [Sessions -> SessType]
  BY DEF Inv, TypeOK
<1>2. PICK r : r = [sess[s] EXCEPT !.open = o]
  OBVIOUS
<1>3. (r.unlink <=> sess[s].unlink) /\ r.lock = sess[s].lock /\ r.ref = sess[s].ref
  BY <1>1, <1>2 DEF SessType
<1>4. sess'[s] = r /\ \A q \in Sessions \ {s} : sess'[q] = sess[q]
  BY <1>1, <1>2
<1> QED
  BY <1>3, <1>4 DEF SessPlain

\* The places of a new call.
LEMMA PlainCall ==
    ASSUME Inv, WakeOK, NEW t \in Threads, NEW op \in {"open", "invoke", "close", "cancel"},
           NEW pc \in {"open", "get"}, NEW s \in Sessions \cup {None}, NEW o \in Ctxs \cup {None},
           NEW u \in Uuids \cup {None},
           Move(t, Append(stack[t], Frame(op, pc, s, o, u)), {}), CtxPlain, SessPlain,
           stack[t] # <<>> => Top(t).pc \in {"body", "release", "destroy"}
    PROVE  WakeOK'
<1>1. PICK f : f = Frame(op, pc, s, o, u)
  OBVIOUS
<1>2. pc \in Labels /\ pc \notin DOMAIN Resume
  BY RunLabels
<1>3. f \in CallType /\ f.pc = pc
  BY <1>1, <1>2 DEF Frame, CallType
<1>4. stack'[t] # <<>> /\ Top(t)' = f
  BY <1>1, <1>3, SelfCall
<1>5. Top(t)'.pc \notin DOMAIN Resume
  BY <1>2, <1>3, <1>4
<1> QED
  BY <1>5, PlainStep

\* release_utc_state() closes a session of the TA.
LEMMA ReleaseSessionWake ==
    ASSUME Inv, WakeOK, NEW t \in Threads, ReleaseSession(t)
    PROVE  WakeOK'
<1>1. stack[t] # <<>> /\ Top(t).pc \in {"release", "destroy"} /\ Top(t) \in CallType
  BY StartsAt DEF ReleaseSession
<1>2. PICK s \in Owned(Top(t).c) :
         /\ Move(t, Append(stack[t], Frame("close", "get", s, Top(t).c, None)), {})
         /\ sess' = [sess EXCEPT ![s].open = FALSE]
  BY DEF ReleaseSession
<1>3. s \in Sessions /\ Top(t).c \in Ctxs \cup {None}
  BY <1>1 DEF Owned, CallType
<1>4. CtxPlain /\ SessPlain
  BY <1>2, <1>3, PlainSame, PlainOpen DEF ReleaseSession
<1> QED
  BY <1>1, <1>2, <1>3, <1>4, PlainCall

\* A client makes a call.
LEMMA ClientWake ==
    ASSUME Inv, WakeOK, NEW t \in Threads, NEW owner \in Ctxs \cup {None}, Client(t, owner),
           UNCHANGED <<ctx, siThread>>, stack[t] # <<>> => Top(t).pc = "body"
    PROVE  WakeOK'
<1>1. CtxPlain
  BY PlainSame
<1>2. CASE /\ \E u \in Uuids : Move(t, Append(stack[t], Frame("open", "open", None, owner, u)), {})
           /\ UNCHANGED sess
  BY <1>1, <1>2, PlainSame, PlainCall
<1>3. ASSUME NEW s \in Sessions, NEW op \in {"invoke", "close", "cancel"},
             Move(t, Append(stack[t], Frame(op, "get", s, owner, None)), {}),
             sess' = [sess EXCEPT ![s].open = (op # "close")]
      PROVE  WakeOK'
  <2>1. (op # "close") \in BOOLEAN
    OBVIOUS
  <2>2. SessPlain
    BY <1>3, <2>1, PlainOpen
  <2> QED
    BY <1>1, <1>3, <2>2, PlainCall
<1> QED
  BY <1>2, <1>3 DEF Client

\* Normal world and the TAs call.
LEMMA CallsWake ==
    ASSUME Inv, WakeOK, NEW t \in Threads, NormalWorldCalls(t) \/ TaCalls(t)
    PROVE  WakeOK'
<1>1. CASE NormalWorldCalls(t)
  BY <1>1, ClientWake DEF NormalWorldCalls
<1>2. CASE TaCalls(t)
  <2>1. stack[t] # <<>> /\ Top(t).pc = "body" /\ Top(t).c \in Ctxs
    BY <1>2, StartsAt, ContextOf DEF TaCalls
  <2> QED
    BY <1>2, <2>1, ClientWake DEF TaCalls
<1> QED
  BY <1>1, <1>2

\* The session is locked.
LEMMA GotSessionWake ==
    ASSUME Inv, WakeOK, NEW t \in Threads, GotSession(t)
    PROVE  WakeOK'
<1>1. Here(t) /\ Top(t).pc = "got" /\ stack[t] # <<>> /\ Top(t) \in CallType
  BY HereIs, ResumeIs DEF GotSession, Here
<1>2. CtxPlain /\ SessPlain
  BY PlainSame DEF GotSession
<1>3. PICK c : c = sess[Top(t).s].ctx
  OBVIOUS
<1>4. c \in Ctxs \cup {None}
  <2>1. Top(t).s \in Sessions
    BY <1>1 DEF Here, CallOK, CallType
  <2> QED
    BY <1>3, <2>1 DEF Inv, TypeOK, SessType
<1>5. PICK pc : pc = IF Top(t).op = "close" /\ ctx[c].panicked THEN "unlink" ELSE "set_busy"
  OBVIOUS
<1>6. pc \in Labels /\ pc \notin DOMAIN Resume
  BY <1>5, RunLabels
<1>7. PICK f : f = [Top(t) EXCEPT !.c = c, !.pc = pc]
  OBVIOUS
<1>8. f \in CallType /\ f.pc = pc
  BY <1>1, <1>4, <1>6, <1>7 DEF CallType
<1>9. Move(t, With(t, f), {})
  BY <1>3, <1>5, <1>7 DEF GotSession
<1> QED
  BY <1>1, <1>2, <1>6, <1>8, <1>9, PlainWith

\* The last section of tee_ta_close_session().
LEMMA DropContextWake ==
    ASSUME Inv, WakeOK, NEW t \in Threads, DropContext(t)
    PROVE  WakeOK'
<1>1. PICK c : c = Top(t).c
  OBVIOUS
<1>2. /\ stack[t] # <<>> /\ Top(t).pc = "drop" /\ Top(t) \in CallType
      /\ c \in Ctxs /\ ctx[c] \in CtxType
  BY <1>1, StartsAt, ContextOf DEF DropContext
<1>3. SessPlain /\ siThread' = siThread
  BY PlainSame DEF DropContext
<1>4. \/ /\ ctx' = [ctx EXCEPT ![c].ref = 0, ![c].releasing = TRUE] /\ Move(t, Goto(t, "destroy"), {})
      \/ /\ ctx' = [ctx EXCEPT ![c].ref = @ - 1] /\ Move(t, Return(t), {})
  BY <1>1 DEF DropContext
<1>5. CASE ctx' = [ctx EXCEPT ![c].ref = 0, ![c].releasing = TRUE] /\ Move(t, Goto(t, "destroy"), {})
  <2>1. PICK k : k = [ctx[c] EXCEPT !.ref = 0, !.releasing = TRUE]
    OBVIOUS
  <2>2. /\ k.uuid = ctx[c].uuid /\ (k.busy <=> ctx[c].busy) /\ (k.live <=> ctx[c].live)
        /\ k.initializing <=> ctx[c].initializing
    BY <1>2, <2>1 DEF CtxType
  <2>3. ctx' = [ctx EXCEPT ![c] = k]
    BY <1>2, <1>5, <2>1 DEF Inv, TypeOK
  <2>4. CtxPlain
    BY <1>2, <1>3, <2>2, <2>3, PlainFlag
  <2> QED
    BY <1>2, <1>3, <1>5, <2>4, PlainGoto, RunLabels
<1>6. CASE ctx' = [ctx EXCEPT ![c].ref = @ - 1] /\ Move(t, Return(t), {})
  <2>1. PICK k : k = [ctx[c] EXCEPT !.ref = @ - 1]
    OBVIOUS
  <2>2. /\ k.uuid = ctx[c].uuid /\ (k.busy <=> ctx[c].busy) /\ (k.live <=> ctx[c].live)
        /\ k.initializing <=> ctx[c].initializing
    BY <1>2, <2>1 DEF CtxType
  <2>3. ctx' = [ctx EXCEPT ![c] = k]
    BY <1>6, <2>1
  <2>4. CtxPlain
    BY <1>2, <1>3, <2>2, <2>3, PlainFlag
  <2> QED
    BY <1>2, <1>3, <1>6, <2>4, PlainReturn
<1> QED
  BY <1>4, <1>5, <1>6

-----------------------------------------------------------------------------
(* tee_ta_try_set_busy() and tee_ta_clear_busy() *)

\* The setting of a step that wakes W.
LEMMA StepsMove ==
    ASSUME Inv, WakeOK, NEW t \in Threads, NEW st, NEW W, \A u \in W : Asleep(u), Move(t, st, W)
    PROVE  Steps(t, W)
<1>1. Others(t, W)
  BY OthersMove
<1> QED
  BY <1>1 DEF Steps, Asleep

\* Nobody is woken.
LEMMA StepsQuiet ==
    ASSUME Inv, WakeOK, NEW t \in Threads, NEW st, Move(t, st, {})
    PROVE  Steps(t, {})
<1>1. PICK W : W = {}
  OBVIOUS
<1>2. Move(t, st, W) /\ \A u \in W : Asleep(u)
  BY <1>1
<1>3. Steps(t, W)
  BY <1>2, StepsMove
<1> QED
  BY <1>1, <1>3

\* Which TAs there are and which are loaded stays the same.
LEMMA PlainLoads ==
    ASSUME Inv, NEW t \in Threads, NEW W, ~Is(t, "ldelf"),
           \A c \in Ctxs : ctx'[c].uuid = ctx[c].uuid /\ (Loading(c)' <=> Loading(c))
    PROVE  TasKept(t) /\ InitKept(t, W) /\ LoadKept(t)
<1>1. TasKept(t)
  BY NamesIs DEF TasKept
<1> QED
  BY <1>1 DEF InitKept, LoadKept

\* The test in tee_ta_try_set_busy() keeps everything but what it tests.
LEMMA TestKept ==
    ASSUME Inv, NEW t \in Threads, At(t, "set_busy"), UNCHANGED <<sess, ctx>>, NEW W
    PROVE  TasKept(t) /\ InitKept(t, W) /\ LoadKept(t) /\ LockKept(t, W) /\ RefcKept(t, W)
<1>1. ~Is(t, "ldelf") /\ ~Is(t, "relock")
  BY StartsAt
<1>2. \A c \in Ctxs : ctx'[c].uuid = ctx[c].uuid /\ (Loading(c)' <=> Loading(c))
  BY DEF Loading
<1>3. SessPlain
  BY PlainSame
<1> QED
  BY <1>1, <1>2, <1>3, PlainLoads, PlainSess

\* A TA that takes the single-instance lock is busy only when it is held.
LEMMA BusyHeld ==
    ASSUME Inv, NEW c \in Ctxs, ctx[c].live, ctx[c].busy, TakesSi(c)
    PROVE  /\ siThread # None
           /\ \A x \in Frames : Call[x].busy /\ Call[x].c = c => x[1] = siThread
<1>1. Facts
  BY InvFacts
<1>2. PICK x \in Frames : Call[x].busy /\ Call[x].c = c
  BY <1>1 DEF Facts, BusyOK, TakesSi
<1>3. \A y \in Frames : Call[y].busy /\ Call[y].c = c => y \in SiCalls
  BY DEF SiCalls, SiCall, TakesSi
<1>4. x[1] = siThread /\ x[1] \in Threads
  BY <1>1, <1>2, <1>3 DEF Facts, SiOK
<1> QED
  BY <1>1, <1>3, <1>4 DEF Facts, SiOK

\* A concurrent TA is entered.
LEMMA SetBusyConcurrentWake ==
    ASSUME Inv, WakeOK, NEW t \in Threads, SetBusyConcurrent(t)
    PROVE  WakeOK'
<1>1. /\ At(t, "set_busy") /\ UNCHANGED <<sess, ctx, siThread>> /\ Has(Top(t).c, "CONCURRENT")
      /\ Move(t, Entered(t), {})
  BY DEF SetBusyConcurrent
<1>2. stack[t] # <<>> /\ Top(t) \in CallType /\ Is(t, "set_busy")
  BY <1>1, StartsAt
<1>3. PICK f : f = [Top(t) EXCEPT !.pc = "enter", !.busy = TRUE]
  OBVIOUS
<1>4. f \in CallType /\ f.pc = "enter"
  BY <1>2, <1>3, RunLabels DEF CallType
<1>5. Move(t, With(t, f), {})
  BY <1>1, <1>3 DEF Entered
<1>6. SelfOK(t)'
  BY <1>2, <1>4, <1>5, SelfWith, SelfAwake, RunLabels
<1>7. Steps(t, {})
  BY <1>1, StepsQuiet
<1>8. BusyKept(t, {}) /\ SiKept(t, {})
  BY <1>1 DEF BusyKept, SiKept, TakesSi
<1> QED
  BY <1>1, <1>6, <1>7, <1>8, TestKept, WakeStep

\* The thread waits for the single-instance lock.
LEMMA WaitSingleInstanceWake ==
    ASSUME Inv, WakeOK, NEW t \in Threads, WaitSingleInstance(t)
    PROVE  WakeOK'
<1>1. /\ At(t, "set_busy") /\ UNCHANGED <<sess, ctx, siThread>> /\ ~Has(Top(t).c, "CONCURRENT")
      /\ ~SiLockFree(t, Top(t).c) /\ Move(t, Goto(t, "wait_si"), {})
  BY DEF WaitSingleInstance
<1>2. stack[t] # <<>> /\ Top(t) \in CallType
  BY <1>1, StartsAt
<1>3. NeedsSiLock(Top(t).c) /\ siThread # None /\ TakesSi(Top(t).c)
  BY <1>1 DEF SiLockFree, TakesSi
<1>4. "wait_si" \in Labels
  BY ResumeIs DEF Labels
<1>5. stack'[t] # <<>> /\ Top(t)'.pc = "wait_si" /\ Top(t)'.c = Top(t).c
  BY <1>1, <1>2, <1>4, SelfGoto
<1>6. TakesSi(Top(t).c)'
  BY <1>1, <1>3, <1>5 DEF TakesSi, NeedsSiLock, Has
<1>7. SelfOK(t)'
  BY <1>1, <1>3, <1>5, <1>6 DEF SelfOK, BusyWake, SiWake, LockWake, RefcWake, InitWake, Is
<1>8. Steps(t, {})
  BY <1>1, StepsQuiet
<1>9. BusyKept(t, {})
  <2>1. ASSUME NEW u \in Threads, ~NeedsSiLock(Top(u).c), Top(t).c = Top(u).c PROVE FALSE
    BY <1>3, <2>1
  <2> QED
    BY <1>1, <2>1 DEF BusyKept
<1>10. SiKept(t, {})
  BY <1>1, <1>3 DEF SiKept
<1> QED
  BY <1>1, <1>7, <1>8, <1>9, <1>10, TestKept, WakeStep

\* The TA is busy: the thread is refused or waits.
LEMMA BusyTestKept ==
    ASSUME Inv, NEW t \in Threads, At(t, "set_busy"), ~Has(Top(t).c, "CONCURRENT"), ctx[Top(t).c].busy,
           UNCHANGED <<ctx, siThread>>, NEW W
    PROVE  BusyKept(t, W) /\ SiKept(t, W)
<1>1. Top(t).c \in Ctxs /\ ctx[Top(t).c].live
  BY ContextOf
<1>2. TakesSi(Top(t).c) => siThread # None
  BY <1>1, BusyHeld
<1>3. BusyKept(t, W)
  <2>1. ASSUME NEW u \in Threads, Top(t).c = Top(u).c PROVE ctx[Top(u).c].busy
    BY <2>1
  <2> QED
    BY <2>1 DEF BusyKept
<1> QED
  BY <1>2, <1>3 DEF SiKept

\* What no step changes.
LEMMA SameWake ==
    ASSUME WakeOK, UNCHANGED <<sess, ctx, siThread, stack>>
    PROVE  WakeOK'
BY DEF WakeOK, SelfOK, BusyWake, SiWake, LockWake, RefcWake, InitWake, LoadWake, Loading, Is, Top,
       NeedsSiLock, TakesSi, Has

\* The busy TA is refused.
LEMMA RefuseBusyWake ==
    ASSUME Inv, WakeOK, NEW t \in Threads, RefuseBusy(t)
    PROVE  WakeOK'
<1>1. /\ At(t, "set_busy") /\ UNCHANGED <<sess, ctx, siThread>> /\ ~Has(Top(t).c, "CONCURRENT")
      /\ ctx[Top(t).c].busy /\ Refused(t)
  BY DEF RefuseBusy
<1>2. CASE Top(t).op = "open"
  <2>1. stack[t] # <<>> /\ Top(t) \in CallType
    BY <1>1, StartsAt
  <2>2. PICK f : f = [Top(t) EXCEPT !.pc = "put", !.ok = FALSE]
    OBVIOUS
  <2>3. f \in CallType /\ f.pc = "put"
    BY <2>1, <2>2, RunLabels DEF CallType
  <2>4. Move(t, With(t, f), {})
    BY <1>1, <1>2, <2>2 DEF Refused
  <2>5. SelfOK(t)'
    BY <2>1, <2>3, <2>4, SelfWith, SelfAwake, RunLabels
  <2>6. Steps(t, {})
    BY <2>4, StepsQuiet
  <2> QED
    BY <1>1, <2>5, <2>6, BusyTestKept, TestKept, WakeStep
<1>3. CASE Top(t).op # "open"
  BY <1>1, <1>3, SameWake DEF Refused
<1> QED
  BY <1>2, <1>3

\* The thread waits for the busy TA.
LEMMA WaitBusyWake ==
    ASSUME Inv, WakeOK, NEW t \in Threads, WaitBusy(t)
    PROVE  WakeOK'
<1>1. /\ At(t, "set_busy") /\ UNCHANGED <<sess, ctx, siThread>> /\ ~Has(Top(t).c, "CONCURRENT")
      /\ ctx[Top(t).c].busy /\ ~NeedsSiLock(Top(t).c) /\ Move(t, Goto(t, "wait_busy"), {})
  BY DEF WaitBusy, HasSiLock
<1>2. stack[t] # <<>> /\ Top(t) \in CallType
  BY <1>1, StartsAt
<1>3. "wait_busy" \in Labels
  BY ResumeIs DEF Labels
<1>4. stack'[t] # <<>> /\ Top(t)'.pc = "wait_busy" /\ Top(t)'.c = Top(t).c
  BY <1>1, <1>2, <1>3, SelfGoto
<1>5. ~NeedsSiLock(Top(t).c)' /\ ~Has(Top(t).c, "CONCURRENT")' /\ ctx[Top(t).c].busy'
  BY <1>1, <1>4 DEF NeedsSiLock, Has
<1>6. SelfOK(t)'
  BY <1>4, <1>5 DEF SelfOK, BusyWake, SiWake, LockWake, RefcWake, InitWake, Is
<1>7. Steps(t, {})
  BY <1>1, StepsQuiet
<1> QED
  BY <1>1, <1>6, <1>7, BusyTestKept, TestKept, WakeStep

\* Another value of ctx->busy.
LEMMA BusySet ==
    ASSUME Inv, NEW c \in Ctxs, NEW b \in BOOLEAN, ctx' = [ctx EXCEPT ![c].busy = b]
    PROVE  /\ \A d \in Ctxs : ctx'[d].uuid = ctx[d].uuid /\ (Loading(d)' <=> Loading(d))
           /\ ctx'[c].busy <=> b
           /\ \A d \in Ctxs \ {c} : ctx'[d] = ctx[d]
<1>1. ctx \in [Ctxs -> CtxType]
  BY DEF Inv, TypeOK
<1>2. PICK k : k = [ctx[c] EXCEPT !.busy = b]
  OBVIOUS
<1>3. /\ k.uuid = ctx[c].uuid /\ (k.live <=> ctx[c].live) /\ (k.initializing <=> ctx[c].initializing)
      /\ k.busy <=> b
  BY <1>1, <1>2 DEF CtxType
<1>4. ctx'[c] = k /\ \A d \in Ctxs \ {c} : ctx'[d] = ctx[d]
  BY <1>1, <1>2
<1> QED
  BY <1>3, <1>4 DEF Loading

\* The TA is taken.
LEMMA SetBusyWake ==
    ASSUME Inv, WakeOK, NEW t \in Threads, SetBusy(t)
    PROVE  WakeOK'
<1>1. PICK c : c = Top(t).c
  OBVIOUS
<1>2. /\ At(t, "set_busy") /\ UNCHANGED sess /\ Move(t, Entered(t), {})
      /\ siThread' = IF NeedsSiLock(c) THEN t ELSE siThread
      /\ ctx' = [ctx EXCEPT ![c].busy = TRUE]
  BY <1>1 DEF SetBusy
<1>3. stack[t] # <<>> /\ Top(t) \in CallType /\ c \in Ctxs /\ ~Is(t, "ldelf") /\ ~Is(t, "relock")
  BY <1>1, <1>2, StartsAt, ContextOf
<1>4. PICK f : f = [Top(t) EXCEPT !.pc = "enter", !.busy = TRUE]
  OBVIOUS
<1>5. f \in CallType /\ f.pc = "enter"
  BY <1>3, <1>4, RunLabels DEF CallType
<1>6. Move(t, With(t, f), {})
  BY <1>2, <1>4 DEF Entered
<1>7. SelfOK(t)'
  BY <1>3, <1>5, <1>6, SelfWith, SelfAwake, RunLabels
<1>8. Steps(t, {})
  BY <1>2, StepsQuiet
<1>9. /\ \A d \in Ctxs : ctx'[d].uuid = ctx[d].uuid /\ (Loading(d)' <=> Loading(d))
      /\ ctx'[c].busy
      /\ \A d \in Ctxs \ {c} : ctx'[d] = ctx[d]
  BY <1>2, <1>3, BusySet
<1>10. TasKept(t) /\ InitKept(t, {}) /\ LoadKept(t)
  BY <1>3, <1>9, PlainLoads
<1>11. LockKept(t, {}) /\ RefcKept(t, {})
  BY <1>2, <1>3, PlainSame, PlainSess
<1>12. BusyKept(t, {})
  <2>1. \A u \in Threads : Is(u, "wait_busy") => Top(u).c \in Ctxs
    BY NamesIs DEF Is
  <2> QED
    BY <1>1, <1>9, <2>1 DEF BusyKept
<1>13. SiKept(t, {})
  BY <1>1, <1>2, ConstantsAssumption DEF SiKept, TakesSi
<1> QED
  BY <1>7, <1>8, <1>10, <1>11, <1>12, <1>13, WakeStep

\* A signal for which somebody waits wakes one of those who do.
LEMMA OneOfWakes ==
    ASSUME NEW S, NEW W \in OneOf(S), S # {}
    PROVE  \E v \in S : W = {v}
BY DEF OneOf

\* The TA is given back, and the single-instance lock with its last call.
LEMMA ClearBusyWake ==
    ASSUME Inv, WakeOK, NEW t \in Threads, ClearBusy(t)
    PROVE  WakeOK'
<1>1. PICK c : c = Top(t).c
  OBVIOUS
<1>2. At(t, "clear") /\ UNCHANGED sess
  BY DEF ClearBusy
<1>3. /\ stack[t] # <<>> /\ Top(t) \in CallType /\ c \in Ctxs /\ Top(t).pc = "clear"
      /\ ~Is(t, "ldelf") /\ ~Is(t, "relock") /\ ~Is(t, "set_busy")
  BY <1>1, <1>2, StartsAt, ContextOf
<1>4. PICK pc : pc = IF Top(t).op = "close" THEN "drop" ELSE "put"
  OBVIOUS
<1>5. PICK f : f = [Top(t) EXCEPT !.busy = FALSE, !.pc = pc]
  OBVIOUS
<1>6. pc \in Labels /\ pc \notin DOMAIN Resume
  BY <1>4, RunLabels
<1>7. f \in CallType /\ f.pc = pc /\ Cleared(t) = With(t, f)
  BY <1>3, <1>4, <1>5, <1>6 DEF CallType, Cleared
<1>8. CASE Has(c, "CONCURRENT")
  <2>1. Move(t, With(t, f), {}) /\ CtxPlain /\ SessPlain
    BY <1>1, <1>2, <1>7, <1>8, PlainSame DEF ClearBusy
  <2> QED
    BY <1>3, <1>6, <1>7, <2>1, PlainWith
<1>9. CASE ~Has(c, "CONCURRENT")
  <2>1. PICK last : last = (NeedsSiLock(c) /\ siCount' = 0)
    OBVIOUS
  <2>2. /\ ctx' = [ctx EXCEPT ![c].busy = FALSE]
        /\ siThread' = IF last THEN None ELSE siThread
        /\ \E W1 \in OneOf(WaitingFor("wait_busy", c)),
              W2 \in IF last THEN OneOf(Waiting("wait_si")) ELSE {{}} :
                 Move(t, Cleared(t), W1 \cup W2)
    BY <1>1, <1>9, <2>1 DEF ClearBusy
  <2>3. PICK W1 \in OneOf(WaitingFor("wait_busy", c)),
             W2 \in IF last THEN OneOf(Waiting("wait_si")) ELSE {{}} :
                Move(t, Cleared(t), W1 \cup W2)
    BY <2>2
  <2>4. PICK W : W = W1 \cup W2
    OBVIOUS
  <2>5. \A u \in W : Asleep(u)
    BY <2>3, <2>4, WakesSleepers, ResumeIs
  <2>6. Move(t, With(t, f), W)
    BY <1>7, <2>3, <2>4
  <2>7. Steps(t, W)
    BY <2>5, <2>6, StepsMove
  <2>8. SelfOK(t)'
    BY <1>3, <1>6, <1>7, <2>6, SelfWith, SelfAwake
  <2>9. /\ \A d \in Ctxs : ctx'[d].uuid = ctx[d].uuid /\ (Loading(d)' <=> Loading(d))
        /\ \A d \in Ctxs \ {c} : ctx'[d] = ctx[d]
    BY <1>3, <2>2, BusySet
  <2>10. TasKept(t) /\ InitKept(t, W) /\ LoadKept(t)
    BY <1>3, <2>9, PlainLoads
  <2>11. LockKept(t, W) /\ RefcKept(t, W)
    BY <1>2, <1>3, PlainSame, PlainSess
  <2>12. BusyKept(t, W)
    <3>1. ASSUME NEW u \in Threads \ ({t} \cup W), Is(u, "wait_busy"), ctx[Top(u).c].busy
          PROVE  ctx'[Top(u).c].busy \/ \E v \in W \ {t} : Is(v, "wait_busy") /\ Top(v).c = Top(u).c
      <4>1. Top(u).c \in Ctxs
        BY <3>1, NamesIs DEF Is
      <4>2. CASE Top(u).c # c
        BY <2>9, <3>1, <4>1, <4>2
      <4>3. CASE Top(u).c = c
        <5>1. u \in WaitingFor("wait_busy", c)
          BY <3>1, <4>3 DEF WaitingFor, Waiting, Is
        <5>2. PICK v \in WaitingFor("wait_busy", c) : W1 = {v}
          BY <2>3, <5>1, OneOfWakes
        <5>3. v \in W /\ Is(v, "wait_busy") /\ Top(v).c = c
          BY <2>4, <5>2 DEF WaitingFor, Waiting, Is
        <5>4. v # t
          BY <1>3, <5>3 DEF Is
        <5> QED
          BY <4>3, <5>3, <5>4
      <4> QED
        BY <4>2, <4>3
    <3> QED
      BY <1>3, <3>1 DEF BusyKept
  <2>13. SiKept(t, W)
    <3>1. ASSUME NEW u \in Threads \ ({t} \cup W), Is(u, "wait_si"), siThread # None, siThread' = None
          PROVE  \E v \in W \ {t} : Is(v, "wait_si")
      <4>1. last
        BY <2>2, <3>1
      <4>2. W2 \in OneOf(Waiting("wait_si")) /\ u \in Waiting("wait_si")
        BY <2>3, <3>1, <4>1 DEF Waiting, Is
      <4>3. PICK v \in Waiting("wait_si") : W2 = {v}
        BY <4>2, OneOfWakes
      <4>4. v \in W /\ Is(v, "wait_si")
        BY <2>4, <4>3 DEF Waiting, Is
      <4>5. v # t
        BY <1>3, <4>4 DEF Is
      <4> QED
        BY <4>4, <4>5
    <3> QED
      BY <1>3, <3>1 DEF SiKept
  <2> QED
    BY <2>7, <2>8, <2>10, <2>11, <2>12, <2>13, WakeStep
<1> QED
  BY <1>8, <1>9

-----------------------------------------------------------------------------
(* tee_ta_init_session() *)

\* No other thread's innermost call names the session.
OnlyOf(t, s) == \A u \in Threads \ {t} : stack[u] # <<>> => Top(u).s # s
OnlySess(s) == \A q \in Sessions \ {s} : sess'[q] = sess[q]

\* A session that only its opening call names may change.
LEMMA LocalSess ==
    ASSUME Inv, NEW t \in Threads, ~Is(t, "relock"), NEW s, NEW W, OnlySess(s), OnlyOf(t, s)
    PROVE  LockKept(t, W) /\ RefcKept(t, W)
<1>1. \A u \in Threads \ {t} : Is(u, "wait_lock") \/ Is(u, "wait_refc") => Top(u).s \in Sessions \ {s}
  BY NamesIs DEF Is, OnlyOf
<1>2. LockKept(t, W)
  <2>1. \A u \in Threads \ ({t} \cup W) : Is(u, "wait_lock") => sess'[Top(u).s] = sess[Top(u).s]
    BY <1>1 DEF OnlySess
  <2> QED
    BY <2>1 DEF LockKept
<1>3. RefcKept(t, W)
  BY <1>1 DEF RefcKept, OnlySess
<1> QED
  BY <1>2, <1>3

\* A session that is being opened is named by one call.
LEMMA OpenAlone ==
    ASSUME Inv, NEW t \in Threads, stack[t] # <<>>, Top(t).op = "open", Top(t).s # None
    PROVE  \A u \in Threads \ {t} : stack[u] # <<>> => Top(u).s # Top(t).s
<1> SUFFICES ASSUME NEW u \in Threads \ {t}, stack[u] # <<>>, Top(u).s = Top(t).s PROVE FALSE
  OBVIOUS
<1>1. PICK x, y : x = Place(t) /\ y = Place(u)
  OBVIOUS
<1>2. /\ x \in Frames /\ y \in Frames /\ Call[x].op = "open" /\ Call[x].s = Top(t).s
      /\ Call[y].s = Top(t).s
  BY <1>1, NamesIs
<1>3. x # y
  BY <1>1 DEF Place
<1> QED
  BY <1>2, <1>3, InvFacts DEF Facts, SessOK, AloneOK, Compatible

\* The search for a context of the TA.
LEMMA InitWithContextWake ==
    ASSUME Inv, WakeOK, NEW t \in Threads, stack[t] # <<>>, Top(t).pc \in {"open", "find"},
           NEW f \in CallType, f.uuid = Top(t).uuid, f.op = Top(t).op, NEW s \in Sessions, f.s = s,
           NEW S, \A q \in Sessions \ {s} : S[q] = sess[q], DOMAIN S = Sessions,
           InitWithContext(t, f, S), siThread' = siThread,
           \A u \in Threads \ {t} : stack[u] # <<>> => Top(u).s # s
    PROVE  WakeOK'
<1>1. Facts /\ ~Is(t, "relock") /\ ~Is(t, "set_busy") /\ ~Is(t, "ldelf")
  BY InvFacts DEF Is
<1>2. ASSUME sess' = S \/ \E c : sess' = [S EXCEPT ![s].ctx = c], NEW W
      PROVE  LockKept(t, W) /\ RefcKept(t, W)
  <2>1. \A q \in Sessions \ {s} : sess'[q] = sess[q]
    BY <1>2
  <2>2. OnlySess(s) /\ OnlyOf(t, s)
    BY <2>1 DEF OnlySess, OnlyOf
  <2> QED
    BY <1>1, <2>2, LocalSess
<1>3. ASSUME NEW pc \in {"load", "undo"}, Move(t, With(t, [f EXCEPT !.pc = pc]), {}), sess' = S,
             UNCHANGED ctx
      PROVE  WakeOK'
  <2>1. PICK g : g = [f EXCEPT !.pc = pc]
    OBVIOUS
  <2>2. g \in CallType /\ g.pc = pc
    BY <2>1, RunLabels DEF CallType
  <2>3. SelfOK(t)'
    BY <1>3, <2>1, <2>2, SelfWith, SelfAwake, RunLabels
  <2>4. Steps(t, {})
    BY <1>3, StepsQuiet
  <2> QED
    BY <1>1, <1>2, <1>3, <2>3, <2>4, PlainSame, PlainCtx, WakeStep
<1>4. ASSUME NEW i \in Found(f.uuid), NEW c, c = tee_ctxes[i], ctx[c].initializing,
             Move(t, With(t, [f EXCEPT !.pc = "wait_init"]), {}), sess' = S, UNCHANGED ctx
      PROVE  WakeOK'
  <2>1. PICK g : g = [f EXCEPT !.pc = "wait_init"]
    OBVIOUS
  <2>2. g \in CallType /\ g.pc = "wait_init" /\ g.uuid = f.uuid
    BY <2>1, ResumeIs DEF CallType, Labels
  <2>3. stack'[t] # <<>> /\ Top(t)' = g
    BY <1>4, <2>1, <2>2, SelfWith
  <2>4. i \in DOMAIN tee_ctxes /\ ctx[c].uuid = f.uuid
    BY <1>4 DEF Found
  <2>5. c \in Ctxs /\ ctx[c].live
    BY <1>1, <1>4, <2>4 DEF Facts, CtxOK, ListOK
  <2>6. Loading(c)' /\ ctx'[c].uuid = Top(t)'.uuid
    BY <1>4, <2>2, <2>3, <2>4, <2>5 DEF Loading
  <2>7. SelfOK(t)'
    BY <2>2, <2>3, <2>5, <2>6 DEF SelfOK, BusyWake, SiWake, LockWake, RefcWake, InitWake, Is
  <2>8. Steps(t, {})
    BY <1>4, StepsQuiet
  <2> QED
    BY <1>1, <1>2, <1>4, <2>7, <2>8, PlainSame, PlainCtx, WakeStep
<1>5. ASSUME NEW i \in Found(f.uuid), NEW c, c = tee_ctxes[i],
             Move(t, With(t, [f EXCEPT !.pc = "set_busy", !.c = c]), {}),
             sess' = [S EXCEPT ![s].ctx = c], ctx' = [ctx EXCEPT ![c].ref = @ + 1]
      PROVE  WakeOK'
  <2>1. PICK g : g = [f EXCEPT !.pc = "set_busy", !.c = c]
    OBVIOUS
  <2>2. c \in Ctxs
    BY <1>1, <1>5 DEF Facts, Found
  <2>3. g \in CallType /\ g.pc = "set_busy"
    BY <2>1, <2>2, RunLabels DEF CallType
  <2>4. SelfOK(t)'
    BY <1>5, <2>1, <2>3, SelfWith, SelfAwake, RunLabels
  <2>5. Steps(t, {})
    BY <1>5, StepsQuiet
  <2>6. PICK k : k = [ctx[c] EXCEPT !.ref = @ + 1]
    OBVIOUS
  <2>7. /\ k.uuid = ctx[c].uuid /\ (k.busy <=> ctx[c].busy) /\ (k.live <=> ctx[c].live)
        /\ k.initializing <=> ctx[c].initializing
    BY <2>2, <2>6 DEF Inv, TypeOK, CtxType
  <2>8. ctx' = [ctx EXCEPT ![c] = k]
    BY <1>5, <2>6
  <2>9. CtxPlain
    BY <2>2, <2>7, <2>8, PlainFlag
  <2> QED
    BY <1>1, <1>2, <1>5, <2>4, <2>5, <2>9, PlainCtx, WakeStep
<1> QED
  BY <1>3, <1>4, <1>5 DEF InitWithContext

\* A new session.
LEMMA OpenSessionWake ==
    ASSUME Inv, WakeOK, NEW t \in Threads, OpenSession(t)
    PROVE  WakeOK'
<1>1. stack[t] # <<>> /\ Top(t).pc = "open" /\ Top(t) \in CallType /\ siThread' = siThread
  BY StartsAt DEF OpenSession
<1>2. PICK s \in Sessions :
         /\ \A x \in Frames : F(x).s # s
         /\ InitWithContext(t, [Top(t) EXCEPT !.s = s],
                [sess EXCEPT ![s] = [FreeSess EXCEPT !.live = TRUE, !.ref = 1, !.owner = Top(t).owner]])
  BY DEF OpenSession
<1>3. PICK r : r = [FreeSess EXCEPT !.live = TRUE, !.ref = 1, !.owner = Top(t).owner]
  OBVIOUS
<1>4. PICK S : S = [sess EXCEPT ![s] = r]
  OBVIOUS
<1>5. DOMAIN S = Sessions /\ \A q \in Sessions \ {s} : S[q] = sess[q]
  BY <1>4 DEF Inv, TypeOK
<1>6. PICK f : f = [Top(t) EXCEPT !.s = s]
  OBVIOUS
<1>7. f \in CallType /\ f.s = s /\ f.op = Top(t).op /\ f.uuid = Top(t).uuid
  BY <1>1, <1>6 DEF CallType
<1>8. \A u \in Threads \ {t} : stack[u] # <<>> => Top(u).s # s
  <2>1. ASSUME NEW u \in Threads, stack[u] # <<>> PROVE Top(u).s # s
    <3>1. Place(u) \in Frames /\ F(Place(u)) = Top(u)
      BY <2>1, TopIs, InvFacts DEF Facts
    <3> QED
      BY <1>2, <3>1
  <2> QED
    BY <2>1
<1>9. InitWithContext(t, f, S)
  BY <1>2, <1>3, <1>4, <1>6
<1> QED
  BY <1>1, <1>5, <1>7, <1>8, <1>9, InitWithContextWake

\* The search goes on after a wait.
LEMMA FindAgainWake ==
    ASSUME Inv, WakeOK, NEW t \in Threads, FindAgain(t)
    PROVE  WakeOK'
<1>1. Here(t) /\ Top(t).pc = "find" /\ siThread' = siThread /\ InitWithContext(t, Top(t), sess)
  BY HereIs, ResumeIs DEF FindAgain
<1>2. stack[t] # <<>> /\ Top(t) \in CallType /\ Top(t).op = "open" /\ Top(t).s \in Sessions
  BY <1>1, ConstantsAssumption DEF Here, CallOK, CallType, InTa
<1>3. Top(t).s # None /\ DOMAIN sess = Sessions
  BY <1>2, ConstantsAssumption DEF Inv, TypeOK
<1>4. \A u \in Threads \ {t} : stack[u] # <<>> => Top(u).s # Top(t).s
  BY <1>2, <1>3, OpenAlone
<1> QED
  BY <1>1, <1>2, <1>3, <1>4, InitWithContextWake

\* The contexts that the calls name, but for those of the call at x.
LEMMA OtherContexts ==
    ASSUME Inv, NEW t \in Threads, NEW c \in Ctxs, NEW W, ~Is(t, "set_busy"),
           \A d \in Ctxs \ {c} : ctx'[d] = ctx[d], siThread' = siThread,
           \A u \in Threads \ {t} : stack[u] # <<>> => Top(u).c # c
    PROVE  TasKept(t) /\ BusyKept(t, W) /\ SiKept(t, W)
<1>1. \A u \in Threads \ {t} : stack[u] # <<>> /\ Top(u).c # None => Top(u).c \in Ctxs \ {c}
  BY NamesIs
<1>2. TasKept(t)
  BY <1>1 DEF TasKept
<1>3. \A u \in Threads \ {t} : Is(u, "wait_busy") => Top(u).c \in Ctxs \ {c}
  BY NamesIs DEF Is
<1>4. BusyKept(t, W)
  BY <1>3 DEF BusyKept
<1> QED
  BY <1>2, <1>4 DEF SiKept

\* Only the context of a session changes.
LEMMA PlainBound ==
    ASSUME Inv, NEW s \in Sessions, NEW c, sess' = [sess EXCEPT ![s].ctx = c]
    PROVE  SessPlain
<1>1. sess \in [Sessions -> SessType]
  BY DEF Inv, TypeOK
<1>2. PICK r : r = [sess[s] EXCEPT !.ctx = c]
  OBVIOUS
<1>3. (r.unlink <=> sess[s].unlink) /\ r.lock = sess[s].lock /\ r.ref = sess[s].ref
  BY <1>1, <1>2 DEF SessType
<1>4. sess'[s] = r /\ \A q \in Sessions \ {s} : sess'[q] = sess[q]
  BY <1>1, <1>2
<1> QED
  BY <1>3, <1>4 DEF SessPlain

\* A new context.
LEMMA LoadTaWake ==
    ASSUME Inv, WakeOK, NEW t \in Threads, LoadTa(t)
    PROVE  WakeOK'
<1>1. Here(t) /\ Top(t).pc = "load" /\ siThread' = siThread
  BY HereIs, ResumeIs DEF LoadTa
<1>2. stack[t] # <<>> /\ Top(t) \in CallType /\ Top(t).s \in Sessions
      /\ ~Is(t, "set_busy") /\ ~Is(t, "relock") /\ ~Is(t, "ldelf")
  BY <1>1, ConstantsAssumption DEF Here, CallOK, CallType, Is
<1>3. PICK c \in Ctxs :
         /\ ~ctx[c].live
         /\ ctx' = [ctx EXCEPT ![c] = [FreeCtx EXCEPT !.live = TRUE, !.ref = 1,
                        !.uuid = Top(t).uuid, !.initializing = (Top(t).uuid \notin Pseudo),
                        !.vm = (Top(t).uuid \notin Pseudo)]]
         /\ sess' = [sess EXCEPT ![Top(t).s].ctx = c]
         /\ Move(t, With(t, [Top(t) EXCEPT !.c = c,
                        !.pc = IF Top(t).uuid \notin Pseudo THEN "ldelf" ELSE "set_busy"]), {})
  BY DEF LoadTa
<1>4. PICK pc : pc = IF Top(t).uuid \notin Pseudo THEN "ldelf" ELSE "set_busy"
  OBVIOUS
<1>5. pc \in Labels /\ pc \notin DOMAIN Resume
  BY <1>4, RunLabels
<1>6. PICK f : f = [Top(t) EXCEPT !.c = c, !.pc = pc]
  OBVIOUS
<1>7. f \in CallType /\ f.pc = pc /\ f.c = c
  BY <1>2, <1>5, <1>6 DEF CallType
<1>8. Move(t, With(t, f), {})
  BY <1>3, <1>4, <1>6
<1>9. stack'[t] # <<>> /\ Top(t)' = f
  BY <1>2, <1>7, <1>8, SelfWith
<1>10. SelfOK(t)'
  BY <1>5, <1>7, <1>9, SelfAwake
<1>11. Steps(t, {})
  BY <1>8, StepsQuiet
<1>12. LockKept(t, {}) /\ RefcKept(t, {})
  BY <1>2, <1>3, PlainBound, PlainSess
<1>13. PICK k : k = [FreeCtx EXCEPT !.live = TRUE, !.ref = 1, !.uuid = Top(t).uuid,
                        !.initializing = (Top(t).uuid \notin Pseudo), !.vm = (Top(t).uuid \notin Pseudo)]
  OBVIOUS
<1>14. k.initializing <=> Top(t).uuid \notin Pseudo
  BY <1>13 DEF FreeCtx
<1>15. ctx'[c] = k /\ \A d \in Ctxs \ {c} : ctx'[d] = ctx[d]
  BY <1>3, <1>13 DEF Inv, TypeOK
<1>16. \A u \in Threads \ {t} : stack[u] # <<>> => Top(u).c # c
  BY <1>3, NamesIs, ConstantsAssumption
<1>17. TasKept(t) /\ BusyKept(t, {}) /\ SiKept(t, {})
  BY <1>1, <1>2, <1>15, <1>16, OtherContexts
<1>18. InitKept(t, {})
  BY <1>3, <1>15 DEF InitKept, Loading
<1>19. LoadKept(t)
  <2>1. ASSUME NEW d \in Ctxs, Loading(d)'
        PROVE  \/ Loading(d) /\ ~(Is(t, "ldelf") /\ Top(t).c = d)
               \/ (Is(t, "ldelf") /\ Top(t).c = d)'
    <3>1. CASE d = c
      <4>1. pc = "ldelf"
        BY <1>4, <1>14, <1>15, <2>1, <3>1 DEF Loading
      <4> QED
        BY <1>7, <1>9, <3>1, <4>1 DEF Is
    <3>2. CASE d # c
      BY <1>2, <1>15, <2>1, <3>2 DEF Loading
    <3> QED
      BY <3>1, <3>2
  <2> QED
    BY <2>1 DEF LoadKept
<1> QED
  BY <1>10, <1>11, <1>12, <1>17, <1>18, <1>19, WakeStep

\* A context that is being loaded is named by one call.
LEMMA LoadAlone ==
    ASSUME Inv, NEW t \in Threads, Is(t, "ldelf")
    PROVE  \A u \in Threads \ {t} : stack[u] # <<>> => Top(u).c # Top(t).c
<1> SUFFICES ASSUME NEW u \in Threads \ {t}, stack[u] # <<>>, Top(u).c = Top(t).c PROVE FALSE
  OBVIOUS
<1>1. PICK x, y : x = Place(t) /\ y = Place(u)
  OBVIOUS
<1>2. /\ x \in Frames /\ y \in Frames /\ Call[x].c = Top(t).c /\ Call[y].c = Top(t).c
  BY <1>1, NamesIs DEF Is
<1>3. Call[x].pc = "ldelf"
  <2>1. F(x) = Top(t)
    BY <1>1, TopIs, InvFacts DEF Facts, Is
  <2> QED
    BY <1>2, <2>1, CallFields, ResumeIs DEF Is
<1>4. x # y
  BY <1>1 DEF Place
<1> QED
  BY <1>2, <1>3, <1>4, InvFacts DEF Facts, CtxOK, LoadOK

\* Everybody who waits for an instance to be loaded is woken.
LEMMA AllWoken ==
    ASSUME NEW t \in Threads, NEW W, W = Waiting("wait_init")
    PROVE  InitKept(t, W) /\ \A u \in W : Asleep(u)
<1>1. InitKept(t, W)
  BY DEF InitKept, Waiting, Is
<1> QED
  BY <1>1, WakesSleepers, ResumeIs

\* The TA is loaded.
LEMMA InitializedWake ==
    ASSUME Inv, WakeOK, NEW t \in Threads, Initialized(t)
    PROVE  WakeOK'
<1>1. PICK c : c = Top(t).c
  OBVIOUS
<1>2. PICK W : W = Waiting("wait_init")
  OBVIOUS
<1>3. /\ At(t, "ldelf") /\ UNCHANGED <<sess, siThread>> /\ Move(t, Goto(t, "set_busy"), W)
      /\ ctx' = [ctx EXCEPT ![c].initializing = FALSE]
  BY <1>1, <1>2 DEF Initialized
<1>4. /\ stack[t] # <<>> /\ Top(t) \in CallType /\ c \in Ctxs /\ ctx[c] \in CtxType
      /\ Is(t, "ldelf") /\ ~Is(t, "relock") /\ ~Is(t, "set_busy")
  BY <1>1, <1>3, StartsAt, ContextOf
<1>5. InitKept(t, W) /\ \A u \in W : Asleep(u)
  BY <1>2, AllWoken
<1>6. Steps(t, W)
  BY <1>3, <1>5, StepsMove
<1>7. SelfOK(t)'
  BY <1>3, <1>4, SelfGoto, SelfAwake, RunLabels
<1>8. LockKept(t, W) /\ RefcKept(t, W)
  BY <1>3, <1>4, PlainSame, PlainSess
<1>9. PICK k : k = [ctx[c] EXCEPT !.initializing = FALSE]
  OBVIOUS
<1>10. ctx'[c] = k /\ ~k.initializing /\ \A d \in Ctxs \ {c} : ctx'[d] = ctx[d]
  BY <1>3, <1>4, <1>9 DEF Inv, TypeOK, CtxType
<1>11. \A u \in Threads \ {t} : stack[u] # <<>> => Top(u).c # c
  BY <1>1, <1>4, LoadAlone
<1>12. TasKept(t) /\ BusyKept(t, W) /\ SiKept(t, W)
  BY <1>3, <1>4, <1>10, <1>11, OtherContexts
<1>13. LoadKept(t)
  BY <1>1, <1>10 DEF LoadKept, Loading
<1> QED
  BY <1>5, <1>6, <1>7, <1>8, <1>12, <1>13, WakeStep

\* The load has failed.
LEMMA LoadFailsWake ==
    ASSUME Inv, WakeOK, NEW t \in Threads, LoadFails(t)
    PROVE  WakeOK'
<1>1. PICK c : c = Top(t).c
  OBVIOUS
<1>2. PICK W : W = Waiting("wait_init")
  OBVIOUS
<1>3. PICK f : f = [Top(t) EXCEPT !.pc = "undo", !.c = None]
  OBVIOUS
<1>4. /\ At(t, "ldelf") /\ UNCHANGED siThread /\ Move(t, With(t, f), W)
      /\ ctx' = [ctx EXCEPT ![c] = FreeCtx] /\ sess' = [sess EXCEPT ![Top(t).s].ctx = None]
  BY <1>1, <1>2, <1>3 DEF LoadFails
<1>5. /\ stack[t] # <<>> /\ Top(t) \in CallType /\ c \in Ctxs
      /\ Is(t, "ldelf") /\ ~Is(t, "relock") /\ ~Is(t, "set_busy")
  BY <1>1, <1>4, StartsAt, ContextOf
<1>6. Top(t).s \in Sessions
  <2>1. Here(t)
    BY <1>4, HereIs, ResumeIs
  <2> QED
    BY <1>5, <2>1 DEF Here, CallOK, CallType, Is
<1>7. f \in CallType /\ f.pc = "undo"
  BY <1>3, <1>5, RunLabels DEF CallType
<1>8. InitKept(t, W) /\ \A u \in W : Asleep(u)
  BY <1>2, AllWoken
<1>9. Steps(t, W)
  BY <1>4, <1>8, StepsMove
<1>10. SelfOK(t)'
  BY <1>4, <1>5, <1>7, SelfWith, SelfAwake, RunLabels
<1>11. LockKept(t, W) /\ RefcKept(t, W)
  BY <1>4, <1>5, <1>6, PlainBound, PlainSess
<1>12. ctx'[c] = FreeCtx /\ ~FreeCtx.live /\ \A d \in Ctxs \ {c} : ctx'[d] = ctx[d]
  BY <1>4, <1>5 DEF Inv, TypeOK, FreeCtx
<1>13. \A u \in Threads \ {t} : stack[u] # <<>> => Top(u).c # c
  BY <1>1, <1>5, LoadAlone
<1>14. TasKept(t) /\ BusyKept(t, W) /\ SiKept(t, W)
  BY <1>4, <1>5, <1>12, <1>13, OtherContexts
<1>15. LoadKept(t)
  BY <1>1, <1>12 DEF LoadKept, Loading
<1> QED
  BY <1>8, <1>9, <1>10, <1>11, <1>14, <1>15, WakeStep

\* The session of a failed open is freed.
LEMMA UndoOpenWake ==
    ASSUME Inv, WakeOK, NEW t \in Threads, UndoOpen(t)
    PROVE  WakeOK'
<1>1. Here(t) /\ Top(t).pc = "undo"
  BY HereIs, ResumeIs DEF UndoOpen
<1>2. /\ stack[t] # <<>> /\ Top(t) \in CallType /\ Top(t).s \in Sessions /\ Top(t).op = "open"
      /\ ~Is(t, "set_busy") /\ ~Is(t, "relock") /\ ~Is(t, "ldelf")
  BY <1>1, ConstantsAssumption DEF Here, CallOK, CallType, Is, InTa
<1>3. /\ sess' = [sess EXCEPT ![Top(t).s] = FreeSess] /\ UNCHANGED <<ctx, siThread>>
      /\ Move(t, Return(t), {})
  BY DEF UndoOpen
<1>4. OnlySess(Top(t).s)
  BY <1>2, <1>3 DEF Inv, TypeOK, OnlySess
<1>5. OnlyOf(t, Top(t).s)
  BY <1>2, OpenAlone, ConstantsAssumption DEF OnlyOf
<1>6. LockKept(t, {}) /\ RefcKept(t, {})
  BY <1>2, <1>4, <1>5, LocalSess
<1>7. Steps(t, {})
  BY <1>3, StepsQuiet
<1>8. SelfOK(t)'
  <2>1. stack'[t] # <<>> => Top(t)'.pc \in {"body", "release", "destroy"}
    BY <1>2, <1>3, SelfReturn
  <2> QED
    BY <2>1, SelfAwake, ResumeIs
<1> QED
  BY <1>2, <1>3, <1>6, <1>7, <1>8, PlainSame, PlainCtx, WakeStep

-----------------------------------------------------------------------------
(* tee_ta_get_session() and tee_ta_put_session() *)

\* What a step that changes session s does to its waiters.
LockAt(t, W, s) ==
    \A u \in Threads \ ({t} \cup W) :
        Is(u, "wait_lock") /\ Top(u).s = s /\ ~sess[s].unlink =>
            /\ ~sess'[s].unlink
            /\ sess[s].lock # None \/ Is(t, "relock") =>
                  \/ sess'[s].lock # None
                  \/ \E v \in W \ {t} : Is(v, "wait_lock") /\ Top(v).s = s
RefcAt(t, W, s) ==
    \A u \in Threads \ ({t} \cup W) :
        Is(u, "wait_refc") /\ Top(u).s = s /\ sess[s].ref > 1 => sess'[s].ref > 1

\* A step that changes one session keeps the invariant if it is right for the
\* waiters of that session.
LEMMA SessWake ==
    ASSUME Inv, WakeOK, NEW t \in Threads, NEW st, NEW W, \A u \in W : Asleep(u), Move(t, st, W),
           UNCHANGED <<ctx, siThread>>, ~Is(t, "set_busy"), ~Is(t, "ldelf"),
           NEW s, OnlySess(s), Is(t, "relock") => Top(t).s = s, LockAt(t, W, s), RefcAt(t, W, s), SelfOK(t)'
    PROVE  WakeOK'
<1>1. \A u \in Threads : Is(u, "wait_lock") \/ Is(u, "wait_refc") => Top(u).s \in Sessions
  BY NamesIs DEF Is
<1>2. LockKept(t, W)
  <2>1. ASSUME NEW u \in Threads \ ({t} \cup W), Is(u, "wait_lock"), ~sess[Top(u).s].unlink
        PROVE  /\ ~sess'[Top(u).s].unlink
               /\ sess[Top(u).s].lock # None \/ (Is(t, "relock") /\ Top(t).s = Top(u).s) =>
                     \/ sess'[Top(u).s].lock # None
                     \/ \E v \in W \ {t} : Is(v, "wait_lock") /\ Top(v).s = Top(u).s
    <3>1. CASE Top(u).s = s
      BY <2>1, <3>1 DEF LockAt
    <3>2. CASE Top(u).s # s
      BY <1>1, <2>1, <3>2 DEF OnlySess
    <3> QED
      BY <3>1, <3>2
  <2> QED
    BY <2>1 DEF LockKept
<1>3. RefcKept(t, W)
  <2>1. ASSUME NEW u \in Threads \ ({t} \cup W), Is(u, "wait_refc"), sess[Top(u).s].ref > 1
        PROVE  sess'[Top(u).s].ref > 1
    <3>1. CASE Top(u).s = s
      BY <2>1, <3>1 DEF RefcAt
    <3>2. CASE Top(u).s # s
      BY <1>1, <2>1, <3>2 DEF OnlySess
    <3> QED
      BY <3>1, <3>2
  <2> QED
    BY <2>1 DEF RefcKept
<1>4. Steps(t, W)
  BY StepsMove
<1>5. CtxPlain
  BY PlainSame
<1> QED
  BY <1>2, <1>3, <1>4, <1>5, PlainCtx, WakeStep

\* The sessions after one of them changed.
LEMMA SessIs ==
    ASSUME Inv, NEW s \in Sessions, NEW r, sess' = [sess EXCEPT ![s] = r]
    PROVE  sess'[s] = r /\ OnlySess(s)
BY DEF Inv, TypeOK, OnlySess

\* Another reference count and lock.
LEMMA SessNew ==
    ASSUME Inv, NEW s \in Sessions, NEW n \in Nat, NEW l \in Threads \cup {None}, NEW o \in BOOLEAN,
           sess' = [sess EXCEPT ![s] = SessOpen(sess[s], n, l, o)]
    PROVE  /\ OnlySess(s) /\ sess'[s].ref = n /\ sess'[s].lock = l
           /\ sess'[s].unlink <=> sess[s].unlink
<1>1. sess[s] \in SessType
  BY SessTyped DEF Inv
<1>2. PICK r : r = SessOpen(sess[s], n, l, o)
  OBVIOUS
<1>3. r.ref = n /\ r.lock = l /\ (r.unlink <=> sess[s].unlink)
  BY <1>1, <1>2 DEF SessType, SessOpen
<1>4. sess'[s] = r /\ OnlySess(s)
  BY <1>2, SessIs
<1> QED
  BY <1>3, <1>4

\* A thread that has gone to sleep on lock_cv.
LEMMA SelfLock ==
    ASSUME Inv, NEW t \in Threads, stack[t] # <<>>, NEW W, Move(t, Goto(t, "wait_lock"), W),
           NEW s, s = Top(t).s, ~sess'[s].unlink, sess'[s].lock # None
    PROVE  SelfOK(t)'
<1>1. "wait_lock" \in Labels
  BY ResumeIs DEF Labels
<1>2. stack'[t] # <<>> /\ Top(t)'.pc = "wait_lock" /\ Top(t)'.s = s
  BY <1>1, SelfGoto
<1> QED
  BY <1>2 DEF SelfOK, BusyWake, SiWake, LockWake, RefcWake, InitWake, Is

\* and on refc_cv.
LEMMA SelfRefc ==
    ASSUME Inv, NEW t \in Threads, stack[t] # <<>>, NEW W, Move(t, Goto(t, "wait_refc"), W),
           NEW s, s = Top(t).s, sess'[s].ref > 1
    PROVE  SelfOK(t)'
<1>1. "wait_refc" \in Labels
  BY ResumeIs DEF Labels
<1>2. stack'[t] # <<>> /\ Top(t)'.pc = "wait_refc" /\ Top(t)'.s = s
  BY <1>1, SelfGoto
<1> QED
  BY <1>2 DEF SelfOK, BusyWake, SiWake, LockWake, RefcWake, InitWake, Is

\* A thread that goes on, or ends its call, waits for nothing.
LEMMA SelfRuns ==
    ASSUME Inv, NEW t \in Threads, stack[t] # <<>>, NEW W,
           \/ Move(t, Return(t), W)
           \/ \E pc \in Labels \ DOMAIN Resume : Move(t, Goto(t, pc), W)
    PROVE  SelfOK(t)'
<1>1. CASE Move(t, Return(t), W)
  <2>1. stack'[t] # <<>> => Top(t)'.pc \in {"body", "release", "destroy"}
    BY <1>1, SelfReturn
  <2> QED
    BY <2>1, SelfAwake, ResumeIs
<1>2. ASSUME NEW pc \in Labels \ DOMAIN Resume, Move(t, Goto(t, pc), W)
      PROVE  SelfOK(t)'
  <2>1. Top(t)'.pc = pc
    BY <1>2, SelfGoto
  <2> QED
    BY <1>2, <2>1, SelfAwake
<1> QED
  BY <1>1, <1>2

\* The call of a step on its session.
LEMMA SessionOf ==
    ASSUME Inv, NEW t \in Threads, NEW pc, At(t, pc), pc \in {"get", "relock", "put", "unlink", "unlinked"}
    PROVE  /\ stack[t] # <<>> /\ Top(t) \in CallType /\ Top(t).s \in Sessions /\ sess[Top(t).s] \in SessType
           /\ \A l : Is(t, l) <=> l = pc
           /\ pc # "get" => sess[Top(t).s].ref \in Nat \ {0}
           /\ pc \in {"unlink", "unlinked"} => Top(t).op = "close"
<1>1. Here(t) /\ Top(t).pc = pc /\ Facts
  BY HereIs, ResumeIs, InvFacts
<1>2. stack[t] # <<>> /\ Top(t) \in CallType /\ \A l : Is(t, l) <=> l = pc
  BY StartsAt
<1>3. Top(t).s \in Sessions
  BY <1>1 DEF Here, CallOK, CallType
<1>4. pc # "get" => Uses(Call[Place(t)]) /\ Place(t) \in Frames /\ Call[Place(t)] = Top(t)
  BY <1>1, <1>2, NamesIs DEF Here
<1>5. pc # "get" => sess[Top(t).s].ref \in Nat \ {0}
  BY <1>1, <1>4, UsedSession
<1>6. pc \in {"unlink", "unlinked"} => Top(t).op = "close"
  BY <1>1, <1>2, NamesIs
<1> QED
  BY <1>1, <1>2, <1>3, <1>5, <1>6, SessTyped DEF Facts

\* tee_ta_get_session().
LEMMA GetSessionWake ==
    ASSUME Inv, WakeOK, NEW t \in Threads, GetSession(t)
    PROVE  WakeOK'
<1>1. PICK s : s = Top(t).s
  OBVIOUS
<1>2. /\ At(t, "get") /\ UNCHANGED <<ctx, siThread>> /\ \A u \in {} : Asleep(u)
  BY DEF GetSession
<1>3. /\ stack[t] # <<>> /\ Top(t) \in CallType /\ s \in Sessions /\ sess[s] \in SessType
      /\ ~Is(t, "set_busy") /\ ~Is(t, "ldelf") /\ ~Is(t, "relock") /\ Top(t).pc = "get"
  BY <1>1, <1>2, SessionOf DEF Is
<1>4. CASE ~sess[s].live \/ sess[s].owner # Top(t).owner \/ sess[s].unlink
  <2>1. Move(t, Return(t), {}) /\ UNCHANGED sess
    BY <1>1, <1>4 DEF GetSession
  <2> QED
    BY <1>2, <1>3, <2>1, PlainReturn, PlainSame
<1>5. CASE ~(~sess[s].live \/ sess[s].owner # Top(t).owner \/ sess[s].unlink)
  <2>1. PICK n : n = sess[s].ref + 1
    OBVIOUS
  <2>2. n \in Nat /\ n > sess[s].ref /\ sess[s].ref \in Nat /\ sess[s].lock \in Threads \cup {None}
        /\ ~sess[s].unlink
    BY <1>3, <1>5, <2>1 DEF SessType
  <2>3. PICK l : l = IF Top(t).op = "cancel" \/ sess[s].lock # None THEN sess[s].lock ELSE t
    OBVIOUS
  <2>4. PICK r : r = [sess[s] EXCEPT !.ref = n, !.lock = l]
    OBVIOUS
  <2>5. r.ref = n /\ r.lock = l /\ ~r.unlink
    BY <1>3, <2>2, <2>4 DEF SessType
  <2>6. sess' = [sess EXCEPT ![s] = r]
    <3>1. CASE Top(t).op = "cancel" \/ sess[s].lock # None
      <4>1. sess' = [sess EXCEPT ![s].ref = @ + 1]
        BY <1>1, <1>5, <3>1 DEF GetSession
      <4>2. r = [sess[s] EXCEPT !.ref = n]
        BY <1>3, <2>3, <2>4, <3>1 DEF SessType
      <4> QED
        BY <2>1, <4>1, <4>2
    <3>2. CASE ~(Top(t).op = "cancel" \/ sess[s].lock # None)
      <4>1. sess' = [sess EXCEPT ![s].ref = @ + 1, ![s].lock = t]
        BY <1>1, <1>5, <3>2 DEF GetSession
      <4> QED
        BY <1>3, <2>1, <2>3, <2>4, <3>2, <4>1 DEF Inv, TypeOK
    <3> QED
      BY <3>1, <3>2
  <2>7. sess'[s] = r /\ OnlySess(s)
    BY <1>3, <2>6, SessIs
  <2>8. LockAt(t, {}, s)
    BY <1>3, <2>3, <2>5, <2>7 DEF LockAt
  <2>9. RefcAt(t, {}, s)
    BY <2>2, <2>5, <2>7 DEF RefcAt
  <2>10. \E st : Move(t, st, {}) /\ SelfOK(t)'
    <3>1. CASE Top(t).op = "cancel"
      <4>1. Move(t, Goto(t, "put"), {})
        BY <1>1, <1>5, <3>1 DEF GetSession
      <4> QED
        BY <1>3, <4>1, SelfRuns, RunLabels
    <3>2. CASE Top(t).op # "cancel" /\ sess[s].lock # None
      <4>1. Move(t, Goto(t, "wait_lock"), {})
        BY <1>1, <1>5, <3>2 DEF GetSession
      <4>2. ~sess'[s].unlink /\ sess'[s].lock # None
        BY <2>3, <2>5, <2>7, <3>2
      <4> QED
        BY <1>1, <1>3, <4>1, <4>2, SelfLock
    <3>3. CASE Top(t).op # "cancel" /\ sess[s].lock = None
      <4>1. Move(t, Goto(t, "got"), {})
        BY <1>1, <1>5, <3>3 DEF GetSession
      <4> QED
        BY <1>3, <4>1, SelfRuns, RunLabels
    <3> QED
      BY <3>1, <3>2, <3>3
  <2>11. PICK st : Move(t, st, {}) /\ SelfOK(t)'
    BY <2>10
  <2> QED
    BY <1>2, <1>3, <2>7, <2>8, <2>9, <2>11, SessWake
<1> QED
  BY <1>4, <1>5

\* One thread at most closes a session.
LEMMA CloseAlone ==
    ASSUME Inv, NEW t \in Threads, NEW u \in Threads, stack[t] # <<>>, stack[u] # <<>>, Top(t).s # None,
           Top(u).s = Top(t).s, Top(t).op = "close", Top(u).op = "close"
    PROVE  u = t
<1> SUFFICES ASSUME u # t PROVE FALSE
  OBVIOUS
<1>1. PICK x, y : x = Place(t) /\ y = Place(u)
  OBVIOUS
<1>2. /\ x \in Frames /\ y \in Frames /\ Call[x].op = "close" /\ Call[y].op = "close"
      /\ Call[x].s = Top(t).s /\ Call[y].s = Top(t).s
  BY <1>1, NamesIs
<1>3. x # y
  BY <1>1 DEF Place
<1> QED
  BY <1>2, <1>3, InvFacts DEF Facts, SessOK, AloneOK, Compatible

\* Two threads that use a session have two references.
LEMMA TwoUse ==
    ASSUME Inv, NEW t \in Threads, NEW u \in Threads, u # t, stack[t] # <<>>, stack[u] # <<>>,
           NEW s \in Sessions, Top(t).s = s, Top(u).s = s, Uses(Call[Place(t)]), Uses(Call[Place(u)])
    PROVE  sess[s].ref # 1
<1>1. PICK x, y : x = Place(t) /\ y = Place(u)
  OBVIOUS
<1>2. x \in Frames /\ y \in Frames /\ x \in UsersOf(s) /\ y \in UsersOf(s) /\ x # y
  BY <1>1, NamesIs DEF UsersOf, Place
<1>3. Facts
  BY InvFacts
<1>4. sess[s].live /\ sess[s].ref = Cardinality(UsersOf(s)) /\ IsFiniteSet(UsersOf(s))
  <2>1. Call[x].s = s /\ Uses(Call[x])
    BY <1>2 DEF UsersOf
  <2>2. sess[s].live
    BY <1>2, <1>3, <2>1, UsedSession
  <2> QED
    BY <1>3, <2>2, FS_Subset DEF Facts, SessOK, SessRefs, UsersOf
<1>5. ~ \E z : UsersOf(s) = {z}
  BY <1>2
<1> QED
  BY <1>4, <1>5, FS_Singleton

\* dec_session_ref_count() wakes the thread that waits for the last reference
\* but its own.
LEMMA DecWakesIt ==
    ASSUME Inv, NEW s \in Sessions, NEW W1 \in DecWakes(s), sess[s].ref = 2, NEW u \in Threads,
           Is(u, "wait_refc"), Top(u).s = s
    PROVE  u \in W1
<1>1. u \in WaitingFor("wait_refc", s)
  BY DEF WaitingFor, Waiting, Is
<1>2. PICK v \in WaitingFor("wait_refc", s) : W1 = {v}
  BY <1>1, OneOfWakes DEF DecWakes
<1>3. v \in Threads /\ stack[v] # <<>> /\ Top(v).s = s /\ Top(v).pc = "wait_refc"
  BY <1>2 DEF WaitingFor, Waiting
<1>4. Top(v).op = "close" /\ Top(u).op = "close" /\ stack[u] # <<>>
  BY <1>3, NamesIs DEF Is
<1>5. u = v
  BY <1>3, <1>4, CloseAlone, ConstantsAssumption
<1> QED
  BY <1>2, <1>5

\* Dropping a reference keeps the waiters of refc_cv right.
LEMMA DecKept ==
    ASSUME Inv, NEW t \in Threads, NEW s \in Sessions, NEW W1 \in DecWakes(s), NEW W, W1 \subseteq W,
           sess[s].ref \in Nat, sess'[s].ref = sess[s].ref - 1
    PROVE  RefcAt(t, W, s)
<1>1. ASSUME NEW u \in Threads \ ({t} \cup W), Is(u, "wait_refc"), Top(u).s = s, sess[s].ref > 1
      PROVE  sess'[s].ref > 1
  <2>1. sess[s].ref # 2
    BY <1>1, DecWakesIt
  <2> QED
    BY <1>1, <2>1
<1> QED
  BY <1>1 DEF RefcAt

\* Woken from lock_cv.
LEMMA RelockWake ==
    ASSUME Inv, WakeOK, NEW t \in Threads, Relock(t)
    PROVE  WakeOK'
<1>1. PICK s : s = Top(t).s
  OBVIOUS
<1>2. /\ At(t, "relock") /\ UNCHANGED <<ctx, siThread>> /\ \A u \in {} : Asleep(u)
  BY DEF Relock
<1>3. /\ stack[t] # <<>> /\ Top(t) \in CallType /\ s \in Sessions /\ sess[s] \in SessType
      /\ ~Is(t, "set_busy") /\ ~Is(t, "ldelf") /\ sess[s].ref \in Nat \ {0}
  BY <1>1, <1>2, SessionOf
<1>4. CASE sess[s].unlink
  <2>1. PICK n : n = sess[s].ref - 1
    OBVIOUS
  <2>2. PICK r : r = [sess[s] EXCEPT !.ref = n]
    OBVIOUS
  <2>3. r.ref = n
    BY <1>3, <2>2 DEF SessType
  <2>4. PICK W \in DecWakes(s) : Move(t, Return(t), W)
    BY <1>1, <1>4 DEF Relock
  <2>5. sess' = [sess EXCEPT ![s] = r]
    BY <1>1, <1>4, <2>1, <2>2 DEF Relock
  <2>6. sess'[s] = r /\ OnlySess(s)
    BY <1>3, <2>5, SessIs
  <2>7. LockAt(t, W, s)
    BY <1>4 DEF LockAt
  <2>8. RefcAt(t, W, s)
    BY <1>3, <2>1, <2>3, <2>4, <2>6, DecKept
  <2>9. \A u \in W : Asleep(u)
    BY <2>4, WakesSleepers
  <2>10. SelfOK(t)'
    BY <1>3, <2>4, SelfRuns
  <2> QED
    BY <1>1, <1>2, <1>3, <2>4, <2>6, <2>7, <2>8, <2>9, <2>10, SessWake
<1>5. CASE ~sess[s].unlink /\ sess[s].lock # None
  <2>1. Move(t, Goto(t, "wait_lock"), {}) /\ UNCHANGED sess
    BY <1>1, <1>5 DEF Relock
  <2>2. OnlySess(s) /\ LockAt(t, {}, s) /\ RefcAt(t, {}, s)
    BY <1>5, <2>1 DEF OnlySess, LockAt, RefcAt
  <2>3. SelfOK(t)'
    BY <1>1, <1>3, <1>5, <2>1, SelfLock
  <2> QED
    BY <1>1, <1>2, <1>3, <2>1, <2>2, <2>3, SessWake
<1>6. CASE ~sess[s].unlink /\ sess[s].lock = None
  <2>1. PICK r : r = [sess[s] EXCEPT !.lock = t]
    OBVIOUS
  <2>2. r.lock = t /\ t # None /\ ~r.unlink /\ r.ref = sess[s].ref
    BY <1>3, <1>6, <2>1, ConstantsAssumption DEF SessType
  <2>3. sess' = [sess EXCEPT ![s] = r] /\ Move(t, Goto(t, "got"), {})
    BY <1>1, <1>6, <2>1 DEF Relock
  <2>4. sess'[s] = r /\ OnlySess(s)
    BY <1>3, <2>3, SessIs
  <2>5. LockAt(t, {}, s) /\ RefcAt(t, {}, s)
    BY <2>2, <2>4 DEF LockAt, RefcAt
  <2>6. SelfOK(t)'
    BY <1>3, <2>3, SelfRuns, RunLabels
  <2> QED
    BY <1>1, <1>2, <1>3, <2>3, <2>4, <2>5, <2>6, SessWake
<1> QED
  BY <1>4, <1>5, <1>6

\* tee_ta_put_session().
LEMMA PutSessionWake ==
    ASSUME Inv, WakeOK, NEW t \in Threads, PutSession(t)
    PROVE  WakeOK'
<1>1. PICK s : s = Top(t).s
  OBVIOUS
<1>2. /\ At(t, "put") /\ UNCHANGED <<ctx, siThread>>
  BY DEF PutSession
<1>3. /\ stack[t] # <<>> /\ Top(t) \in CallType /\ s \in Sessions /\ sess[s] \in SessType
      /\ ~Is(t, "set_busy") /\ ~Is(t, "ldelf") /\ ~Is(t, "relock") /\ ~Is(t, "wait_lock")
      /\ sess[s].ref \in Nat \ {0} /\ sess[s].lock \in Threads \cup {None}
  BY <1>1, <1>2, SessionOf DEF SessType
<1>4. PICK l : l = IF sess[s].lock = t THEN None ELSE sess[s].lock
  OBVIOUS
<1>5. PICK o \in BOOLEAN : o <=> sess[s].open \/ (Top(t).op = "open" /\ Top(t).ok)
  OBVIOUS
<1>6. sess' = [sess EXCEPT ![s] = SessOpen(sess[s], sess[s].ref - 1, l, o)]
  <2>1. sess' = [sess EXCEPT ![s].ref = @ - 1,
                             ![s].lock = IF sess[s].lock = t THEN None ELSE @,
                             ![s].open = @ \/ (Top(t).op = "open" /\ Top(t).ok)]
    BY <1>1 DEF PutSession
  <2>2. o = (sess[s].open \/ (Top(t).op = "open" /\ Top(t).ok))
    BY <1>5
  <2> QED
    BY <1>4, <2>1, <2>2 DEF SessOpen
<1>7. /\ OnlySess(s) /\ sess'[s].ref = sess[s].ref - 1 /\ sess'[s].lock = l
      /\ sess'[s].unlink <=> sess[s].unlink
  <2>1. sess[s].ref - 1 \in Nat /\ l \in Threads \cup {None}
    BY <1>3, <1>4
  <2> QED
    BY <1>3, <1>6, <2>1, SessNew
<1>8. PICK W1 \in DecWakes(s), W2 \in IF sess[s].lock = t THEN OneOf(WaitingFor("wait_lock", s)) ELSE {{}} :
         Move(t, IF Top(t).op = "open" /\ ~Top(t).ok
                 THEN With(t, [Frame("close", "get", s, Top(t).owner, None) EXCEPT !.ok = FALSE])
                 ELSE Return(t), W1 \cup W2)
  BY <1>1 DEF PutSession
<1>9. PICK W : W = W1 \cup W2
  OBVIOUS
<1>10. \A u \in W : Asleep(u)
  <2>1. \A u \in W1 : Asleep(u)
    BY WakesSleepers
  <2>2. \A u \in W2 : Asleep(u)
    BY <1>8, WakesSleepers, ResumeIs
  <2> QED
    BY <1>9, <2>1, <2>2
<1>11. RefcAt(t, W, s)
  BY <1>3, <1>7, <1>9, DecKept
<1>12. LockAt(t, W, s)
  <2>1. ASSUME NEW u \in Threads \ ({t} \cup W), Is(u, "wait_lock"), Top(u).s = s, sess[s].lock # None
        PROVE  sess'[s].lock # None \/ \E v \in W \ {t} : Is(v, "wait_lock") /\ Top(v).s = s
    <3>1. CASE sess[s].lock # t
      BY <1>4, <1>7, <2>1, <3>1
    <3>2. CASE sess[s].lock = t
      <4>1. u \in WaitingFor("wait_lock", s)
        BY <2>1 DEF WaitingFor, Waiting, Is
      <4>2. PICK v \in WaitingFor("wait_lock", s) : W2 = {v}
        BY <1>8, <3>2, <4>1, OneOfWakes
      <4>3. v \in W /\ Is(v, "wait_lock") /\ Top(v).s = s
        BY <1>9, <4>2 DEF WaitingFor, Waiting, Is
      <4>4. v # t
        BY <1>3, <4>3
      <4> QED
        BY <4>3, <4>4
    <3> QED
      BY <3>1, <3>2
  <2> QED
    BY <1>3, <1>7, <2>1 DEF LockAt
<1>13. \E st : Move(t, st, W) /\ SelfOK(t)'
  <2>1. CASE Top(t).op = "open" /\ ~Top(t).ok
    <3>1. PICK f : f = [Frame("close", "get", s, Top(t).owner, None) EXCEPT !.ok = FALSE]
      OBVIOUS
    <3>2. f \in CallType /\ f.pc = "get"
      BY <1>3, <3>1, RunLabels DEF Frame, CallType
    <3>3. Move(t, With(t, f), W)
      BY <1>8, <1>9, <2>1, <3>1
    <3> QED
      BY <1>3, <3>2, <3>3, SelfWith, SelfAwake, RunLabels
  <2>2. CASE ~(Top(t).op = "open" /\ ~Top(t).ok)
    <3>1. Move(t, Return(t), W)
      BY <1>8, <1>9, <2>2
    <3> QED
      BY <1>3, <3>1, SelfRuns
  <2> QED
    BY <2>1, <2>2
<1>14. PICK st : Move(t, st, W) /\ SelfOK(t)'
  BY <1>13
<1> QED
  BY <1>2, <1>3, <1>7, <1>10, <1>11, <1>12, <1>14, SessWake

-----------------------------------------------------------------------------
(* tee_ta_close_session() *)

\* No other thread waits for the references of a session that is closed.
LEMMA NoneWaits ==
    ASSUME Inv, NEW t \in Threads, stack[t] # <<>>, Top(t).op = "close", NEW s \in Sessions, Top(t).s = s, NEW W
    PROVE  RefcAt(t, W, s)
<1>1. ASSUME NEW u \in Threads \ {t}, Is(u, "wait_refc"), Top(u).s = s PROVE FALSE
  <2>1. stack[u] # <<>> /\ Top(u).op = "close"
    BY <1>1, NamesIs DEF Is
  <2> QED
    BY <1>1, <2>1, CloseAlone, ConstantsAssumption
<1> QED
  BY <1>1 DEF RefcAt

\* The session is freed.
LEMMA FreedWake ==
    ASSUME Inv, WakeOK, NEW t \in Threads, NEW pc \in {"unlink", "unlinked"}, At(t, pc), NEW s, s = Top(t).s,
           NEW W, \A u \in W : Asleep(u), Move(t, AfterDestroy(t), W), sess' = [sess EXCEPT ![s] = FreeSess],
           LockAt(t, W, s), UNCHANGED <<ctx, siThread>>
    PROVE  WakeOK'
<1>1. /\ stack[t] # <<>> /\ s \in Sessions /\ Top(t).op = "close"
      /\ ~Is(t, "set_busy") /\ ~Is(t, "ldelf") /\ ~Is(t, "relock")
  BY SessionOf
<1>2. OnlySess(s)
  BY <1>1, SessIs
<1>3. RefcAt(t, W, s)
  BY <1>1, NoneWaits
<1>4. PICK l : l = IF Top(t).busy THEN "clear" ELSE "drop"
  OBVIOUS
<1>5. l \in Labels \ DOMAIN Resume /\ Move(t, Goto(t, l), W)
  BY <1>4, RunLabels DEF AfterDestroy
<1>6. SelfOK(t)'
  BY <1>1, <1>5, SelfRuns
<1> QED
  BY <1>1, <1>2, <1>3, <1>5, <1>6, SessWake

\* tee_ta_unlink_session().
LEMMA UnlinkWake ==
    ASSUME Inv, WakeOK, NEW t \in Threads, Unlink(t)
    PROVE  WakeOK'
<1>1. PICK s : s = Top(t).s
  OBVIOUS
<1>2. PICK W : W = WaitingFor("wait_lock", s)
  OBVIOUS
<1>3. At(t, "unlink") /\ UNCHANGED <<ctx, siThread>> /\ \A u \in W : Asleep(u)
  BY <1>2, WakesSleepers, ResumeIs DEF Unlink
<1>4. /\ stack[t] # <<>> /\ s \in Sessions /\ sess[s] \in SessType /\ Top(t).op = "close"
      /\ ~Is(t, "set_busy") /\ ~Is(t, "ldelf") /\ ~Is(t, "relock") /\ sess[s].ref \in Nat \ {0}
  BY <1>1, <1>3, SessionOf
<1>5. LockAt(t, W, s)
  BY <1>2 DEF LockAt, WaitingFor, Waiting, Is
<1>6. CASE sess[s].ref = 1
  <2>1. sess' = [sess EXCEPT ![s] = FreeSess] /\ Move(t, AfterDestroy(t), W)
    BY <1>1, <1>2, <1>6 DEF Unlink
  <2> QED
    BY <1>1, <1>3, <1>5, <2>1, FreedWake
<1>7. CASE sess[s].ref # 1
  <2>1. PICK r : r = [sess[s] EXCEPT !.unlink = TRUE]
    OBVIOUS
  <2>2. r.ref = sess[s].ref
    BY <1>4, <2>1 DEF SessType
  <2>3. sess' = [sess EXCEPT ![s] = r] /\ Move(t, Goto(t, "wait_refc"), W)
    BY <1>1, <1>2, <1>7, <2>1 DEF Unlink
  <2>4. sess'[s] = r /\ OnlySess(s)
    BY <1>4, <2>3, SessIs
  <2>5. sess'[s].ref > 1
    BY <1>4, <1>7, <2>2, <2>4
  <2>6. RefcAt(t, W, s) /\ SelfOK(t)'
    BY <1>1, <1>4, <2>3, <2>5, NoneWaits, SelfRefc
  <2> QED
    BY <1>3, <1>4, <1>5, <2>3, <2>4, <2>6, SessWake
<1> QED
  BY <1>6, <1>7

\* Woken from refc_cv: nobody waits for the lock of a session that is freed
\* with the last reference.
LEMMA UnlinkedWake ==
    ASSUME Inv, WakeOK, NEW t \in Threads, Unlinked(t)
    PROVE  WakeOK'
<1>1. PICK s : s = Top(t).s
  OBVIOUS
<1>2. PICK W : W = {}
  OBVIOUS
<1>3. At(t, "unlinked") /\ UNCHANGED <<ctx, siThread>> /\ \A u \in W : Asleep(u)
  BY <1>2 DEF Unlinked
<1>4. /\ stack[t] # <<>> /\ s \in Sessions /\ sess[s] \in SessType /\ Top(t).op = "close"
      /\ ~Is(t, "set_busy") /\ ~Is(t, "ldelf") /\ ~Is(t, "relock") /\ sess[s].ref \in Nat \ {0}
      /\ Top(t).pc = "unlinked"
  BY <1>1, <1>3, SessionOf DEF Is
<1>5. CASE sess[s].ref = 1
  <2>1. sess' = [sess EXCEPT ![s] = FreeSess] /\ Move(t, AfterDestroy(t), W)
    BY <1>1, <1>2, <1>5 DEF Unlinked
  <2>2. ASSUME NEW u \in Threads \ {t}, Is(u, "wait_lock"), Top(u).s = s PROVE FALSE
    <3>1. stack[u] # <<>> /\ Uses(Call[Place(u)])
      BY <2>2, NamesIs DEF Is
    <3>2. Uses(Call[Place(t)])
      BY <1>4, NamesIs
    <3> QED
      BY <1>1, <1>4, <1>5, <2>2, <3>1, <3>2, TwoUse
  <2>3. LockAt(t, W, s)
    BY <2>2 DEF LockAt
  <2> QED
    BY <1>1, <1>3, <2>1, <2>3, FreedWake
<1>6. CASE sess[s].ref # 1
  <2>1. Move(t, Goto(t, "wait_refc"), W) /\ UNCHANGED sess
    BY <1>1, <1>2, <1>6 DEF Unlinked
  <2>2. OnlySess(s) /\ LockAt(t, W, s) /\ RefcAt(t, W, s)
    BY <1>4, <2>1 DEF OnlySess, LockAt, RefcAt
  <2>3. sess'[s].ref > 1
    BY <1>4, <1>6, <2>1
  <2>4. SelfOK(t)'
    BY <1>1, <1>4, <2>1, <2>3, SelfRefc
  <2> QED
    BY <1>3, <1>4, <2>1, <2>2, <2>4, SessWake
<1> QED
  BY <1>5, <1>6

\* destroy_context(): nobody else names the context, and nobody loads it.
LEMMA DestroyContextWake ==
    ASSUME Inv, WakeOK, NEW t \in Threads, DestroyContext(t)
    PROVE  WakeOK'
<1>1. PICK c : c = Top(t).c
  OBVIOUS
<1>2. /\ At(t, "destroy") /\ UNCHANGED <<sess, siThread>> /\ Move(t, Return(t), {})
      /\ ctx' = [ctx EXCEPT ![c] = FreeCtx]
  BY <1>1 DEF DestroyContext
<1>3. /\ stack[t] # <<>> /\ Top(t) \in CallType /\ c \in Ctxs
      /\ ~Is(t, "set_busy") /\ ~Is(t, "ldelf") /\ ~Is(t, "relock")
  BY <1>1, <1>2, StartsAt, ContextOf
<1>4. ctx'[c] = FreeCtx /\ ~FreeCtx.live /\ \A d \in Ctxs \ {c} : ctx'[d] = ctx[d]
  BY <1>2, <1>3 DEF Inv, TypeOK, FreeCtx
<1>5. \A u \in Threads \ {t} : stack[u] # <<>> => Top(u).c # c
  <2> SUFFICES ASSUME NEW u \in Threads \ {t}, stack[u] # <<>>, Top(u).c = c PROVE FALSE
    OBVIOUS
  <2>1. Here(t) /\ Top(t).pc = "destroy" /\ Facts
    BY <1>2, HereIs, ResumeIs, InvFacts
  <2>2. PICK x, y : x = Place(t) /\ y = Place(u)
    OBVIOUS
  <2>3. x \in Frames /\ y \in Frames /\ Call[x] = Top(t) /\ Call[y].c = c /\ x # y
    BY <2>1, <2>2, NamesIs DEF Here, Place
  <2> QED
    BY <1>1, <1>3, <2>1, <2>3, DestroyedAlone
<1>6. ~Loading(c)
  <2> SUFFICES ASSUME Loading(c) PROVE FALSE
    OBVIOUS
  <2>1. PICK v \in Threads : Is(v, "ldelf") /\ Top(v).c = c
    BY <1>3 DEF WakeOK, LoadWake
  <2> QED
    BY <1>3, <1>5, <2>1 DEF Is
<1>7. TasKept(t) /\ BusyKept(t, {}) /\ SiKept(t, {})
  BY <1>2, <1>3, <1>4, <1>5, OtherContexts
<1>8. InitKept(t, {}) /\ LoadKept(t)
  BY <1>3, <1>4, <1>6 DEF InitKept, LoadKept, Loading
<1>9. LockKept(t, {}) /\ RefcKept(t, {})
  BY <1>2, <1>3, PlainSame, PlainSess
<1>10. Steps(t, {})
  BY <1>2, StepsQuiet
<1>11. SelfOK(t)'
  BY <1>2, <1>3, SelfRuns
<1> QED
  BY <1>7, <1>8, <1>9, <1>10, <1>11, WakeStep

-----------------------------------------------------------------------------
(* No wake-up is lost *)

\* Nobody waits at first.
LEMMA InitWakeOK == Init => WakeOK
BY DEF Init, WakeOK, SelfOK, BusyWake, SiWake, LockWake, RefcWake, InitWake, LoadWake, Loading, Is, FreeCtx

\* Every step of a thread keeps the wake-ups,
LEMMA StepWake ==
    ASSUME Inv, WakeOK, NEW t \in Threads, Step(t)
    PROVE  WakeOK'
<1>1. OpenSession(t) \/ OpenNoMemory(t) \/ FindAgain(t) \/ LoadTa(t) \/ LoadNoMemory(t)
      \/ Initialized(t) \/ LoadFails(t) \/ UndoOpen(t) => WakeOK'
  BY OpenSessionWake, NoMemoryWake, FindAgainWake, LoadTaWake, InitializedWake, LoadFailsWake, UndoOpenWake
<1>2. SetBusyConcurrent(t) \/ WaitSingleInstance(t) \/ RefuseBusy(t) \/ WaitBusy(t) \/ SetBusy(t) \/ ClearBusy(t)
      => WakeOK'
  BY SetBusyConcurrentWake, WaitSingleInstanceWake, RefuseBusyWake, WaitBusyWake, SetBusyWake, ClearBusyWake
<1>3. EnterTa(t) \/ TaReturns(t) \/ TaPanics(t) \/ LeaveTa(t) \/ ReleaseSession(t) \/ ReleaseState(t) => WakeOK'
  BY EnterTaWake, TaEndsWake, LeaveTaWake, ReleaseSessionWake
<1>4. GetSession(t) \/ Relock(t) \/ GotSession(t) \/ PutSession(t) \/ Unlink(t) \/ Unlinked(t)
      \/ DropContext(t) \/ DestroyContext(t) => WakeOK'
  BY GetSessionWake, RelockWake, GotSessionWake, PutSessionWake, UnlinkWake, UnlinkedWake,
     DropContextWake, DestroyContextWake
<1> QED
  BY <1>1, <1>2, <1>3, <1>4 DEF Step

\* and so does every step of the system.
LEMMA NextWake == Inv /\ WakeOK /\ [Next]_vars => WakeOK'
<1>1. ASSUME WakeOK, UNCHANGED vars PROVE WakeOK'
  BY <1>1, SameWake DEF vars
<1>2. ASSUME Inv, WakeOK, NEW t \in Threads, NormalWorldCalls(t) \/ TaCalls(t) \/ Step(t) PROVE WakeOK'
  BY <1>2, CallsWake, StepWake
<1> QED
  BY <1>1, <1>2 DEF Next, Panicked

\* What the invariant says of a waiting thread is what NoLostWakeup asks.
LEMMA WakeOKNoLost == WakeOK => NoLostWakeup
<1> SUFFICES ASSUME WakeOK, NEW t \in Threads, stack[t] # <<>>
             PROVE  LET f == Top(t)
                        SetsBusy(P(_)) == \E u \in Threads : /\ stack[u] # <<>>
                                                             /\ Top(u).pc = "set_busy" /\ P(Top(u).c)
                    IN  /\ f.pc = "wait_busy" => ctx[f.c].busy \/ SetsBusy(LAMBDA c : c = f.c)
                        /\ f.pc = "wait_si" => siThread # None \/ SetsBusy(NeedsSiLock)
                        /\ f.pc = "wait_lock" =>
                              /\ ~sess[f.s].unlink
                              /\ \/ sess[f.s].lock # None
                                 \/ \E u \in Threads : /\ stack[u] # <<>>
                                                       /\ Top(u).pc = "relock" /\ Top(u).s = f.s
                        /\ f.pc = "wait_refc" => sess[f.s].ref > 1
                        /\ f.pc = "wait_init" =>
                              \E c \in Ctxs : ctx[c].live /\ ctx[c].uuid = f.uuid /\ ctx[c].initializing
  BY DEF NoLostWakeup
<1>1. BusyWake(t) /\ SiWake(t) /\ LockWake(t) /\ RefcWake(t) /\ InitWake(t)
  BY DEF WakeOK, SelfOK
<1>2. Top(t).pc = "wait_busy" =>
         \/ ctx[Top(t).c].busy
         \/ \E u \in Threads : stack[u] # <<>> /\ Top(u).pc = "set_busy" /\ Top(u).c = Top(t).c
  BY <1>1 DEF BusyWake, Is
<1>3. Top(t).pc = "wait_si" =>
         \/ siThread # None
         \/ \E u \in Threads : stack[u] # <<>> /\ Top(u).pc = "set_busy" /\ NeedsSiLock(Top(u).c)
  BY <1>1 DEF SiWake, TakesSi, Is
<1>4. /\ Top(t).pc = "wait_lock" =>
            /\ ~sess[Top(t).s].unlink
            /\ \/ sess[Top(t).s].lock # None
               \/ \E u \in Threads : stack[u] # <<>> /\ Top(u).pc = "relock" /\ Top(u).s = Top(t).s
      /\ Top(t).pc = "wait_refc" => sess[Top(t).s].ref > 1
      /\ Top(t).pc = "wait_init" =>
            \E c \in Ctxs : ctx[c].live /\ ctx[c].uuid = Top(t).uuid /\ ctx[c].initializing
  BY <1>1 DEF LockWake, RefcWake, InitWake, Loading, Is
<1> QED
  BY <1>2, <1>3, <1>4

\* No thread sleeps on one of the five kinds of condition variables of the
\* manager while what it waits for is there and nobody is on the way to it:
\* condvar_signal() for one waiter is enough in tee_ta_clear_busy(),
\* unlock_single_instance(), tee_ta_put_session() and dec_session_ref_count().
THEOREM WakeupCorrect == Spec => []NoLostWakeup
<1>1. Spec => []WakeOK
  BY Invariant, InitWakeOK, NextWake, PTL DEF Spec
<1> QED
  BY <1>1, WakeOKNoLost, PTL

-----------------------------------------------------------------------------
(* The panic of tee_ta_set_busy() *)

\* A multi-instance TA has one session, whose lock its callers take: nobody
\* finds it busy.
LEMMA AloneAtTa ==
    ASSUME Inv, NEW p \in Frames, Call[p].pc = "set_busy", NEW x \in Frames, Call[x].busy,
           Call[x].c = Call[p].c, ~Has(Call[p].c, "SINGLE_INSTANCE")
    PROVE  FALSE
<1>1. Facts
  BY InvFacts
<1>2. PICK c : c = Call[p].c
  OBVIOUS
<1>3. /\ CallOK(Call[p]) /\ Call[p] \in CallType /\ Call[x] \in CallType /\ CallOK(Call[x])
      /\ c \in Ctxs /\ ctx[c].live
  <2>1. /\ CallOK(Call[p]) /\ Call[p] \in CallType /\ Call[x] \in CallType /\ CallOK(Call[x])
    BY <1>1 DEF Facts, StackOK, CallTypes
  <2>2. c # None /\ c \in Ctxs
    BY <1>2, <2>1 DEF CallOK, CallType
  <2> QED
    BY <1>1, <1>2, <2>1, <2>2 DEF Facts, CtxOK, CtxCalls, CtxCall
<1>4. /\ Uses(Call[p]) /\ ~Call[p].busy /\ Call[p].c = c
  BY <1>2, <1>3 DEF CallOK, CallType, InTa, Uses
<1>5. PICK s : s = Call[p].s
  OBVIOUS
<1>6. s \in SessionsOf(c)
  BY <1>1, <1>3, <1>4, <1>5, UsedSession, ConstantsAssumption DEF UseOK, SessionsOf
<1>7. /\ ctx[c].ref <= 1 /\ ctx[c].ref = Cardinality(SessionsOf(c)) + Cardinality(ClosesOf(c))
      /\ IsFiniteSet(SessionsOf(c)) /\ IsFiniteSet(ClosesOf(c))
  <2>1. InfoOK(c) /\ RefOK(c)
    BY <1>1, <1>3 DEF Facts, CtxOK, CtxInfo, CtxRefs
  <2>2. IsFiniteSet(SessionsOf(c)) /\ IsFiniteSet(ClosesOf(c))
    BY <1>1, FS_Subset, ConstantsAssumption DEF SessionsOf, ClosesOf, Facts
  <2> QED
    BY <1>2, <1>3, <2>1, <2>2 DEF InfoOK, RefOK
<1>8. /\ Cardinality(SessionsOf(c)) \in Nat \ {0} /\ Cardinality(ClosesOf(c)) \in Nat
  BY <1>6, <1>7, FS_EmptySet, FS_CardinalityType
<1>9. /\ Cardinality(SessionsOf(c)) = 1 /\ Cardinality(ClosesOf(c)) = 0
  BY <1>7, <1>8
<1>10. x \notin ClosesOf(c)
  BY <1>7, <1>9, FS_EmptySet
<1>11. Uses(Call[x]) /\ Call[x].pc # "relock" /\ Call[x].op # "cancel"
  <2>1. ~Closing(Call[x])
    BY <1>2, <1>10 DEF ClosesOf
  <2> QED
    BY <1>3, <2>1 DEF Closing, Uses, CallOK, CallType, InTa
<1>12. Call[x].s \in SessionsOf(c)
  BY <1>1, <1>2, <1>3, <1>11, UsedSession, ConstantsAssumption DEF UseOK, SessionsOf
<1>13. Call[x].s = s
  BY <1>6, <1>7, <1>9, <1>12, FS_Singleton
<1>14. x # p
  BY <1>4
<1>15. s # None
  BY <1>6, ConstantsAssumption DEF SessionsOf
<1>16. Compatible(Call[p], Call[x]) /\ Compatible(Call[x], Call[p])
  BY <1>1, <1>3, <1>14 DEF Facts, SessOK, AloneOK
<1>17. Call[p].op # "open" /\ Call[x].op # "open" /\ ~(Locks(Call[p]) /\ Locks(Call[x]))
  BY <1>5, <1>13, <1>15, <1>16 DEF Compatible
<1>18. Call[p].op # "cancel"
  BY <1>3 DEF CallOK
<1> QED
  BY <1>3, <1>4, <1>11, <1>17, <1>18 DEF Locks, CallType

LEMMA AloneInTa ==
    ASSUME Inv, NEW t \in Threads, At(t, "set_busy"), NEW x \in Frames, Call[x].busy, Call[x].c = Top(t).c,
           ~Has(Top(t).c, "SINGLE_INSTANCE")
    PROVE  FALSE
<1>1. Here(t) /\ Top(t).pc = "set_busy"
  BY HereIs, ResumeIs
<1> QED
  BY <1>1, AloneAtTa DEF Here

\* A thread that is refused a busy TA is in it.
LEMMA RefusedInside ==
    ASSUME Inv, NEW t \in Threads, RefuseBusy(t)
    PROVE  \E x \in Inside(Top(t).c) : x[1] = t
<1>1. PICK c : c = Top(t).c
  OBVIOUS
<1>2. /\ At(t, "set_busy") /\ ~Has(c, "CONCURRENT") /\ SiLockFree(t, c) /\ HasSiLock(t, c) /\ ctx[c].busy
  BY <1>1 DEF RefuseBusy
<1>3. c \in Ctxs /\ ctx[c].live /\ Facts
  BY <1>1, <1>2, ContextOf, InvFacts
<1>4. PICK x \in Frames : Call[x].busy /\ Call[x].c = c
  BY <1>2, <1>3 DEF Facts, BusyOK
<1>5. x \in Inside(c)
  BY <1>4, InsideIs
<1>6. CASE NeedsSiLock(c)
  <2>1. siThread # None /\ x[1] = siThread
    BY <1>2, <1>3, <1>4, <1>6, BusyHeld DEF TakesSi
  <2>2. siThread \in {None, t}
    BY <1>2, <1>6 DEF SiLockFree
  <2> QED
    BY <1>1, <1>5, <2>1, <2>2
<1>7. CASE ~NeedsSiLock(c)
  <2>1. siThread = t /\ t # None
    BY <1>2, <1>7, ConstantsAssumption DEF HasSiLock
  <2>2. SiCalls # {}
    BY <1>3, <2>1, FS_EmptySet DEF Facts, SiOK
  <2>3. ~ConcurrentSI
    BY <2>2 DEF SiCalls, SiCall, NeedsSiLock
  <2>4. ~Has(c, "SINGLE_INSTANCE")
    BY <1>7, <2>3 DEF NeedsSiLock
  <2> QED
    BY <1>1, <1>2, <1>4, <2>4, AloneInTa
<1> QED
  BY <1>6, <1>7

\* Only tee_ta_set_busy() panics.
LEMMA OnlySetBusyPanics ==
    ASSUME NEW t \in Threads, NormalWorldCalls(t) \/ TaCalls(t) \/ Step(t)
    PROVE  ~dead /\ (UNCHANGED dead \/ (RefuseBusy(t) /\ UNCHANGED <<stack, ctx>>))
<1>1. NormalWorldCalls(t) \/ TaCalls(t) => ~dead /\ UNCHANGED dead
  BY DEF NormalWorldCalls, TaCalls, At, Runs
<1>2. OpenSession(t) \/ OpenNoMemory(t) \/ FindAgain(t) \/ LoadTa(t) \/ LoadNoMemory(t)
      \/ Initialized(t) \/ LoadFails(t) \/ UndoOpen(t) => ~dead /\ UNCHANGED dead
  BY DEF OpenSession, OpenNoMemory, FindAgain, LoadTa, LoadNoMemory, Initialized, LoadFails, UndoOpen, At, Runs
<1>3. SetBusyConcurrent(t) \/ WaitSingleInstance(t) \/ WaitBusy(t) \/ SetBusy(t) \/ ClearBusy(t)
      => ~dead /\ UNCHANGED dead
  BY DEF SetBusyConcurrent, WaitSingleInstance, WaitBusy, SetBusy, ClearBusy, At, Runs
<1>4. EnterTa(t) \/ TaReturns(t) \/ TaPanics(t) \/ LeaveTa(t) \/ ReleaseSession(t) \/ ReleaseState(t)
      => ~dead /\ UNCHANGED dead
  BY DEF EnterTa, TaReturns, TaPanics, LeaveTa, ReleaseSession, ReleaseState, At, Runs
<1>5. GetSession(t) \/ Relock(t) \/ GotSession(t) \/ PutSession(t) \/ Unlink(t) \/ Unlinked(t)
      \/ DropContext(t) \/ DestroyContext(t) => ~dead /\ UNCHANGED dead
  BY DEF GetSession, Relock, GotSession, PutSession, Unlink, Unlinked, DropContext, DestroyContext, At, Runs
<1>6. RefuseBusy(t) => ~dead /\ (UNCHANGED dead \/ UNCHANGED <<stack, ctx>>)
  BY DEF RefuseBusy, Refused, At, Runs
<1> QED
  BY <1>1, <1>2, <1>3, <1>4, <1>5, <1>6 DEF Step

\* Every step keeps the reason of the panic.
LEMMA NextPanic == Inv /\ PanicOnlyOnReentry /\ [Next]_vars => PanicOnlyOnReentry'
<1>1. ASSUME PanicOnlyOnReentry, UNCHANGED vars PROVE PanicOnlyOnReentry'
  BY <1>1 DEF vars, PanicOnlyOnReentry, Inside, Frames, F, Top
<1>2. ASSUME Inv, NEW t \in Threads, NormalWorldCalls(t) \/ TaCalls(t) \/ Step(t)
      PROVE  PanicOnlyOnReentry'
  <2>1. ~dead /\ (UNCHANGED dead \/ (RefuseBusy(t) /\ UNCHANGED <<stack, ctx>>))
    BY <1>2, OnlySetBusyPanics
  <2>2. CASE UNCHANGED dead
    BY <2>1, <2>2 DEF PanicOnlyOnReentry
  <2>3. CASE RefuseBusy(t) /\ UNCHANGED stack
    <3>1. stack[t] # <<>> /\ Top(t).pc = "set_busy"
      BY <2>3 DEF RefuseBusy, At, Runs
    <3>2. \E x \in Inside(Top(t).c) : x[1] = t
      BY <1>2, <2>3, RefusedInside
    <3>3. Inside(Top(t).c)' = Inside(Top(t).c) /\ Top(t)' = Top(t) /\ stack' = stack
      BY <2>3 DEF Inside, Frames, F, Top
    <3> QED
      BY <3>1, <3>2, <3>3 DEF PanicOnlyOnReentry
  <2> QED
    BY <2>1, <2>2, <2>3
<1> QED
  BY <1>1, <1>2 DEF Next, Panicked

\* The panic() of tee_ta_set_busy() is a call back into a TA that the thread is
\* already in: however calls of other threads interleave, a thread that holds
\* the single-instance lock never finds a TA busy that somebody else is in.
THEOREM PanicCorrect == Spec => []PanicOnlyOnReentry
<1>1. Init => PanicOnlyOnReentry
  BY DEF Init, PanicOnlyOnReentry
<1> QED
  BY <1>1, Invariant, NextPanic, PTL DEF Spec

-----------------------------------------------------------------------------
(* Threads that wait for each other *)

\* The lock of a session is held by a call of that thread, a session is marked
\* before its close waits for the others, and no thread waits for the
\* single-instance lock that it holds.
LockHeld ==
    \A s \in Sessions : sess[s].live /\ sess[s].lock # None =>
        \E x \in Frames : x[1] = sess[s].lock /\ Call[x].s = s /\ Locks(Call[x])
UnlinkMarked == \A x \in Frames : Call[x].pc = "unlinked" => sess[Call[x].s].unlink
SiOther == \A u \in Threads : Is(u, "wait_si") => siThread # u
CycleOK == LockHeld /\ UnlinkMarked /\ SiOther

\* A call that is not the innermost one made another: it runs in its TA, or
\* closes its sessions.
LEMMA CallerOf ==
    ASSUME Inv, NEW x \in Frames, Call[x].owner # None
    PROVE  \E z \in Frames : /\ z = <<x[1], x[2] - 1>> /\ Calls(Call[z], Call[x])
                             /\ Call[z].c = Call[x].owner
<1>1. Facts
  BY InvFacts
<1>2. x = <<x[1], x[2]>> /\ x[1] \in Threads /\ x[2] \in Nat \ {0} /\ x[2] <= Len(stack[x[1]])
      /\ Len(stack[x[1]]) \in Nat
  BY <1>1, FramePairs DEF Facts, Stacks
<1>3. x[2] # 1
  BY <1>1 DEF Facts, StackOK
<1>4. PICK z : z = <<x[1], x[2] - 1>>
  OBVIOUS
<1>5. z \in Frames
  BY <1>1, <1>2, <1>3, <1>4, FramesIs DEF Facts, FramesAre
<1>6. Calls(Call[z], Call[x])
  BY <1>1, <1>3, <1>4 DEF Facts, StackOK
<1> QED
  BY <1>4, <1>5, <1>6 DEF Calls

LEMMA InnerOrCaller ==
    ASSUME Inv, NEW x \in Frames
    PROVE  x = Place(x[1]) \/ Call[x].pc \in {"body", "release", "destroy"}
<1>1. Facts
  BY InvFacts
<1>2. x = <<x[1], x[2]>> /\ x[1] \in Threads /\ x[2] \in Nat \ {0} /\ x[2] <= Len(stack[x[1]])
      /\ Len(stack[x[1]]) \in Nat
  BY <1>1, FramePairs DEF Facts, Stacks
<1>3. CASE x[2] = Len(stack[x[1]])
  BY <1>2, <1>3 DEF Place
<1>4. CASE x[2] < Len(stack[x[1]])
  <2>1. PICK y : y = <<x[1], x[2] + 1>>
    OBVIOUS
  <2>2. y \in Frames /\ y[2] # 1 /\ x = <<y[1], y[2] - 1>>
    BY <1>1, <1>2, <1>4, <2>1, FramesIs DEF Facts, FramesAre
  <2>3. Calls(Call[x], Call[y])
    BY <1>1, <2>2 DEF Facts, StackOK
  <2> QED
    BY <2>3 DEF Calls
<1> QED
  BY <1>2, <1>3, <1>4

\* The calls that an instance of a TA makes have one caller.
LEMMA OneCaller ==
    ASSUME Inv, NEW x \in Frames, NEW y \in Frames, Calls(Call[x], Call[y]),
           NEW z \in Frames, NEW w \in Frames, Calls(Call[z], Call[w]), Call[x].c = Call[z].c
    PROVE  x = z
<1>1. Facts
  BY InvFacts
<1>2. PICK c : c = Call[x].c
  OBVIOUS
<1>3. /\ Call[x].c = c /\ Call[z].c = c /\ c # None
      /\ Call[x].pc \in {"body", "release", "destroy"} /\ Call[z].pc \in {"body", "release", "destroy"}
  BY <1>2 DEF Calls
<1>4. c \in Ctxs /\ ctx[c].live
  BY <1>1, <1>3 DEF Facts, CtxNamed, CtxOK, CtxCalls, CtxCall
<1>5. CASE Call[x].pc = "destroy" /\ Call[z].pc = "destroy"
  BY <1>1, <1>3, <1>5 DEF Facts, CtxOK, DestroyOK
<1>6. \A v \in {x, z} : Call[v].pc \in {"body", "release"} => Uses(Call[v]) /\ Call[v].busy
  BY <1>1 DEF Uses, Facts, StackOK, CallOK, InTa
<1>7. ASSUME NEW u \in {x, z}, NEW v \in {x, z}, Call[u].pc = "destroy", Call[v].pc \in {"body", "release"}
      PROVE  FALSE
  BY <1>1, <1>3, <1>4, <1>6, <1>7, UsedContext DEF Facts, CtxOK, DestroyOK
<1>8. CASE Call[x].pc \in {"body", "release"} /\ Call[z].pc \in {"body", "release"}
  <2>1. ctx[c].uuid \notin Pseudo
    <3>1. CASE Call[x].pc = "release"
      BY <1>1, <1>3, <1>4, <3>1 DEF Facts, CtxOK, CtxCalls, CtxCall, CtxInfo, InfoOK
    <3>2. CASE Call[x].pc = "body"
      BY <1>3, <3>2, FlagsAssumption DEF Calls
    <3> QED
      BY <1>8, <3>1, <3>2
  <2>2. ctx[c].uuid \in Uuids
    BY <1>1, <1>4 DEF Facts, CtxOK, CtxInfo, InfoOK
  <2>3. ~Has(c, "CONCURRENT")
    BY <2>1, <2>2, FlagsAssumption DEF Has
  <2> QED
    BY <1>1, <1>3, <1>6, <1>8, <2>3 DEF Facts, BusyOK
<1> QED
  BY <1>3, <1>5, <1>7, <1>8

\* A thread that waits for a session which another call has locked is in no
\* other call: the sessions of a TA have one caller.
LEMMA LockWaiter ==
    ASSUME Inv, LockHeld, NEW t \in Threads, Is(t, "wait_lock"), sess[Top(t).s].lock # None
    PROVE  /\ \A x \in Frames : x[1] = t => x = Place(t)
           /\ \E z \in Frames : z[1] = sess[Top(t).s].lock /\ Locks(Call[z])
<1>1. Facts
  BY InvFacts
<1>2. PICK p, s : p = Place(t) /\ s = Top(t).s
  OBVIOUS
<1>3. /\ stack[t] # <<>> /\ p \in Frames /\ p[1] = t /\ p[2] = Len(stack[t])
      /\ Call[p].s = s /\ Call[p].pc = "relock" /\ Uses(Call[p]) /\ s \in Sessions
      /\ stack[t] \in Seq(CallType)
  <2>1. stack[t] # <<>> /\ Top(t).pc = "wait_lock"
    BY DEF Is
  <2>2. Call[p] = Norm(Top(t)) /\ Top(t) \in CallType
    BY <1>1, <1>2, <2>1, TopIs DEF Facts
  <2>3. Call[p].pc = "relock" /\ Call[p].s = s
    BY <1>2, <2>1, <2>2, NormIs, ResumeIs
  <2> QED
    BY <1>1, <1>2, <2>1, <2>3, NamesIs DEF Place, Facts, Stacks
<1>4. sess[s].live /\ sess[s].owner = Call[p].owner /\ s # None
  BY <1>1, <1>3, UsedSession DEF UseOK, Facts
<1>5. PICK z \in Frames : z[1] = sess[s].lock /\ Call[z].s = s /\ Locks(Call[z])
  BY <1>2, <1>3, <1>4 DEF LockHeld
<1>6. sess[s].owner = Call[z].owner /\ z # p
  BY <1>1, <1>3, <1>4, <1>5 DEF Facts, SessOK, UsesOK, UseOK, Locks
<1>7. Call[p].owner = None
  <2> SUFFICES ASSUME Call[p].owner # None PROVE FALSE
    OBVIOUS
  <2>1. PICK x \in Frames : /\ x = <<p[1], p[2] - 1>> /\ Calls(Call[x], Call[p])
                            /\ Call[x].c = Call[p].owner
    BY <1>3, CallerOf
  <2>2. PICK y \in Frames : /\ y = <<z[1], z[2] - 1>> /\ Calls(Call[y], Call[z])
                            /\ Call[y].c = Call[z].owner
    BY <1>4, <1>6, CallerOf
  <2>3. x = y
    BY <1>3, <1>4, <1>6, <2>1, <2>2, OneCaller
  <2>4. p = <<p[1], p[2]>> /\ z = <<z[1], z[2]>> /\ p[2] \in Nat /\ z[2] \in Nat
    BY <1>1, <1>3, FramePairs DEF Facts
  <2>5. p[1] = z[1] /\ p[2] - 1 = z[2] - 1
    BY <2>1, <2>2, <2>3
  <2> QED
    BY <1>6, <2>4, <2>5
<1>8. p[2] = 1
  <2>1. p[2] # 1 => Calls(Call[<<p[1], p[2] - 1>>], Call[p])
    BY <1>1, <1>3 DEF Facts, StackOK
  <2> QED
    BY <1>7, <2>1 DEF Calls
<1>9. ASSUME NEW x \in Frames, x[1] = t PROVE x = p
  <2>1. x = <<x[1], x[2]>> /\ x[2] \in Nat \ {0} /\ x[2] <= Len(stack[t])
    BY <1>1, <1>9, FramePairs DEF Facts
  <2>2. p = <<p[1], p[2]>>
    BY <1>1, <1>3, FramePairs DEF Facts
  <2> QED
    BY <1>3, <1>8, <1>9, <2>1, <2>2
<1> QED
  BY <1>2, <1>5, <1>9

\* A thread that waits for a busy TA: it does not take the single-instance
\* lock, so that it is a multi-instance TA, which nobody else is in.
LEMMA NobodyInside ==
    ASSUME Inv, WakeOK, ~ConcurrentSI, NEW t \in Threads, Is(t, "wait_busy")
    PROVE  Inside(Top(t).c) = {}
<1>1. stack[t] # <<>> /\ Top(t).pc = "wait_busy" /\ ~NeedsSiLock(Top(t).c)
  BY DEF Is, WakeOK, SelfOK, BusyWake
<1>2. ~Has(Top(t).c, "SINGLE_INSTANCE")
  BY <1>1 DEF NeedsSiLock
<1>3. /\ Place(t) \in Frames /\ Call[Place(t)] = Norm(Top(t)) /\ Top(t) \in CallType
  BY <1>1, InvFacts, TopIs DEF Facts
<1>4. Call[Place(t)].pc = "set_busy" /\ Call[Place(t)].c = Top(t).c
  BY <1>1, <1>3, NormIs, ResumeIs
<1>5. \A x \in Frames : ~(Call[x].busy /\ Call[x].c = Top(t).c)
  BY <1>2, <1>3, <1>4, AloneAtTa
<1> QED
  BY <1>5, InsideIs

\* A thread that loads a TA waits for nobody.
LEMMA LoaderRuns ==
    ASSUME Inv, NEW y \in Frames, F(y).pc = "ldelf"
    PROVE  WaitsOn(y[1]) = {}
<1>1. Call[y].pc = "ldelf"
  BY CallFields, ResumeIs
<1>2. y = Place(y[1]) /\ y[1] \in Threads /\ stack[y[1]] # <<>>
  BY <1>1, InnerOrCaller, FramePairs, InvFacts DEF Facts
<1>3. Top(y[1]).pc = "ldelf"
  BY <1>2, InvFacts, TopIs DEF Facts
<1> QED
  BY <1>3 DEF WaitsOn

\* The other users of a session that is being closed wait for nobody.
LEMMA UserRuns ==
    ASSUME Inv, WakeOK, UnlinkMarked, NEW t \in Threads, Is(t, "wait_refc"),
           NEW y \in Frames, HoldsRef(y, Top(t).s), y[1] # t
    PROVE  WaitsOn(y[1]) = {}
<1>1. Facts
  BY InvFacts
<1>2. PICK p, s : p = Place(t) /\ s = Top(t).s
  OBVIOUS
<1>3. /\ stack[t] # <<>> /\ p \in Frames /\ p[1] = t /\ Call[p].s = s /\ Call[p].pc = "unlinked"
      /\ Call[p].op = "close" /\ s \in Sessions
  <2>1. stack[t] # <<>> /\ Top(t).pc = "wait_refc"
    BY DEF Is
  <2>2. Call[p] = Norm(Top(t)) /\ Top(t) \in CallType
    BY <1>1, <1>2, <2>1, TopIs DEF Facts
  <2>3. Call[p].pc = "unlinked" /\ Call[p].s = s
    BY <1>2, <2>1, <2>2, NormIs, ResumeIs
  <2> QED
    BY <1>2, <2>1, <2>3, NamesIs DEF Place
<1>4. sess[s].unlink
  BY <1>3 DEF UnlinkMarked
<1>5. /\ F(y).s = s /\ F(y).pc \notin {"get", "drop", "destroy"} /\ ~(F(y).op = "close" /\ F(y).pc = "clear")
  BY <1>2 DEF HoldsRef
<1>6. Call[y].s = s /\ Call[y].op = F(y).op /\ s # None
      /\ Call[y].pc = IF F(y).pc \in DOMAIN Resume THEN Resume[F(y).pc] ELSE F(y).pc
  BY <1>1, <1>3, <1>5, CallFields DEF Facts
<1>7. Uses(Call[y])
  <2>1. Call[y].pc # "open"
    BY <1>1, <1>6 DEF Facts, StackOK, CallOK
  <2> QED
    BY <1>5, <1>6, <2>1, ResumeIs DEF Uses
<1>8. /\ Compatible(Call[p], Call[y]) /\ Compatible(Call[y], Call[p])
  BY <1>1, <1>3 DEF Facts, SessOK, AloneOK
<1>9. Locks(Call[p])
  BY <1>3 DEF Locks, Uses
<1>10. Call[y].op \notin {"open", "close"} /\ ~Locks(Call[y])
  BY <1>3, <1>6, <1>8, <1>9 DEF Compatible
<1>11. Call[y].pc \in {"put", "relock"}
  <2>1. Call[y] \in CallType /\ CallOK(Call[y])
    BY <1>1 DEF Facts, CallTypes, StackOK
  <2>2. CASE Call[y].op = "cancel"
    BY <1>7, <2>1, <2>2 DEF CallOK, Uses
  <2>3. CASE Call[y].op = "invoke"
    BY <1>7, <1>10, <2>3 DEF Locks
  <2> QED
    BY <1>10, <2>1, <2>2, <2>3 DEF CallType
<1>12. y = Place(y[1]) /\ y[1] \in Threads /\ stack[y[1]] # <<>>
  BY <1>1, <1>11, InnerOrCaller, FramePairs DEF Facts
<1>13. Top(y[1]) = F(y)
  BY <1>1, <1>12, TopIs DEF Facts
<1>14. F(y).pc \in {"put", "relock", "wait_lock"}
  <2>1. F(y) \in CallType
    BY CallFields
  <2> QED
    BY <1>6, <1>11, <2>1, ResumeIs DEF CallType, Labels
<1>15. F(y).pc # "wait_lock"
  <2>1. LockWake(y[1])
    BY <1>12 DEF WakeOK, SelfOK
  <2> QED
    BY <1>4, <1>5, <1>12, <1>13, <2>1 DEF LockWake, Is
<1> QED
  BY <1>13, <1>14, <1>15 DEF WaitsOn

\* The thread with the single-instance lock has made a call it counts.
LEMMA SiHolder ==
    ASSUME Inv, siThread # None
    PROVE  \E x \in Frames : x[1] = siThread /\ Call[x].busy
<1>1. SiOK /\ IsFiniteSet(Frames)
  BY InvFacts DEF Facts
<1>2. siCount # 0 /\ siCount = Cardinality(SiCalls)
  BY <1>1 DEF SiOK
<1>3. SiCalls # {}
  BY <1>2, FS_EmptySet
<1> QED
  BY <1>1, <1>3 DEF SiOK, SiCalls, SiCall

\* No set of threads is left in which each waits for another.
LEMMA NoCycle ==
    ASSUME Inv, WakeOK, CycleOK, ~ConcurrentSI
    PROVE  NoWaitCycle
<1> SUFFICES ASSUME NEW S \in SUBSET Threads, S # {},
                    \A t \in S : stack[t] # <<>> /\ WaitsOn(t) \cap S # {}
             PROVE  FALSE
  BY DEF NoWaitCycle
<1>1. \A t \in S : t \in Threads /\ \A pc : Is(t, pc) <=> Top(t).pc = pc
  BY DEF Is
<1>2. \A t \in S : Top(t).pc \in {"wait_busy", "wait_si", "wait_lock", "wait_refc", "wait_init"}
  <2>1. ASSUME NEW t \in S,
               Top(t).pc \notin {"wait_busy", "wait_si", "wait_lock", "wait_refc", "wait_init"}
        PROVE  WaitsOn(t) = {}
    BY <2>1 DEF WaitsOn
  <2> QED
    BY <2>1
<1>3. ASSUME NEW t \in S, Top(t).pc = "wait_busy" PROVE FALSE
  <2>1. WaitsOn(t) = {x[1] : x \in Inside(Top(t).c)}
    BY <1>3 DEF WaitsOn
  <2>2. Inside(Top(t).c) = {}
    BY <1>1, <1>3, NobodyInside
  <2> QED
    BY <2>1, <2>2
<1>4. ASSUME NEW t \in S, Top(t).pc = "wait_init" PROVE FALSE
  <2>1. WaitsOn(t) = {x[1] : x \in {y \in Frames : F(y).pc = "ldelf"}}
    BY <1>4 DEF WaitsOn
  <2>2. PICK y \in Frames : F(y).pc = "ldelf" /\ y[1] \in S
    BY <2>1
  <2> QED
    BY <2>2, LoaderRuns
<1>5. ASSUME NEW t \in S, Top(t).pc = "wait_refc" PROVE FALSE
  <2>1. WaitsOn(t) = {x[1] : x \in {y \in Frames : HoldsRef(y, Top(t).s)}} \ {t}
    BY <1>5 DEF WaitsOn
  <2>2. PICK y \in Frames : HoldsRef(y, Top(t).s) /\ y[1] \in S /\ y[1] # t
    BY <2>1
  <2> QED
    BY <1>1, <1>5, <2>2, UserRuns DEF CycleOK
<1>6. ASSUME NEW t \in S, Top(t).pc = "wait_lock"
      PROVE  /\ sess[Top(t).s].lock \in S
             /\ \A x \in Frames : x[1] = t => x = Place(t)
             /\ \E z \in Frames : z[1] = sess[Top(t).s].lock /\ Locks(Call[z])
             /\ Call[Place(t)].pc = "relock" /\ ~Call[Place(t)].busy
  <2>1. WaitsOn(t) = {sess[Top(t).s].lock}
    BY <1>6 DEF WaitsOn
  <2>2. sess[Top(t).s].lock \in S /\ sess[Top(t).s].lock # None
    BY <2>1, ConstantsAssumption
  <2>3. Call[Place(t)] = Norm(Top(t)) /\ Top(t) \in CallType /\ Place(t) \in Frames
    BY InvFacts, TopIs DEF Facts
  <2>4. Call[Place(t)].pc = "relock"
    BY <1>6, <2>3, NormIs, ResumeIs
  <2>5. ~Call[Place(t)].busy
    BY <2>3, <2>4, InvFacts DEF Facts, StackOK, CallOK, InTa
  <2> QED
    BY <1>1, <1>6, <2>2, <2>4, <2>5, LockWaiter DEF CycleOK
<1>7. ASSUME NEW t \in S, Top(t).pc = "wait_si" PROVE FALSE
  <2>1. WaitsOn(t) = {siThread}
    BY <1>7 DEF WaitsOn
  <2>2. siThread \in S /\ siThread # None
    BY <2>1, ConstantsAssumption
  <2>3. Top(siThread).pc # "wait_si"
    BY <1>1, <2>2 DEF CycleOK, SiOther
  <2>4. Top(siThread).pc = "wait_lock"
    BY <1>2, <1>3, <1>4, <1>5, <2>2, <2>3
  <2> QED
    BY <1>6, <2>2, <2>4, SiHolder
<1>8. \A t \in S : Top(t).pc = "wait_lock"
  BY <1>2, <1>3, <1>4, <1>5, <1>7
<1>9. PICK t \in S : TRUE
  OBVIOUS
<1>10. PICK v \in S : \E z \in Frames : z[1] = v /\ Locks(Call[z])
  BY <1>6, <1>8, <1>9
<1> QED
  BY <1>6, <1>8, <1>10 DEF Locks

\* What a step of thread t does to the locks of sessions, and to the
\* single-instance lock.
SessLaw(t) ==
    \A s \in Sessions : sess'[s].live =>
        /\ sess'[s].lock \in {None, t} \/ (sess[s].live /\ sess'[s].lock = sess[s].lock)
        /\ sess[s].live /\ sess[s].unlink => sess'[s].unlink
SiLaw(t) == siThread' \in {siThread, t, None}

\* The sessions that t has locked after a step, when it loses call g or gets
\* call f in its place.
Gave(t, s, g) == sess[s].live /\ sess[s].lock = t /\ ~(Locks(g) /\ g.s = s)
Took(s, f) == Locks(f) /\ f.s = s

\* A session is there while its close waits.
UnlinkedLive == \A x \in Frames : Call[x].pc = "unlinked" => sess[Call[x].s].live
LEMMA UnlinkedUses == Inv => UnlinkedLive
<1> SUFFICES ASSUME Inv, NEW x \in Frames, Call[x].pc = "unlinked" PROVE sess[Call[x].s].live
  BY DEF UnlinkedLive
<1>1. Uses(Call[x])
  BY DEF Uses
<1> QED
  BY <1>1, InvFacts, UsedSession

\* A step that changes, adds or takes away call x of thread t.
LEMMA CycleStep ==
    ASSUME Inv, Inv', CycleOK, NEW t \in Threads, NEW W, \A u \in W : Asleep(u), Others(t, W),
           SessLaw(t), SiLaw(t), NEW x, x[1] = t,
           \A y \in Frames : y # x => y \in Frames' /\ Call'[y] = Call[y],
           Frames' \subseteq Frames \cup {x},
           x \in Frames' /\ Call'[x].pc = "unlinked" => sess'[Call'[x].s].unlink,
           Is(t, "wait_si")' => siThread' # t,
           \A s \in Sessions : sess'[s].live /\ sess'[s].lock = t =>
               \/ sess[s].live /\ sess[s].lock = t /\ ~(x \in Frames /\ Locks(Call[x]) /\ Call[x].s = s)
               \/ x \in Frames' /\ Took(s, Call'[x])
    PROVE  CycleOK'
<1>1. LockHeld'
  <2> SUFFICES ASSUME NEW s \in Sessions, sess'[s].live, sess'[s].lock # None
               PROVE  \E z \in Frames' : z[1] = sess'[s].lock /\ Call'[z].s = s /\ Locks(Call'[z])
    BY DEF LockHeld, Locks, Uses
  <2>1. CASE sess'[s].lock = t /\ x \in Frames' /\ Took(s, Call'[x])
    BY <2>1 DEF Took
  <2>2. CASE /\ sess[s].live /\ sess'[s].lock = sess[s].lock
             /\ sess[s].lock = t => ~(x \in Frames /\ Locks(Call[x]) /\ Call[x].s = s)
    <3>1. PICK z \in Frames : z[1] = sess[s].lock /\ Call[z].s = s /\ Locks(Call[z])
      BY <2>2 DEF CycleOK, LockHeld
    <3>2. z # x
      BY <2>2, <3>1
    <3> QED
      BY <2>2, <3>1, <3>2
  <2> QED
    BY <2>1, <2>2 DEF SessLaw
<1>2. UnlinkMarked'
  <2> SUFFICES ASSUME NEW y \in Frames', Call'[y].pc = "unlinked", y # x
               PROVE  sess'[Call'[y].s].unlink
    BY DEF UnlinkMarked
  <2>1. y \in Frames /\ Call'[y] = Call[y]
    OBVIOUS
  <2>2. PICK s : s = Call[y].s
    OBVIOUS
  <2>3. sess[s].unlink
    BY <2>1, <2>2 DEF CycleOK, UnlinkMarked
  <2>4. s \in Sessions /\ sess[s].live
    <3>1. Uses(Call[y])
      BY <2>1 DEF Uses
    <3> QED
      BY <2>1, <2>2, <3>1, InvFacts, UsedSession
  <2>5. sess'[s].live
    <3>1. UnlinkedLive'
      BY UnlinkedUses, PTL
    <3> QED
      BY <2>1, <2>2, <3>1 DEF UnlinkedLive
  <2> QED
    BY <2>1, <2>2, <2>3, <2>4, <2>5 DEF SessLaw
<1>3. SiOther'
  <2> SUFFICES ASSUME NEW u \in Threads, u # t, Is(u, "wait_si")'
               PROVE  siThread' # u
    BY DEF SiOther
  <2>1. Is(u, "wait_si")
    BY OthersAre, ResumeIs
  <2> QED
    BY <2>1, ConstantsAssumption DEF CycleOK, SiOther, SiLaw
<1> QED
  BY <1>1, <1>2, <1>3 DEF CycleOK

\* The calls that have locked their session.
LEMMA LocksIs ==
    ASSUME NEW f \in CallType
    PROVE  /\ Locks(Norm(f)) <=> /\ f.op \in {"invoke", "close"}
                                 /\ f.pc \notin {"open", "get", "drop", "destroy", "relock", "wait_lock"}
                                 /\ ~(f.op = "close" /\ f.pc = "clear")
           /\ Norm(f).s = f.s
           /\ Norm(f).pc = "unlinked" => f.pc \in {"unlinked", "wait_refc"}
<1>1. /\ Norm(f).op = f.op /\ Norm(f).s = f.s
      /\ Norm(f).pc = IF f.pc \in DOMAIN Resume THEN Resume[f.pc] ELSE f.pc
  BY NormIs
<1>2. /\ Norm(f).pc \in {"open", "get", "drop", "destroy"} <=> f.pc \in {"open", "get", "drop", "destroy"}
      /\ Norm(f).pc = "relock" <=> f.pc \in {"relock", "wait_lock"}
      /\ Norm(f).pc = "clear" <=> f.pc = "clear"
      /\ Norm(f).pc = "unlinked" => f.pc \in {"unlinked", "wait_refc"}
  BY <1>1, ResumeIs
<1> QED
  BY <1>1, <1>2 DEF Locks, Uses

\* The innermost call changes,
LEMMA CycleWith ==
    ASSUME Inv, Inv', CycleOK, NEW t \in Threads, stack[t] # <<>>, NEW W, \A u \in W : Asleep(u),
           NEW f \in CallType, Move(t, With(t, f), W), SessLaw(t), SiLaw(t),
           f.pc \in {"unlinked", "wait_refc"} => sess'[f.s].unlink,
           f.pc = "wait_si" => siThread' # t,
           \A s \in Sessions : sess'[s].live /\ sess'[s].lock = t =>
               Gave(t, s, Norm(Top(t))) \/ Took(s, Norm(f))
    PROVE  CycleOK'
<1>1. stack \in Stacks /\ Place(t) \in Frames /\ Call[Place(t)] = Norm(Top(t)) /\ Place(t)[1] = t
  BY InvFacts, TopIs DEF Facts, Place
<1>2. Changed(Place(t), Norm(f))
  BY <1>1, WithChanges
<1>3. Others(t, W) /\ Top(t)' = f
  BY OthersMove, SelfWith
<1>4. Is(t, "wait_si")' => siThread' # t
  BY <1>3 DEF Is
<1>5. PICK x : x = Place(t)
  OBVIOUS
<1>6. /\ Frames' = Frames /\ x \in Frames /\ Call'[x] = Norm(f) /\ Call[x] = Norm(Top(t))
      /\ \A y \in Frames : y # x => Call'[y] = Call[y]
  BY <1>1, <1>2, <1>5 DEF Changed
<1>7. Call'[x].pc = "unlinked" => sess'[Call'[x].s].unlink
  BY <1>6, LocksIs
<1>8. \A s \in Sessions : sess'[s].live /\ sess'[s].lock = t =>
         \/ sess[s].live /\ sess[s].lock = t /\ ~(x \in Frames /\ Locks(Call[x]) /\ Call[x].s = s)
         \/ x \in Frames' /\ Took(s, Call'[x])
  BY <1>6 DEF Gave
<1> QED
  BY <1>1, <1>3, <1>4, <1>5, <1>6, <1>7, <1>8, CycleStep

\* returns,
LEMMA CycleReturn ==
    ASSUME Inv, Inv', CycleOK, NEW t \in Threads, stack[t] # <<>>, NEW W, \A u \in W : Asleep(u),
           Move(t, Return(t), W), SessLaw(t), SiLaw(t),
           \A s \in Sessions : sess'[s].live /\ sess'[s].lock = t => Gave(t, s, Norm(Top(t)))
    PROVE  CycleOK'
<1>1. stack \in Stacks /\ Place(t) \in Frames /\ Call[Place(t)] = Norm(Top(t)) /\ Place(t)[1] = t
  BY InvFacts, TopIs DEF Facts, Place
<1>2. Popped(Place(t))
  BY <1>1, ReturnPops
<1>3. Others(t, W)
  BY OthersMove
<1>4. ~Is(t, "wait_si")'
  BY SelfReturn DEF Is
<1>5. PICK x : x = Place(t)
  OBVIOUS
<1>6. /\ Frames' = Frames \ {x} /\ x \in Frames /\ Call[x] = Norm(Top(t))
      /\ \A y \in Frames : y # x => Call'[y] = Call[y]
  BY <1>1, <1>2, <1>5 DEF Popped
<1>7. \A s \in Sessions : sess'[s].live /\ sess'[s].lock = t =>
         sess[s].live /\ sess[s].lock = t /\ ~(x \in Frames /\ Locks(Call[x]) /\ Call[x].s = s)
  BY <1>6 DEF Gave
<1> QED
  BY <1>1, <1>3, <1>4, <1>5, <1>6, <1>7, CycleStep

\* or makes a call.
LEMMA CycleCall ==
    ASSUME Inv, Inv', CycleOK, NEW t \in Threads, NEW f \in CallType, f.pc \in {"open", "get"},
           Move(t, Append(stack[t], f), {}), SessLaw(t), SiLaw(t),
           \A s \in Sessions : sess'[s].live /\ sess'[s].lock = t => sess[s].live /\ sess[s].lock = t
    PROVE  CycleOK'
<1>1. stack \in Stacks
  BY InvFacts DEF Facts
<1>2. PICK W : W = {}
  OBVIOUS
<1>3. PICK x : x = <<t, Len(stack[t]) + 1>>
  OBVIOUS
<1>4. Move(t, Append(stack[t], f), W) /\ \A u \in W : Asleep(u)
  BY <1>2
<1>5. Pushed(x, Norm(f)) /\ Others(t, W) /\ Top(t)' = f
  BY <1>1, <1>3, <1>4, CallPushes, OthersMove, SelfCall
<1>6. /\ x \notin Frames /\ Frames' = Frames \cup {x} /\ Call'[x] = Norm(f) /\ x[1] = t
      /\ \A y \in Frames : Call'[y] = Call[y]
  BY <1>3, <1>5 DEF Pushed
<1>7. ~Is(t, "wait_si")' /\ Call'[x].pc # "unlinked"
  BY <1>5, <1>6, LocksIs DEF Is
<1> QED
  BY <1>4, <1>5, <1>6, <1>7, CycleStep

\* Sessions keep their locks.
LockPlain ==
    \A s \in Sessions : /\ sess'[s].live <=> sess[s].live
                        /\ sess'[s].lock = sess[s].lock
                        /\ sess'[s].unlink <=> sess[s].unlink

\* A call that keeps the lock of its session, or has none.
LEMMA PlainLocks ==
    ASSUME Inv, Inv', CycleOK, NEW t \in Threads, stack[t] # <<>>, NEW W, \A u \in W : Asleep(u),
           NEW f \in CallType, Move(t, With(t, f), W), LockPlain, SiLaw(t),
           f.pc \notin {"unlinked", "wait_refc"}, f.pc = "wait_si" => siThread' # t,
           Locks(Norm(Top(t))) => Locks(Norm(f)) /\ f.s = Top(t).s
    PROVE  CycleOK'
<1>1. Top(t) \in CallType
  BY InvFacts, TopIs DEF Facts
<1>2. SessLaw(t)
  BY DEF LockPlain, SessLaw
<1>3. \A s \in Sessions : sess'[s].live /\ sess'[s].lock = t =>
         Gave(t, s, Norm(Top(t))) \/ Took(s, Norm(f))
  <2>1. Norm(f).s = f.s /\ Norm(Top(t)).s = Top(t).s
    BY <1>1, LocksIs
  <2> QED
    BY <2>1 DEF LockPlain, Gave, Took
<1> QED
  BY <1>2, <1>3, CycleWith

\* A call that has no lock returns.
LEMMA PlainReturns ==
    ASSUME Inv, Inv', CycleOK, NEW t \in Threads, stack[t] # <<>>, NEW W, \A u \in W : Asleep(u),
           Move(t, Return(t), W), LockPlain, SiLaw(t), ~Locks(Norm(Top(t)))
    PROVE  CycleOK'
<1>1. SessLaw(t)
  BY DEF LockPlain, SessLaw
<1>2. \A s \in Sessions : sess'[s].live /\ sess'[s].lock = t => Gave(t, s, Norm(Top(t)))
  BY DEF LockPlain, Gave
<1> QED
  BY <1>1, <1>2, CycleReturn

\* Nothing moves.
LEMMA CycleSame ==
    ASSUME CycleOK, UNCHANGED <<stack, sess, siThread>>
    PROVE  CycleOK'
<1>1. Frames' = Frames
  BY DEF Frames
<1>2. Call' = Call
  BY <1>1 DEF Call, F, Norm, Resume
<1>3. LockHeld'
  BY <1>1, <1>2 DEF CycleOK, LockHeld, Locks, Uses
<1>4. UnlinkMarked' /\ SiOther'
  BY <1>1, <1>2 DEF CycleOK, UnlinkMarked, SiOther, Is, Top
<1> QED
  BY <1>3, <1>4 DEF CycleOK

\* The setting of the lemmas for the actions.
Cycles(t) == Inv /\ Inv' /\ CycleOK /\ t \in Threads

\* A call moves to a place where it has the same lock.
LEMMA PlainMoves ==
    ASSUME NEW t, Cycles(t), stack[t] # <<>>, NEW W, \A u \in W : Asleep(u),
           NEW pc \in Labels, Move(t, Goto(t, pc), W), UNCHANGED sess, SiLaw(t),
           pc \notin {"unlinked", "wait_refc"}, pc = "wait_si" => siThread' # t,
           Locks(Norm(Top(t))) =>
              /\ pc \notin {"open", "get", "drop", "destroy", "relock", "wait_lock"}
              /\ ~(Top(t).op = "close" /\ pc = "clear")
    PROVE  CycleOK'
<1>1. Top(t) \in CallType
  BY InvFacts, TopIs DEF Facts, Cycles
<1>2. PICK f : f = [Top(t) EXCEPT !.pc = pc]
  OBVIOUS
<1>3. f \in CallType /\ f.pc = pc /\ f.op = Top(t).op /\ f.s = Top(t).s
  BY <1>1, <1>2 DEF CallType
<1>4. Move(t, With(t, f), W)
  BY <1>2 DEF Goto
<1>5. LockPlain
  BY DEF LockPlain
<1>6. Locks(Norm(Top(t))) => Locks(Norm(f)) /\ f.s = Top(t).s
  BY <1>1, <1>3, LocksIs
<1> QED
  BY <1>3, <1>4, <1>5, <1>6, PlainLocks DEF Cycles

\* The places of an open, which locks no session, and the call at a place.
LEMMA CycleAt ==
    ASSUME NEW t, Cycles(t), NEW pc, At(t, pc), pc \notin DOMAIN Resume
    PROVE  /\ stack[t] # <<>> /\ Top(t) \in CallType /\ Top(t).pc = pc /\ CallOK(Top(t))
           /\ \A u \in {} : Asleep(u)
           /\ pc \in {"open", "find", "load", "ldelf", "undo"} => Top(t).op = "open"
           /\ pc # "open" => Top(t).s \in Sessions
           /\ Locks(Norm(Top(t))) <=> /\ Top(t).op \in {"invoke", "close"}
                                      /\ pc \notin {"open", "get", "drop", "destroy", "relock"}
                                      /\ ~(Top(t).op = "close" /\ pc = "clear")
<1>1. Here(t) /\ Top(t).pc = pc
  BY HereIs DEF Cycles
<1>2. Top(t) \in CallType /\ CallOK(Top(t)) /\ stack[t] # <<>>
  BY <1>1 DEF Here
<1>3. pc \in {"open", "find", "load", "ldelf", "undo"} => Top(t).op = "open"
  BY <1>1, <1>2 DEF CallOK, CallType, InTa
<1>4. pc # "open" => Top(t).s \in Sessions
  BY <1>1, <1>2 DEF CallOK, CallType
<1>5. pc # "wait_lock"
  BY ResumeIs
<1> QED
  BY <1>1, <1>2, <1>3, <1>4, <1>5, LocksIs

\* calloc() fails, and the steps of a call that runs in its TA.
LEMMA RunsCycle ==
    ASSUME NEW t, Cycles(t), \/ OpenNoMemory(t) \/ LoadNoMemory(t) \/ Initialized(t)
                             \/ WaitSingleInstance(t) \/ WaitBusy(t) \/ ReleaseState(t)
    PROVE  CycleOK'
<1>1. CASE OpenNoMemory(t)
  <2>1. At(t, "open") /\ Move(t, Return(t), {}) /\ LockPlain /\ SiLaw(t)
    BY <1>1 DEF OpenNoMemory, LockPlain, SiLaw
  <2> QED
    BY <2>1, CycleAt, RunLabels, PlainReturns DEF Cycles
<1>2. CASE LoadNoMemory(t)
  <2>1. At(t, "load") /\ Move(t, Goto(t, "undo"), {}) /\ UNCHANGED sess /\ SiLaw(t)
    BY <1>2 DEF LoadNoMemory, SiLaw
  <2> QED
    BY <2>1, CycleAt, RunLabels, PlainMoves
<1>3. CASE Initialized(t)
  <2>1. PICK W : W = Waiting("wait_init")
    OBVIOUS
  <2>2. At(t, "ldelf") /\ Move(t, Goto(t, "set_busy"), W) /\ UNCHANGED sess /\ SiLaw(t)
    BY <1>3, <2>1 DEF Initialized, SiLaw
  <2>3. \A u \in W : Asleep(u)
    BY <2>1, WakesSleepers, ResumeIs
  <2> QED
    BY <2>2, <2>3, CycleAt, RunLabels, PlainMoves
<1>4. CASE WaitSingleInstance(t)
  <2>1. At(t, "set_busy") /\ Move(t, Goto(t, "wait_si"), {}) /\ UNCHANGED sess /\ SiLaw(t)
    BY <1>4 DEF WaitSingleInstance, SiLaw
  <2>2. siThread' # t /\ "wait_si" \in Labels
    BY <1>4, ResumeIs DEF WaitSingleInstance, SiLockFree, Labels
  <2> QED
    BY <2>1, <2>2, CycleAt, RunLabels, PlainMoves
<1>5. CASE WaitBusy(t)
  <2>1. At(t, "set_busy") /\ Move(t, Goto(t, "wait_busy"), {}) /\ UNCHANGED sess /\ SiLaw(t)
    BY <1>5 DEF WaitBusy, SiLaw
  <2>2. "wait_busy" \in Labels
    BY ResumeIs DEF Labels
  <2> QED
    BY <2>1, <2>2, CycleAt, RunLabels, PlainMoves
<1>6. CASE ReleaseState(t)
  <2>1. At(t, "release") /\ Move(t, Goto(t, "clear"), {}) /\ UNCHANGED sess /\ SiLaw(t)
    BY <1>6 DEF ReleaseState, SiLaw
  <2>2. Top(t).op # "close"
    BY <2>1, CycleAt, RunLabels DEF CallOK
  <2> QED
    BY <2>1, <2>2, CycleAt, RunLabels, PlainMoves
<1> QED
  BY <1>1, <1>2, <1>3, <1>4, <1>5, <1>6

\* A call changes and keeps its session, its lock and the function it is in.
LEMMA PlainChanges ==
    ASSUME NEW t, Cycles(t), stack[t] # <<>>, NEW W, \A u \in W : Asleep(u), NEW f \in CallType,
           Move(t, With(t, f), W), UNCHANGED sess, SiLaw(t), f.op = Top(t).op, f.s = Top(t).s,
           f.pc \notin {"unlinked", "wait_refc", "wait_si"},
           Locks(Norm(Top(t))) =>
              /\ f.pc \notin {"open", "get", "drop", "destroy", "relock", "wait_lock"}
              /\ ~(f.op = "close" /\ f.pc = "clear")
    PROVE  CycleOK'
<1>1. Top(t) \in CallType
  BY InvFacts, TopIs DEF Facts, Cycles
<1>2. LockPlain
  BY DEF LockPlain
<1>3. Locks(Norm(Top(t))) => Locks(Norm(f)) /\ f.s = Top(t).s
  BY <1>1, LocksIs
<1> QED
  BY <1>2, <1>3, PlainLocks DEF Cycles

\* The TA is entered.
LEMMA BusyCycle ==
    ASSUME NEW t, Cycles(t), SetBusyConcurrent(t) \/ SetBusy(t)
    PROVE  CycleOK'
<1>1. At(t, "set_busy") /\ Move(t, Entered(t), {}) /\ UNCHANGED sess /\ SiLaw(t)
  BY DEF SetBusyConcurrent, SetBusy, SiLaw
<1>2. /\ stack[t] # <<>> /\ Top(t) \in CallType /\ \A u \in {} : Asleep(u)
  BY <1>1, CycleAt, RunLabels
<1>3. PICK f : f = [Top(t) EXCEPT !.pc = "enter", !.busy = TRUE]
  OBVIOUS
<1>4. f \in CallType /\ f.pc = "enter" /\ f.op = Top(t).op /\ f.s = Top(t).s
  BY <1>2, <1>3, RunLabels DEF CallType
<1>5. Move(t, With(t, f), {})
  BY <1>1, <1>3 DEF Entered
<1> QED
  BY <1>1, <1>2, <1>4, <1>5, PlainChanges

\* It is refused.
LEMMA RefuseBusyCycle ==
    ASSUME NEW t, Cycles(t), RefuseBusy(t)
    PROVE  CycleOK'
<1>1. At(t, "set_busy") /\ UNCHANGED sess /\ SiLaw(t) /\ siThread' = siThread
  BY DEF RefuseBusy, SiLaw
<1>2. /\ stack[t] # <<>> /\ Top(t) \in CallType /\ \A u \in {} : Asleep(u)
  BY <1>1, CycleAt, RunLabels
<1>3. CASE Top(t).op = "open"
  <2>1. PICK f : f = [Top(t) EXCEPT !.pc = "put", !.ok = FALSE]
    OBVIOUS
  <2>2. f \in CallType /\ f.pc = "put" /\ f.op = Top(t).op /\ f.s = Top(t).s
    BY <1>2, <2>1, RunLabels DEF CallType
  <2>3. Move(t, With(t, f), {})
    BY <1>3, <2>1 DEF RefuseBusy, Refused
  <2> QED
    BY <1>1, <1>2, <2>2, <2>3, PlainChanges
<1>4. CASE Top(t).op # "open"
  <2>1. stack' = stack /\ sess' = sess /\ siThread' = siThread
    BY <1>1, <1>4 DEF RefuseBusy, Refused
  <2> QED
    BY <2>1, CycleSame DEF Cycles
<1> QED
  BY <1>3, <1>4

\* It is given back.
LEMMA ClearBusyCycle ==
    ASSUME NEW t, Cycles(t), ClearBusy(t)
    PROVE  CycleOK'
<1>1. At(t, "clear") /\ UNCHANGED sess
  BY DEF ClearBusy
<1>2. SiLaw(t)
  BY DEF ClearBusy, SiLaw
<1>3. /\ stack[t] # <<>> /\ Top(t) \in CallType
      /\ Locks(Norm(Top(t))) => Top(t).op = "invoke"
  BY <1>1, CycleAt, RunLabels
<1>4. PICK pc : pc = IF Top(t).op = "close" THEN "drop" ELSE "put"
  OBVIOUS
<1>5. PICK f : f = [Top(t) EXCEPT !.busy = FALSE, !.pc = pc]
  OBVIOUS
<1>6. f \in CallType /\ f.pc = pc /\ Cleared(t) = With(t, f) /\ f.op = Top(t).op /\ f.s = Top(t).s
  <2>1. pc \in Labels
    BY <1>4, RunLabels
  <2> QED
    BY <1>3, <1>4, <1>5, <2>1 DEF CallType, Cleared
<1>7. PICK W : Move(t, With(t, f), W) /\ \A u \in W : Asleep(u)
  <2>1. CASE Has(Top(t).c, "CONCURRENT")
    BY <1>6, <2>1 DEF ClearBusy
  <2>2. CASE ~Has(Top(t).c, "CONCURRENT")
    <3>1. PICK last : last = (NeedsSiLock(Top(t).c) /\ siCount' = 0)
      OBVIOUS
    <3>2. PICK W1 \in OneOf(WaitingFor("wait_busy", Top(t).c)),
               W2 \in IF last THEN OneOf(Waiting("wait_si")) ELSE {{}} :
                  Move(t, Cleared(t), W1 \cup W2)
      BY <2>2, <3>1 DEF ClearBusy
    <3>3. \A u \in W1 \cup W2 : Asleep(u)
      BY <3>2, WakesSleepers, ResumeIs
    <3> QED
      BY <1>6, <3>2, <3>3
  <2> QED
    BY <2>1, <2>2
<1> QED
  BY <1>1, <1>2, <1>3, <1>4, <1>6, <1>7, PlainChanges

\* The TA runs.
LEMMA BodyCycle ==
    ASSUME NEW t, Cycles(t), EnterTa(t) \/ TaReturns(t) \/ TaPanics(t)
    PROVE  CycleOK'
<1>1. AfterBody(t) \in {"unlink", "leave"}
  BY DEF AfterBody
<1>2. UNCHANGED sess /\ SiLaw(t)
  BY DEF EnterTa, TaReturns, TaPanics, SiLaw
<1>3. CASE At(t, "enter") /\ CanEnter(t) /\ EnterTa(t)
  <2>1. Move(t, Goto(t, "body"), {})
    BY <1>3 DEF EnterTa
  <2> QED
    BY <1>2, <1>3, <2>1, CycleAt, RunLabels, PlainMoves
<1>4. CASE At(t, "body") /\ TaPanics(t)
  <2>1. Move(t, Goto(t, AfterBody(t)), {})
    BY <1>4 DEF TaPanics
  <2> QED
    BY <1>1, <1>2, <1>4, <2>1, CycleAt, RunLabels, PlainMoves
<1>5. ASSUME NEW pc \in {"enter", "body"}, At(t, pc), NEW ok \in BOOLEAN,
             Move(t, With(t, [Top(t) EXCEPT !.pc = AfterBody(t), !.ok = ok]), {})
      PROVE  CycleOK'
  <2>1. /\ stack[t] # <<>> /\ Top(t) \in CallType /\ \A u \in {} : Asleep(u)
    BY <1>5, CycleAt, RunLabels
  <2>2. PICK f : f = [Top(t) EXCEPT !.pc = AfterBody(t), !.ok = ok]
    OBVIOUS
  <2>3. f \in CallType /\ f.pc = AfterBody(t) /\ f.op = Top(t).op /\ f.s = Top(t).s
    BY <1>1, <2>1, <2>2, RunLabels DEF CallType
  <2>4. Move(t, With(t, f), {})
    BY <1>5, <2>2
  <2> QED
    BY <1>1, <1>2, <2>1, <2>3, <2>4, PlainChanges
<1>6. CASE EnterTa(t) /\ ~CanEnter(t)
  <2>1. PICK ok \in BOOLEAN : ok = (Top(t).ok /\ Top(t).op # "open")
    OBVIOUS
  <2> QED
    BY <1>5, <1>6, <2>1 DEF EnterTa
<1>7. CASE TaReturns(t)
  <2>1. PICK ok \in IF Top(t).op = "open" THEN BOOLEAN ELSE {Top(t).ok} :
           Move(t, With(t, [Top(t) EXCEPT !.pc = AfterBody(t), !.ok = ok]), {})
    BY <1>7 DEF TaReturns
  <2>2. At(t, "body") /\ ok \in BOOLEAN
    BY <1>7, <2>1, CycleAt, RunLabels DEF TaReturns, CallType
  <2> QED
    BY <1>5, <2>1, <2>2
<1> QED
  BY <1>3, <1>4, <1>6, <1>7 DEF EnterTa, TaPanics

\* release_ta_ctx(), the locked session, the end of a close.
LEMMA LeaveCycle ==
    ASSUME NEW t, Cycles(t), LeaveTa(t) \/ GotSession(t)
    PROVE  CycleOK'
<1>1. UNCHANGED sess /\ SiLaw(t)
  BY DEF LeaveTa, GotSession, SiLaw
<1>2. CASE LeaveTa(t) /\ ctx[Top(t).c].panicked
  <2>1. At(t, "leave")
    BY <1>2 DEF LeaveTa
  <2>2. /\ stack[t] # <<>> /\ Top(t) \in CallType /\ Top(t).op # "close" /\ \A u \in {} : Asleep(u)
    BY <2>1, CycleAt, RunLabels DEF CallOK
  <2>3. PICK pc : pc = IF ctx[Top(t).c].releasing THEN "clear" ELSE "release"
    OBVIOUS
  <2>4. PICK f : f = [Top(t) EXCEPT !.ok = FALSE, !.pc = pc]
    OBVIOUS
  <2>5. pc \in Labels
    BY <2>3, RunLabels
  <2>6. f \in CallType /\ f.pc = pc /\ f.op = Top(t).op /\ f.s = Top(t).s
    BY <2>2, <2>4, <2>5 DEF CallType
  <2>7. Move(t, With(t, f), {})
    BY <1>2, <2>3, <2>4 DEF LeaveTa
  <2> QED
    BY <1>1, <2>2, <2>3, <2>6, <2>7, PlainChanges
<1>3. CASE LeaveTa(t) /\ ~ctx[Top(t).c].panicked
  <2>1. At(t, "leave") /\ Move(t, Goto(t, "clear"), {})
    BY <1>3 DEF LeaveTa
  <2>2. Top(t).op # "close"
    BY <2>1, CycleAt, RunLabels DEF CallOK
  <2> QED
    BY <1>1, <2>1, <2>2, CycleAt, RunLabels, PlainMoves
<1>4. CASE GotSession(t)
  <2>1. At(t, "got")
    BY <1>4 DEF GotSession
  <2>2. /\ stack[t] # <<>> /\ Top(t) \in CallType /\ Top(t).s \in Sessions /\ \A u \in {} : Asleep(u)
    BY <2>1, CycleAt, RunLabels
  <2>3. PICK c : c = sess[Top(t).s].ctx
    OBVIOUS
  <2>4. PICK pc : pc = IF Top(t).op = "close" /\ ctx[c].panicked THEN "unlink" ELSE "set_busy"
    OBVIOUS
  <2>5. PICK f : f = [Top(t) EXCEPT !.c = c, !.pc = pc]
    OBVIOUS
  <2>6. pc \in Labels /\ c \in Ctxs \cup {None}
    BY <2>2, <2>3, <2>4, RunLabels DEF Cycles, Inv, TypeOK, SessType
  <2>7. f \in CallType /\ f.pc = pc /\ f.op = Top(t).op /\ f.s = Top(t).s
    BY <2>2, <2>5, <2>6 DEF CallType
  <2>8. Move(t, With(t, f), {})
    BY <1>4, <2>3, <2>4, <2>5 DEF GotSession
  <2> QED
    BY <1>1, <2>2, <2>4, <2>7, <2>8, PlainChanges
<1> QED
  BY <1>2, <1>3, <1>4

LEMMA DropCycle ==
    ASSUME NEW t, Cycles(t), DropContext(t) \/ DestroyContext(t)
    PROVE  CycleOK'
<1>1. UNCHANGED sess /\ SiLaw(t) /\ LockPlain
  BY DEF DropContext, DestroyContext, SiLaw, LockPlain
<1>2. PICK pc \in {"drop", "destroy"} : At(t, pc)
  BY DEF DropContext, DestroyContext
<1>3. /\ stack[t] # <<>> /\ ~Locks(Norm(Top(t))) /\ \A u \in {} : Asleep(u)
  BY <1>2, CycleAt, RunLabels
<1>4. CASE Move(t, Return(t), {})
  BY <1>1, <1>3, <1>4, PlainReturns DEF Cycles
<1>5. CASE Move(t, Goto(t, "destroy"), {})
  BY <1>1, <1>3, <1>5, RunLabels, PlainMoves
<1> QED
  BY <1>4, <1>5 DEF DropContext, DestroyContext

\* A session of an open gets a context, a handle is taken or given.
LEMMA PlainSet ==
    ASSUME Inv, NEW s \in Sessions, NEW r,
           sess' = [sess EXCEPT ![s] = r],
           r.live <=> sess[s].live, r.lock = sess[s].lock, r.unlink <=> sess[s].unlink
    PROVE  LockPlain
<1>1. sess'[s] = r /\ \A q \in Sessions \ {s} : sess'[q] = sess[q]
  BY DEF Inv, TypeOK
<1> QED
  BY <1>1 DEF LockPlain

LEMMA PlainFields ==
    ASSUME Inv, NEW s \in Sessions
    PROVE  /\ \A c : sess' = [sess EXCEPT ![s].ctx = c] => LockPlain
           /\ \A o : sess' = [sess EXCEPT ![s].open = o] => LockPlain
<1>1. sess[s] \in SessType
  BY DEF Inv, TypeOK
<1>2. ASSUME NEW c, sess' = [sess EXCEPT ![s].ctx = c] PROVE LockPlain
  <2>1. PICK r : r = [sess[s] EXCEPT !.ctx = c]
    OBVIOUS
  <2>2. (r.live <=> sess[s].live) /\ r.lock = sess[s].lock /\ (r.unlink <=> sess[s].unlink)
    BY <1>1, <2>1 DEF SessType
  <2> QED
    BY <1>2, <2>1, <2>2, PlainSet
<1>3. ASSUME NEW o, sess' = [sess EXCEPT ![s].open = o] PROVE LockPlain
  <2>1. PICK r : r = [sess[s] EXCEPT !.open = o]
    OBVIOUS
  <2>2. (r.live <=> sess[s].live) /\ r.lock = sess[s].lock /\ (r.unlink <=> sess[s].unlink)
    BY <1>1, <2>1 DEF SessType
  <2> QED
    BY <1>3, <2>1, <2>2, PlainSet
<1> QED
  BY <1>2, <1>3

\* A TA is loaded, or not.
LEMMA LoadCycle ==
    ASSUME NEW t, Cycles(t), LoadTa(t) \/ LoadFails(t)
    PROVE  CycleOK'
<1>1. SiLaw(t)
  BY DEF LoadTa, LoadFails, SiLaw
<1>2. PICK l \in {"load", "ldelf"} : At(t, l)
  BY DEF LoadTa, LoadFails
<1>3. /\ stack[t] # <<>> /\ Top(t) \in CallType /\ Top(t).s \in Sessions /\ ~Locks(Norm(Top(t)))
      /\ \A u \in {} : Asleep(u)
  BY <1>2, CycleAt, RunLabels
<1>4. ASSUME NEW c \in Ctxs \cup {None}, NEW pc \in {"ldelf", "set_busy", "undo"},
             sess' = [sess EXCEPT ![Top(t).s].ctx = c], NEW W, \A u \in W : Asleep(u),
             Move(t, With(t, [Top(t) EXCEPT !.c = c, !.pc = pc]), W)
      PROVE  CycleOK'
  <2>1. PICK f : f = [Top(t) EXCEPT !.c = c, !.pc = pc]
    OBVIOUS
  <2>2. f \in CallType /\ f.pc = pc
    BY <1>3, <2>1, RunLabels DEF CallType
  <2>3. LockPlain
    BY <1>3, <1>4, PlainFields DEF Cycles
  <2> QED
    BY <1>1, <1>3, <1>4, <2>1, <2>2, <2>3, PlainLocks DEF Cycles
<1>5. CASE LoadTa(t)
  <2>1. PICK c \in Ctxs :
           /\ sess' = [sess EXCEPT ![Top(t).s].ctx = c]
           /\ Move(t, With(t, [Top(t) EXCEPT !.c = c,
                        !.pc = IF Top(t).uuid \notin Pseudo THEN "ldelf" ELSE "set_busy"]), {})
    BY <1>5 DEF LoadTa
  <2>2. PICK pc \in {"ldelf", "set_busy"} : pc = IF Top(t).uuid \notin Pseudo THEN "ldelf" ELSE "set_busy"
    OBVIOUS
  <2>3. PICK W : W = {}
    OBVIOUS
  <2>4. Move(t, With(t, [Top(t) EXCEPT !.c = c, !.pc = pc]), W) /\ \A u \in W : Asleep(u)
    BY <2>1, <2>2, <2>3
  <2>5. c \in Ctxs \cup {None} /\ pc \in {"ldelf", "set_busy", "undo"}
    OBVIOUS
  <2> QED
    BY <1>4, <2>1, <2>4, <2>5
<1>6. CASE LoadFails(t)
  <2>1. PICK W : W = Waiting("wait_init")
    OBVIOUS
  <2>2. \A u \in W : Asleep(u)
    BY <2>1, WakesSleepers, ResumeIs
  <2>3. /\ sess' = [sess EXCEPT ![Top(t).s].ctx = None]
        /\ Move(t, With(t, [Top(t) EXCEPT !.pc = "undo", !.c = None]), W)
    BY <1>6, <2>1 DEF LoadFails
  <2>4. [Top(t) EXCEPT !.pc = "undo", !.c = None] = [Top(t) EXCEPT !.c = None, !.pc = "undo"]
    BY <1>3 DEF CallType
  <2> QED
    BY <1>4, <2>2, <2>3, <2>4
<1> QED
  BY <1>5, <1>6

\* Calls.
LEMMA ClientCycle ==
    ASSUME NEW t, Cycles(t), NormalWorldCalls(t) \/ TaCalls(t) \/ ReleaseSession(t)
    PROVE  CycleOK'
<1>1. SiLaw(t)
  BY DEF NormalWorldCalls, TaCalls, ReleaseSession, SiLaw
<1>2. ASSUME NEW op \in {"open", "invoke", "close", "cancel"}, NEW pc \in {"open", "get"},
             NEW s \in Sessions \cup {None}, NEW o \in Ctxs \cup {None}, NEW u \in Uuids \cup {None},
             Move(t, Append(stack[t], Frame(op, pc, s, o, u)), {}), LockPlain
      PROVE  CycleOK'
  <2>1. PICK f : f = Frame(op, pc, s, o, u)
    OBVIOUS
  <2>2. f \in CallType /\ f.pc = pc
    BY <2>1, FrameIs, RunLabels
  <2>3. SessLaw(t)
    BY <1>2 DEF LockPlain, SessLaw
  <2>4. \A q \in Sessions : sess'[q].live /\ sess'[q].lock = t => sess[q].live /\ sess[q].lock = t
    BY <1>2 DEF LockPlain
  <2> QED
    BY <1>1, <1>2, <2>1, <2>2, <2>3, <2>4, CycleCall DEF Cycles
<1>3. ASSUME NEW owner \in Ctxs \cup {None}, Client(t, owner) PROVE CycleOK'
  <2>1. CASE /\ \E u \in Uuids : Move(t, Append(stack[t], Frame("open", "open", None, owner, u)), {})
             /\ UNCHANGED sess
    <3>1. LockPlain
      BY <2>1 DEF LockPlain
    <3> QED
      BY <1>2, <1>3, <2>1, <3>1
  <2>2. ASSUME NEW s \in Sessions, NEW op \in {"invoke", "close", "cancel"},
               Move(t, Append(stack[t], Frame(op, "get", s, owner, None)), {}),
               sess' = [sess EXCEPT ![s].open = (op # "close")]
        PROVE  CycleOK'
    <3>1. LockPlain
      BY <2>2, PlainFields DEF Cycles
    <3> QED
      BY <1>2, <1>3, <2>2, <3>1
  <2> QED
    BY <1>3, <2>1, <2>2 DEF Client
<1>4. CASE NormalWorldCalls(t)
  BY <1>3, <1>4 DEF NormalWorldCalls
<1>5. CASE TaCalls(t)
  <2>1. Top(t).c \in Ctxs \cup {None}
    BY <1>5, CycleAt, RunLabels DEF TaCalls, CallType
  <2> QED
    BY <1>3, <1>5, <2>1 DEF TaCalls
<1>6. CASE ReleaseSession(t)
  <2>1. PICK s \in Owned(Top(t).c) :
           /\ Move(t, Append(stack[t], Frame("close", "get", s, Top(t).c, None)), {})
           /\ sess' = [sess EXCEPT ![s].open = FALSE]
    BY <1>6 DEF ReleaseSession
  <2>2. s \in Sessions /\ Top(t).c \in Ctxs \cup {None}
    BY <1>6, <2>1, CycleAt, RunLabels DEF Owned, CallType, ReleaseSession
  <2>3. LockPlain
    BY <2>1, <2>2, PlainFields DEF Cycles
  <2> QED
    BY <1>2, <2>1, <2>2, <2>3
<1> QED
  BY <1>4, <1>5, <1>6

\* A step that changes session s: what it does to the locks,
LEMMA SetLaw ==
    ASSUME Inv, NEW t \in Threads, NEW s \in Sessions, NEW r, sess' = [sess EXCEPT ![s] = r],
           r.live => /\ r.lock \in {None, t} \/ (sess[s].live /\ r.lock = sess[s].lock)
                     /\ sess[s].live /\ sess[s].unlink => r.unlink
    PROVE  SessLaw(t) /\ sess'[s] = r /\ OnlySess(s)
<1>1. sess'[s] = r /\ OnlySess(s)
  BY SessIs
<1> QED
  BY <1>1 DEF SessLaw, OnlySess

\* when its call goes on,
LEMMA SetLocks ==
    ASSUME NEW t, Cycles(t), stack[t] # <<>>, NEW W, \A u \in W : Asleep(u), NEW f \in CallType,
           Move(t, With(t, f), W), siThread' = siThread,
           NEW s \in Sessions, NEW r, sess' = [sess EXCEPT ![s] = r],
           Locks(Norm(Top(t))) => Top(t).s = s,
           r.live => /\ r.lock \in {None, t} \/ (sess[s].live /\ r.lock = sess[s].lock)
                     /\ sess[s].live /\ sess[s].unlink => r.unlink,
           f.pc \in {"unlinked", "wait_refc"} => f.s = s /\ r.unlink, f.pc # "wait_si",
           r.live /\ r.lock = t => \/ sess[s].live /\ sess[s].lock = t /\ ~Locks(Norm(Top(t)))
                                   \/ Locks(Norm(f)) /\ f.s = s
    PROVE  CycleOK'
<1>1. Inv /\ Inv' /\ CycleOK /\ t \in Threads /\ Top(t) \in CallType
  BY InvFacts, TopIs DEF Facts, Cycles
<1>2. SessLaw(t) /\ sess'[s] = r /\ OnlySess(s) /\ SiLaw(t)
  BY <1>1, SetLaw DEF SiLaw
<1>3. Norm(f).s = f.s /\ Norm(Top(t)).s = Top(t).s
  BY <1>1, LocksIs
<1>4. \A q \in Sessions : sess'[q].live /\ sess'[q].lock = t =>
         Gave(t, q, Norm(Top(t))) \/ Took(q, Norm(f))
  BY <1>2, <1>3 DEF OnlySess, Gave, Took
<1>5. f.pc \in {"unlinked", "wait_refc"} => sess'[f.s].unlink
  BY <1>2
<1> QED
  BY <1>1, <1>2, <1>4, <1>5, CycleWith

\* and when it returns.
LEMMA SetReturns ==
    ASSUME NEW t, Cycles(t), stack[t] # <<>>, NEW W, \A u \in W : Asleep(u),
           Move(t, Return(t), W), siThread' = siThread,
           NEW s \in Sessions, NEW r, sess' = [sess EXCEPT ![s] = r],
           Locks(Norm(Top(t))) => Top(t).s = s,
           r.live => /\ r.lock \in {None, t} \/ (sess[s].live /\ r.lock = sess[s].lock)
                     /\ sess[s].live /\ sess[s].unlink => r.unlink,
           r.live /\ r.lock = t => sess[s].live /\ sess[s].lock = t /\ ~Locks(Norm(Top(t)))
    PROVE  CycleOK'
<1>1. Inv /\ Inv' /\ CycleOK /\ t \in Threads /\ Top(t) \in CallType
  BY InvFacts, TopIs DEF Facts, Cycles
<1>2. SessLaw(t) /\ sess'[s] = r /\ OnlySess(s) /\ SiLaw(t)
  BY <1>1, SetLaw DEF SiLaw
<1>3. Norm(Top(t)).s = Top(t).s
  BY <1>1, LocksIs
<1>4. \A q \in Sessions : sess'[q].live /\ sess'[q].lock = t => Gave(t, q, Norm(Top(t)))
  BY <1>2, <1>3 DEF OnlySess, Gave
<1> QED
  BY <1>1, <1>2, <1>4, CycleReturn

\* The search for a context: an open has no lock.
LEMMA SearchCycle ==
    ASSUME NEW t, Cycles(t), stack[t] # <<>>, ~Locks(Norm(Top(t))), siThread' = siThread,
           NEW f \in CallType, NEW s \in Sessions, f.s = s, NEW k \in SessType,
           k.lock = None \/ (sess[s].live /\ k.lock = sess[s].lock),
           sess[s].live /\ sess[s].unlink => k.unlink,
           InitWithContext(t, f, [sess EXCEPT ![s] = k])
    PROVE  CycleOK'
<1>1. t # None /\ \A u \in {} : Asleep(u)
  BY ConstantsAssumption DEF Cycles
<1>2. PICK S : S = [sess EXCEPT ![s] = k]
  OBVIOUS
<1>3. InitWithContext(t, f, S)
  BY <1>2
<1>4. ASSUME NEW g \in CallType, g.pc \in {"load", "wait_init", "undo", "set_busy"}, Move(t, With(t, g), {}),
             NEW r \in SessType, sess' = [sess EXCEPT ![s] = r], r.lock = k.lock, r.unlink <=> k.unlink
      PROVE  CycleOK'
  BY <1>1, <1>4, SetLocks
<1>5. ASSUME NEW pc \in {"load", "wait_init", "undo"}, Move(t, With(t, [f EXCEPT !.pc = pc]), {}), sess' = S
      PROVE  CycleOK'
  <2>1. PICK g : g = [f EXCEPT !.pc = pc]
    OBVIOUS
  <2>2. g \in CallType /\ g.pc = pc
    BY <2>1, RunLabels, ResumeIs DEF CallType, Labels
  <2>3. Move(t, With(t, g), {}) /\ sess' = [sess EXCEPT ![s] = k]
    BY <1>2, <1>5, <2>1
  <2> QED
    BY <1>4, <2>2, <2>3
<1>6. ASSUME NEW i \in Found(f.uuid), NEW c, c = tee_ctxes[i],
             Move(t, With(t, [f EXCEPT !.pc = "set_busy", !.c = c]), {}), sess' = [S EXCEPT ![s].ctx = c]
      PROVE  CycleOK'
  <2>1. PICK g : g = [f EXCEPT !.pc = "set_busy", !.c = c]
    OBVIOUS
  <2>2. c \in Ctxs
    BY <1>6, InvFacts DEF Facts, Found, Cycles
  <2>3. g \in CallType /\ g.pc = "set_busy"
    BY <2>1, <2>2, RunLabels DEF CallType
  <2>4. PICK r : r = [k EXCEPT !.ctx = c]
    OBVIOUS
  <2>5. r \in SessType /\ r.lock = k.lock /\ (r.unlink <=> k.unlink)
    BY <2>2, <2>4 DEF SessType
  <2>6. sess' = [sess EXCEPT ![s] = r]
    BY <1>2, <1>6, <2>4 DEF Cycles, Inv, TypeOK
  <2>7. Move(t, With(t, g), {})
    BY <1>6, <2>1
  <2> QED
    BY <1>4, <2>3, <2>5, <2>6, <2>7
<1> QED
  BY <1>3, <1>5, <1>6 DEF InitWithContext

\* A new session, the search after a wait, and a failed open.
LEMMA OpenCycle ==
    ASSUME NEW t, Cycles(t), OpenSession(t) \/ FindAgain(t) \/ UndoOpen(t)
    PROVE  CycleOK'
<1>1. siThread' = siThread
  BY DEF OpenSession, FindAgain, UndoOpen
<1>2. PICK pc \in {"open", "find", "undo"} : At(t, pc)
  BY DEF OpenSession, FindAgain, UndoOpen
<1>3. /\ stack[t] # <<>> /\ Top(t) \in CallType /\ ~Locks(Norm(Top(t))) /\ \A u \in {} : Asleep(u)
      /\ pc # "open" => Top(t).s \in Sessions
      /\ Top(t).pc = pc
  BY <1>2, CycleAt, RunLabels
<1>4. CASE OpenSession(t)
  <2>1. PICK s \in Sessions :
           /\ ~sess[s].live
           /\ InitWithContext(t, [Top(t) EXCEPT !.s = s],
                [sess EXCEPT ![s] = [FreeSess EXCEPT !.live = TRUE, !.ref = 1, !.owner = Top(t).owner]])
    BY <1>4 DEF OpenSession
  <2>2. PICK k : k = [FreeSess EXCEPT !.live = TRUE, !.ref = 1, !.owner = Top(t).owner]
    OBVIOUS
  <2>3. k \in SessType /\ k.lock = None
    BY <1>3, <2>2 DEF SessType, FreeSess, CallType
  <2>4. PICK f : f = [Top(t) EXCEPT !.s = s]
    OBVIOUS
  <2>5. f \in CallType /\ f.s = s
    BY <1>3, <2>4 DEF CallType
  <2>6. InitWithContext(t, f, [sess EXCEPT ![s] = k])
    BY <2>1, <2>2, <2>4
  <2> QED
    BY <1>1, <1>3, <2>1, <2>3, <2>5, <2>6, SearchCycle
<1>5. CASE FindAgain(t)
  <2>1. At(t, "find") /\ InitWithContext(t, Top(t), sess)
    BY <1>5 DEF FindAgain
  <2>2. Top(t).s \in Sessions
    BY <2>1, CycleAt, RunLabels
  <2>3. PICK s, k : s = Top(t).s /\ k = sess[s]
    OBVIOUS
  <2>4. k \in SessType /\ sess = [sess EXCEPT ![s] = k]
    BY <2>2, <2>3 DEF Cycles, Inv, TypeOK
  <2>5. sess[s].live
    <3>1. Place(t) \in Frames /\ Call[Place(t)] = Top(t) /\ Top(t).pc = "find"
      BY <2>1, HereIs, RunLabels DEF Here, Cycles
    <3>2. Uses(Call[Place(t)])
      BY <3>1, <1>3, <2>1 DEF Uses
    <3> QED
      BY <2>3, <3>1, <3>2, InvFacts, UsedSession DEF Cycles
  <2>6. InitWithContext(t, Top(t), [sess EXCEPT ![s] = k])
    BY <2>1, <2>4
  <2> QED
    BY <1>1, <1>3, <2>2, <2>3, <2>4, <2>5, <2>6, SearchCycle
<1>6. CASE UndoOpen(t)
  <2>1. /\ At(t, "undo") /\ sess' = [sess EXCEPT ![Top(t).s] = FreeSess] /\ Move(t, Return(t), {})
    BY <1>6 DEF UndoOpen
  <2>2. PICK s, r : s = Top(t).s /\ r = FreeSess
    OBVIOUS
  <2>3. s \in Sessions /\ ~r.live
    BY <2>1, <2>2, CycleAt, RunLabels DEF FreeSess
  <2>4. sess' = [sess EXCEPT ![s] = r]
    BY <2>1, <2>2
  <2>5. PICK W : W = {}
    OBVIOUS
  <2>6. Move(t, Return(t), W) /\ \A u \in W : Asleep(u)
    BY <2>1, <2>5
  <2> QED
    BY <1>1, <1>3, <2>3, <2>4, <2>6, SetReturns
<1> QED
  BY <1>4, <1>5, <1>6

\* What record r of session s, locked by the call of t or not, may become.
SetTo(t, s, r) ==
    r.live => /\ r.lock \in {None, t} \/ (sess[s].live /\ r.lock = sess[s].lock)
              /\ sess[s].live /\ sess[s].unlink => r.unlink
StillLocks(op, pc) ==
    /\ op \in {"invoke", "close"}
    /\ pc \notin {"open", "get", "drop", "destroy", "relock", "wait_lock", "clear"}

\* A call on session s moves to another place.
LEMMA SetGoto ==
    ASSUME NEW t, Cycles(t), stack[t] # <<>>, NEW W, \A u \in W : Asleep(u),
           NEW pc \in Labels \ {"wait_si", "unlinked"}, Move(t, Goto(t, pc), W), siThread' = siThread,
           NEW s \in Sessions, s = Top(t).s, NEW r, sess' = [sess EXCEPT ![s] = r],
           SetTo(t, s, r), pc = "wait_refc" => r.unlink,
           r.live /\ r.lock = t => \/ sess[s].live /\ sess[s].lock = t /\ ~Locks(Norm(Top(t)))
                                   \/ StillLocks(Top(t).op, pc)
    PROVE  CycleOK'
<1>1. Top(t) \in CallType
  BY InvFacts, TopIs DEF Facts, Cycles
<1>2. PICK f : f = [Top(t) EXCEPT !.pc = pc]
  OBVIOUS
<1>3. f \in CallType /\ f.pc = pc /\ f.op = Top(t).op /\ f.s = s
  BY <1>1, <1>2 DEF CallType
<1>4. Move(t, With(t, f), W)
  BY <1>2 DEF Goto
<1>5. r.live /\ r.lock = t => \/ sess[s].live /\ sess[s].lock = t /\ ~Locks(Norm(Top(t)))
                              \/ Locks(Norm(f)) /\ f.s = s
  BY <1>3, LocksIs DEF StillLocks
<1> QED
  BY <1>3, <1>4, <1>5, SetLocks DEF SetTo

\* tee_ta_get_session().
LEMMA GetSessionCycle ==
    ASSUME NEW t, Cycles(t), GetSession(t)
    PROVE  CycleOK'
<1>1. PICK s, W : s = Top(t).s /\ W = {}
  OBVIOUS
<1>2. At(t, "get") /\ siThread' = siThread /\ Inv /\ t \in Threads /\ \A u \in W : Asleep(u)
  BY <1>1 DEF GetSession, Cycles
<1>3. /\ stack[t] # <<>> /\ Top(t) \in CallType /\ s \in Sessions /\ sess[s] \in SessType
      /\ ~Locks(Norm(Top(t)))
  BY <1>1, <1>2, SessionOf, CycleAt, RunLabels
<1>4. CASE ~sess[s].live \/ sess[s].owner # Top(t).owner \/ sess[s].unlink
  <2>1. Move(t, Return(t), W) /\ UNCHANGED sess
    BY <1>1, <1>4 DEF GetSession
  <2>2. LockPlain /\ SiLaw(t)
    BY <1>2, <2>1 DEF LockPlain, SiLaw
  <2> QED
    BY <1>2, <1>3, <2>1, <2>2, PlainReturns DEF Cycles
<1>5. CASE ~(~sess[s].live \/ sess[s].owner # Top(t).owner \/ sess[s].unlink)
  <2>1. CASE Top(t).op = "cancel" \/ sess[s].lock # None
    <3>1. PICK r : r = [sess[s] EXCEPT !.ref = @ + 1]
      OBVIOUS
    <3>2. sess' = [sess EXCEPT ![s] = r]
      BY <1>1, <1>5, <2>1, <3>1 DEF GetSession
    <3>3. r.lock = sess[s].lock /\ (r.unlink <=> sess[s].unlink)
      BY <1>3, <3>1 DEF SessType
    <3>4. PICK pc : pc = IF Top(t).op = "cancel" THEN "put" ELSE "wait_lock"
      OBVIOUS
    <3>5. Move(t, Goto(t, pc), W)
      BY <1>1, <1>5, <2>1, <3>4 DEF GetSession
    <3>6. pc \in Labels \ {"wait_si", "unlinked"} /\ pc # "wait_refc"
      BY <3>4, RunLabels, ResumeIs DEF Labels
    <3>7. SetTo(t, s, r)
      BY <1>5, <3>3 DEF SetTo
    <3> QED
      BY <1>1, <1>2, <1>3, <1>5, <3>2, <3>3, <3>5, <3>6, <3>7, SetGoto
  <2>2. CASE ~(Top(t).op = "cancel" \/ sess[s].lock # None)
    <3>1. PICK r : r = [sess[s] EXCEPT !.ref = @ + 1, !.lock = t]
      OBVIOUS
    <3>2. sess' = [sess EXCEPT ![s] = r]
      <4>1. sess' = [sess EXCEPT ![s].ref = @ + 1, ![s].lock = t]
        BY <1>1, <1>5, <2>2 DEF GetSession
      <4> QED
        BY <1>2, <1>3, <3>1, <4>1 DEF Inv, TypeOK
    <3>3. r.lock = t /\ (r.unlink <=> sess[s].unlink)
      BY <1>3, <3>1 DEF SessType
    <3>4. Move(t, Goto(t, "got"), W)
      BY <1>1, <1>5, <2>2 DEF GetSession
    <3>5. Top(t).op \in {"invoke", "close"}
      <4>1. Top(t).op # "open"
        BY <1>2, CycleAt, RunLabels DEF CallOK, InTa
      <4> QED
        BY <1>3, <2>2, <4>1 DEF CallType
    <3>6. PICK pc : pc = "got"
      OBVIOUS
    <3>7. SetTo(t, s, r) /\ StillLocks(Top(t).op, pc)
      BY <3>3, <3>5, <3>6 DEF SetTo, StillLocks
    <3>8. pc \in Labels \ {"wait_si", "unlinked"} /\ pc # "wait_refc" /\ Move(t, Goto(t, pc), W)
      BY <3>4, <3>6, RunLabels
    <3> QED
      BY <1>1, <1>2, <1>3, <3>2, <3>7, <3>8, SetGoto
  <2> QED
    BY <2>1, <2>2
<1> QED
  BY <1>4, <1>5

\* Woken from lock_cv.
LEMMA RelockCycle ==
    ASSUME NEW t, Cycles(t), Relock(t)
    PROVE  CycleOK'
<1>1. PICK s, W0 : s = Top(t).s /\ W0 = {}
  OBVIOUS
<1>2. At(t, "relock") /\ siThread' = siThread /\ Inv /\ t \in Threads /\ \A u \in W0 : Asleep(u)
  BY <1>1 DEF Relock, Cycles
<1>3. /\ stack[t] # <<>> /\ Top(t) \in CallType /\ s \in Sessions /\ sess[s] \in SessType
      /\ ~Locks(Norm(Top(t)))
  BY <1>1, <1>2, SessionOf, CycleAt, RunLabels
<1>4. CASE sess[s].unlink
  <2>1. PICK r : r = [sess[s] EXCEPT !.ref = @ - 1]
    OBVIOUS
  <2>2. r.lock = sess[s].lock /\ (r.unlink <=> sess[s].unlink) /\ (r.live <=> sess[s].live)
    BY <1>3, <2>1 DEF SessType
  <2>3. sess' = [sess EXCEPT ![s] = r]
    BY <1>1, <1>4, <2>1 DEF Relock
  <2>4. PICK W \in DecWakes(s) : Move(t, Return(t), W)
    BY <1>1, <1>4 DEF Relock
  <2>5. \A u \in W : Asleep(u)
    BY <2>4, WakesSleepers
  <2> QED
    BY <1>2, <1>3, <2>2, <2>3, <2>4, <2>5, SetReturns
<1>5. CASE ~sess[s].unlink /\ sess[s].lock # None
  <2>1. Move(t, Goto(t, "wait_lock"), W0) /\ UNCHANGED sess /\ SiLaw(t)
    BY <1>1, <1>2, <1>5 DEF Relock, SiLaw
  <2>2. "wait_lock" \in Labels
    BY ResumeIs DEF Labels
  <2> QED
    BY <1>2, <1>3, <2>1, <2>2, PlainMoves
<1>6. CASE ~sess[s].unlink /\ sess[s].lock = None
  <2>1. PICK r : r = [sess[s] EXCEPT !.lock = t]
    OBVIOUS
  <2>2. r.lock = t /\ (r.unlink <=> sess[s].unlink)
    BY <1>3, <2>1 DEF SessType
  <2>3. sess' = [sess EXCEPT ![s] = r] /\ Move(t, Goto(t, "got"), W0)
    BY <1>1, <1>6, <2>1 DEF Relock
  <2>4. Top(t).op \in {"invoke", "close"}
    <3>1. Top(t).op # "open" /\ Top(t).op # "cancel"
      BY <1>2, CycleAt, RunLabels DEF CallOK, InTa
    <3> QED
      BY <1>3, <3>1 DEF CallType
  <2>5. PICK pc : pc = "got"
    OBVIOUS
  <2>6. SetTo(t, s, r) /\ StillLocks(Top(t).op, pc)
    BY <2>2, <2>4, <2>5 DEF SetTo, StillLocks
  <2>7. pc \in Labels \ {"wait_si", "unlinked"} /\ pc # "wait_refc" /\ Move(t, Goto(t, pc), W0)
    BY <2>3, <2>5, RunLabels
  <2> QED
    BY <1>1, <1>2, <1>3, <2>3, <2>6, <2>7, SetGoto
<1> QED
  BY <1>4, <1>5, <1>6

\* tee_ta_put_session().
LEMMA PutSessionCycle ==
    ASSUME NEW t, Cycles(t), PutSession(t)
    PROVE  CycleOK'
<1>1. PICK s : s = Top(t).s
  OBVIOUS
<1>2. At(t, "put") /\ siThread' = siThread /\ Inv /\ t \in Threads /\ t # None
  BY ConstantsAssumption DEF PutSession, Cycles
<1>3. /\ stack[t] # <<>> /\ Top(t) \in CallType /\ s \in Sessions /\ sess[s] \in SessType
  BY <1>1, <1>2, SessionOf
<1>4. PICK r : r = [sess[s] EXCEPT !.ref = @ - 1, !.lock = IF sess[s].lock = t THEN None ELSE @,
                                   !.open = @ \/ (Top(t).op = "open" /\ Top(t).ok)]
  OBVIOUS
<1>5. /\ r.lock = IF sess[s].lock = t THEN None ELSE sess[s].lock
      /\ (r.unlink <=> sess[s].unlink) /\ (r.live <=> sess[s].live)
  BY <1>3, <1>4 DEF SessType
<1>6. sess' = [sess EXCEPT ![s] = r]
  <2>1. sess' = [sess EXCEPT ![s].ref = @ - 1, ![s].lock = IF sess[s].lock = t THEN None ELSE @,
                             ![s].open = @ \/ (Top(t).op = "open" /\ Top(t).ok)]
    BY <1>1 DEF PutSession
  <2> QED
    BY <1>2, <1>3, <1>4, <2>1 DEF Inv, TypeOK
<1>7. r.live => /\ r.lock \in {None, t} \/ (sess[s].live /\ r.lock = sess[s].lock)
                /\ sess[s].live /\ sess[s].unlink => r.unlink
  BY <1>5
<1>8. r.lock # t
  BY <1>2, <1>5
<1>9. PICK W1 \in DecWakes(s), W2 \in IF sess[s].lock = t THEN OneOf(WaitingFor("wait_lock", s)) ELSE {{}} :
         Move(t, IF Top(t).op = "open" /\ ~Top(t).ok
                 THEN With(t, [Frame("close", "get", s, Top(t).owner, None) EXCEPT !.ok = FALSE])
                 ELSE Return(t), W1 \cup W2)
  BY <1>1 DEF PutSession
<1>10. PICK W : W = W1 \cup W2
  OBVIOUS
<1>11. \A u \in W : Asleep(u)
  <2>1. \A u \in W1 : Asleep(u)
    BY WakesSleepers
  <2>2. \A u \in W2 : Asleep(u)
    BY <1>9, WakesSleepers, ResumeIs
  <2> QED
    BY <1>10, <2>1, <2>2
<1>12. CASE Top(t).op = "open" /\ ~Top(t).ok
  <2>1. PICK f : f = [Frame("close", "get", s, Top(t).owner, None) EXCEPT !.ok = FALSE]
    OBVIOUS
  <2>2. f \in CallType /\ f.pc = "get"
    BY <1>3, <2>1, RunLabels DEF Frame, CallType
  <2>3. Move(t, With(t, f), W)
    BY <1>9, <1>10, <1>12, <2>1
  <2> QED
    BY <1>1, <1>2, <1>3, <1>6, <1>7, <1>8, <1>11, <2>2, <2>3, SetLocks
<1>13. CASE ~(Top(t).op = "open" /\ ~Top(t).ok)
  <2>1. Move(t, Return(t), W)
    BY <1>9, <1>10, <1>13
  <2> QED
    BY <1>1, <1>2, <1>3, <1>6, <1>7, <1>8, <1>11, <2>1, SetReturns
<1> QED
  BY <1>12, <1>13

\* tee_ta_unlink_session().
LEMMA UnlinkCycle ==
    ASSUME NEW t, Cycles(t), Unlink(t) \/ Unlinked(t)
    PROVE  CycleOK'
<1>1. PICK s : s = Top(t).s
  OBVIOUS
<1>2. PICK l \in {"unlink", "unlinked"} : At(t, l)
  BY DEF Unlink, Unlinked
<1>3. siThread' = siThread /\ Inv /\ t \in Threads
  BY DEF Unlink, Unlinked, Cycles
<1>4. /\ stack[t] # <<>> /\ Top(t) \in CallType /\ s \in Sessions /\ sess[s] \in SessType
      /\ Top(t).op = "close" /\ "wait_refc" \in Labels
  BY <1>1, <1>2, <1>3, SessionOf, ResumeIs DEF Labels
<1>5. PICK W : /\ \A u \in W : Asleep(u)
               /\ \/ sess' = [sess EXCEPT ![s] = FreeSess] /\ Move(t, AfterDestroy(t), W)
                  \/ sess' = [sess EXCEPT ![s].unlink = TRUE] /\ Move(t, Goto(t, "wait_refc"), W)
                  \/ At(t, "unlinked") /\ sess' = sess /\ Move(t, Goto(t, "wait_refc"), W)
  <2>1. CASE Unlink(t)
    <3>1. PICK W : W = WaitingFor("wait_lock", s)
      OBVIOUS
    <3>2. \A u \in W : Asleep(u)
      BY <3>1, WakesSleepers, ResumeIs
    <3> QED
      BY <1>1, <2>1, <3>1, <3>2 DEF Unlink
  <2>2. CASE Unlinked(t)
    <3>1. PICK W : W = {}
      OBVIOUS
    <3>2. \A u \in W : Asleep(u)
      BY <3>1
    <3> QED
      BY <1>1, <2>2, <3>1, <3>2 DEF Unlinked
  <2> QED
    BY <2>1, <2>2
<1>6. CASE sess' = [sess EXCEPT ![s] = FreeSess] /\ Move(t, AfterDestroy(t), W)
  <2>1. PICK r, pc : r = FreeSess /\ pc = IF Top(t).busy THEN "clear" ELSE "drop"
    OBVIOUS
  <2>2. ~r.live /\ pc \in Labels \ {"wait_si", "unlinked"} /\ pc # "wait_refc"
    BY <2>1, RunLabels DEF FreeSess
  <2>3. sess' = [sess EXCEPT ![s] = r] /\ Move(t, Goto(t, pc), W)
    BY <1>6, <2>1 DEF AfterDestroy
  <2>4. SetTo(t, s, r)
    BY <2>2 DEF SetTo
  <2> QED
    BY <1>1, <1>3, <1>4, <1>5, <2>2, <2>3, <2>4, SetGoto
<1>7. ASSUME NEW r, sess' = [sess EXCEPT ![s] = r], Move(t, Goto(t, "wait_refc"), W), r.unlink,
             r.live <=> sess[s].live, r.lock = sess[s].lock
      PROVE  CycleOK'
  <2>1. PICK pc : pc = "wait_refc"
    OBVIOUS
  <2>2. SetTo(t, s, r) /\ StillLocks(Top(t).op, pc)
    BY <1>4, <1>7, <2>1 DEF SetTo, StillLocks
  <2>3. pc \in Labels \ {"wait_si", "unlinked"} /\ Move(t, Goto(t, pc), W)
    BY <1>4, <1>7, <2>1
  <2> QED
    BY <1>1, <1>3, <1>4, <1>5, <1>7, <2>2, <2>3, SetGoto
<1>8. CASE sess' = [sess EXCEPT ![s].unlink = TRUE] /\ Move(t, Goto(t, "wait_refc"), W)
  <2>1. PICK r : r = [sess[s] EXCEPT !.unlink = TRUE]
    OBVIOUS
  <2>2. r.unlink /\ (r.live <=> sess[s].live) /\ r.lock = sess[s].lock
    BY <1>4, <2>1 DEF SessType
  <2> QED
    BY <1>7, <1>8, <2>1, <2>2
<1>9. CASE At(t, "unlinked") /\ sess' = sess /\ Move(t, Goto(t, "wait_refc"), W)
  <2>1. PICK r : r = sess[s]
    OBVIOUS
  <2>2. sess' = [sess EXCEPT ![s] = r]
    BY <1>3, <1>4, <1>9, <2>1 DEF Inv, TypeOK
  <2>3. Place(t) \in Frames /\ Call[Place(t)] = Top(t) /\ Top(t).pc = "unlinked"
    BY <1>3, <1>9, HereIs, RunLabels DEF Here
  <2>4. r.unlink
    BY <1>1, <2>1, <2>3 DEF Cycles, CycleOK, UnlinkMarked
  <2> QED
    BY <1>7, <1>9, <2>1, <2>2, <2>4
<1> QED
  BY <1>5, <1>6, <1>8, <1>9

\* Nothing is locked at first.
LEMMA InitCycle == Init => CycleOK
<1> SUFFICES ASSUME Init PROVE CycleOK
  OBVIOUS
<1>1. Frames = {}
  BY DEF Init, Frames
<1>2. \A s \in Sessions : sess[s].lock = None
  BY DEF Init, FreeSess
<1>3. \A u \in Threads : ~Is(u, "wait_si")
  BY DEF Init, Is
<1> QED
  BY <1>1, <1>2, <1>3 DEF CycleOK, LockHeld, UnlinkMarked, SiOther

\* Every step of a thread keeps the locks with their calls,
LEMMA StepCycle ==
    ASSUME NEW t, Cycles(t), Step(t)
    PROVE  CycleOK'
<1>1. OpenSession(t) \/ OpenNoMemory(t) \/ FindAgain(t) \/ LoadTa(t) \/ LoadNoMemory(t)
      \/ Initialized(t) \/ LoadFails(t) \/ UndoOpen(t) => CycleOK'
  BY OpenCycle, RunsCycle, LoadCycle
<1>2. SetBusyConcurrent(t) \/ WaitSingleInstance(t) \/ RefuseBusy(t) \/ WaitBusy(t) \/ SetBusy(t) \/ ClearBusy(t)
      => CycleOK'
  BY BusyCycle, RunsCycle, RefuseBusyCycle, ClearBusyCycle
<1>3. EnterTa(t) \/ TaReturns(t) \/ TaPanics(t) \/ LeaveTa(t) \/ ReleaseSession(t) \/ ReleaseState(t) => CycleOK'
  BY BodyCycle, LeaveCycle, ClientCycle, RunsCycle
<1>4. GetSession(t) \/ Relock(t) \/ GotSession(t) \/ PutSession(t) \/ Unlink(t) \/ Unlinked(t)
      \/ DropContext(t) \/ DestroyContext(t) => CycleOK'
  BY GetSessionCycle, RelockCycle, LeaveCycle, PutSessionCycle, UnlinkCycle, DropCycle
<1> QED
  BY <1>1, <1>2, <1>3, <1>4 DEF Step

\* and so does every step of the system.
LEMMA NextCycle == Inv /\ Inv' /\ CycleOK /\ [Next]_vars => CycleOK'
<1>1. ASSUME CycleOK, UNCHANGED vars PROVE CycleOK'
  BY <1>1, CycleSame DEF vars
<1>2. ASSUME Inv, Inv', CycleOK, NEW t \in Threads, NormalWorldCalls(t) \/ TaCalls(t) \/ Step(t)
      PROVE  CycleOK'
  <2>1. Cycles(t)
    BY <1>2 DEF Cycles
  <2> QED
    BY <1>2, <2>1, ClientCycle, StepCycle
<1> QED
  BY <1>1, <1>2 DEF Next, Panicked

\* Whatever calls TAs make to TAs, the threads of OP-TEE core never wait for
\* each other in a circle, when calls to single-instance TAs exclude each other
\* (CFG_CONCURRENT_SINGLE_INSTANCE_TA is off): tee_ta_try_set_busy() refuses to
\* wait for a busy TA with the single-instance lock, the holder of the lock of a
\* session never waits for another, and tee_ta_unlink_session() waits only for
\* calls that go on.
THEOREM NoCycleCorrect ==
    ASSUME ~ConcurrentSI
    PROVE  Spec => []NoWaitCycle
<1>1. Spec => []WakeOK
  BY Invariant, InitWakeOK, NextWake, PTL DEF Spec
<1>2. Spec => []CycleOK
  BY Invariant, InitCycle, NextCycle, PTL DEF Spec
<1>3. Inv /\ WakeOK /\ CycleOK => NoWaitCycle
  BY NoCycle
<1> QED
  BY <1>1, <1>2, <1>3, Invariant, PTL

=============================================================================
