--------------------------- MODULE TaManagerProofs ---------------------------
(***************************************************************************)
(* Proofs about TaManager, for any threads, sessions, contexts and TAs.    *)
(*                                                                         *)
(* The invariants the runs check say who uses a session or a context now;  *)
(* none of them is inductive.  Inv adds, for every place of the code, what *)
(* the call there knows: which session it may name, whether it has counted *)
(* and locked it, which context it found, who called it, and which other   *)
(* calls exclude it.  A call that sleeps counts as already back at the     *)
(* place where it tests its condition (Norm), so that wake-ups change      *)
(* nothing.                                                                *)
(*                                                                         *)
(* The proof has three layers.  A step changes, adds or takes away one     *)
(* call (Changed, Pushed, Popped); for each the lemmas say what keeps the  *)
(* stacks, the sessions, the contexts and the busy flags right; and one    *)
(* lemma per action (...Step) shows that the action meets them.            *)
(***************************************************************************)
EXTENDS TaManager, FiniteSetTheorems, TLAPS

-----------------------------------------------------------------------------
(* The inductive invariant *)

\* A thread that waits goes on where it is woken to: for everything but the
\* wake-ups themselves a call that waits is where it will test again.
Norm(f) == [f EXCEPT !.pc = IF f.pc \in DOMAIN Resume THEN Resume[f.pc] ELSE f.pc]
Call == [x \in Frames |-> Norm(F(x))]

\* Between tee_ta_try_set_busy() and tee_ta_clear_busy().
InTa == {"enter", "body", "leave", "release", "clear"}

\* The places of each function, and what a call knows there.
CallOK(f) ==
    /\ f.op = "open" => f.pc \in {"open", "find", "load", "ldelf", "undo", "set_busy", "put"} \cup InTa
    /\ f.op = "invoke" => f.pc \in {"get", "relock", "got", "set_busy", "put"} \cup InTa
    /\ f.op = "close" => f.pc \in {"get", "relock", "got", "set_busy", "enter", "body", "unlink",
                                   "unlinked", "clear", "drop", "destroy"}
    /\ f.op = "cancel" => f.pc \in {"get", "put"}
    /\ f.busy => f.pc \in InTa \cup {"unlink", "unlinked"}
    /\ f.pc \in InTa => f.busy
    /\ f.c = None <=> \/ f.op = "cancel"
                      \/ f.pc \in {"open", "find", "load", "undo", "get", "relock", "got"}
    /\ f.s = None <=> f.pc = "open"
    /\ f.op = "open" => f.uuid \in Uuids

\* A call is made by normal world or by the call below it, which is in user
\* mode or closes the sessions of its TA.
Calls(g, f) ==
    /\ g.c = f.owner /\ g.c # None
    /\ \/ g.pc = "body" /\ ctx[g.c].uuid \in Callers /\ f.op # "cancel"
       \/ g.pc \in {"release", "destroy"} /\ f.op = "close"
StackOK ==
    /\ IsFiniteSet(Frames)
    /\ \A x \in Frames :
          /\ CallOK(Call[x])
          /\ x[2] = 1 => Call[x].owner = None
          /\ x[2] # 1 => Calls(Call[<<x[1], x[2] - 1>>], Call[x])

\* A call that has a reference to its session, and one that has locked it.
Uses(f) == f.pc \notin {"open", "get", "drop", "destroy"} /\ ~(f.op = "close" /\ f.pc = "clear")
Locks(f) == f.op \in {"invoke", "close"} /\ Uses(f) /\ f.pc # "relock"

\* The session of a call that uses it is allocated and has the context of the
\* call; a session is not used again while a call names it.
UseOK(t, f, r) ==
    /\ Uses(f) => /\ r.live
                  /\ f.c # None => r.ctx = f.c
                  /\ f.op = "open" /\ f.c = None => r.ctx = None
    /\ f.s # None /\ r.live => /\ r.owner = f.owner
                               /\ f.op # "open" => r.ctx # None
    /\ Locks(f) => r.lock = t
UsesOK == \A x \in Frames : UseOK(x[1], Call[x], sess[Call[x].s])

\* A session that is being opened has one call, one close at most names a
\* session, and one call has it locked.
Compatible(f, g) ==
    f.s # None /\ f.s = g.s => /\ f.op # "open"
                               /\ ~(f.op = "close" /\ g.op = "close")
                               /\ ~(Locks(f) /\ Locks(g))
AloneOK == \A x, y \in Frames : x # y => Compatible(Call[x], Call[y])

\* The identifier of a session is with its client from the end of its opening
\* to the close.
HandleOK(s) ==
    /\ sess[s].open => /\ sess[s].live /\ sess[s].ctx # None
                       /\ \A x \in Frames : Call[x].s = s => Call[x].op \in {"invoke", "cancel"}
    /\ sess[s].live /\ sess[s].ctx = None => \E x \in Frames : Call[x].s = s /\ Call[x].op = "open"
OpenOK == \A s \in Sessions : HandleOK(s)

\* The calls that s->ref_count counts.
UsersOf(s) == {x \in Frames : Uses(Call[x]) /\ Call[x].s = s}
SessRefs == \A s \in Sessions : sess[s].live => sess[s].ref = Cardinality(UsersOf(s))

\* A close that has freed its session and not dropped the context yet.
Closing(f) == f.op = "close" /\ f.pc \in {"clear", "drop"}

\* What a call that names a context finds there.
CtxCall(f, k) ==
    /\ k.live
    /\ f.pc = "release" => k.panicked
    /\ f.pc = "body" /\ k.uuid \notin Pseudo => k.vm
CtxCalls == \A x \in Frames : Call[x].c # None => CtxCall(Call[x], ctx[Call[x].c])

\* A context that is being loaded is known to one call and its session only.
LoadOK ==
    \A x \in Frames :
        LET f == Call[x] IN
        f.pc = "ldelf" =>
            /\ ctx[f.c].initializing /\ ctx[f.c].uuid = f.uuid
            /\ \A y \in Frames : Call[y].c = f.c => y = x
            /\ \A s \in Sessions : sess[s].live /\ sess[s].ctx = f.c => s = f.s

\* A context that is being destroyed is out of the list, without references.
DestroyOK ==
    \A x \in Frames :
        LET f == Call[x] IN
        f.pc = "destroy" =>
            /\ ctx[f.c].ref = 0
            /\ \A i \in DOMAIN tee_ctxes : tee_ctxes[i] # f.c
            /\ \A y \in Frames : Call[y].pc = "destroy" /\ Call[y].c = f.c => y = x

\* The list has usable contexts, once each.
ListOK ==
    \A i \in DOMAIN tee_ctxes :
        /\ ctx[tee_ctxes[i]].live /\ ~ctx[tee_ctxes[i]].releasing
        /\ \A j \in DOMAIN tee_ctxes : tee_ctxes[i] = tee_ctxes[j] => i = j

\* A context that is not single instance has one session; a user TA keeps its
\* mappings until it has panicked, and a pseudo TA never panics.
InfoOK(c) ==
    ctx[c].live =>
        /\ ctx[c].uuid \in Uuids
        /\ ~Has(c, "SINGLE_INSTANCE") => ctx[c].ref <= 1
        /\ ctx[c].uuid \notin Pseudo /\ ~ctx[c].panicked => ctx[c].vm
        /\ ctx[c].panicked => ctx[c].uuid \notin Pseudo
CtxInfo == \A c \in Ctxs : InfoOK(c)

\* What ctx->ref_count counts.
SessionsOf(c) == {s \in Sessions : sess[s].live /\ sess[s].ctx = c}
ClosesOf(c) == {x \in Frames : Closing(Call[x]) /\ Call[x].c = c}
RefOK(c) ==
    IF ctx[c].live THEN ctx[c].ref = Cardinality(SessionsOf(c)) + Cardinality(ClosesOf(c))
                   ELSE SessionsOf(c) = {} /\ ClosesOf(c) = {}
CtxRefs == \A c \in Ctxs : RefOK(c)

\* One call is in a context, and ctx->busy says so.
BusyOK ==
    /\ \A x, y \in Frames :
          (/\ Call[x].busy /\ Call[y].busy /\ Call[x].c = Call[y].c
           /\ ~Has(Call[x].c, "CONCURRENT")) => x = y
    /\ \A c \in Ctxs : ctx[c].live /\ ~Has(c, "CONCURRENT") =>
          (ctx[c].busy <=> \E x \in Frames : Call[x].busy /\ Call[x].c = c)

\* The calls that are counted by the single-instance lock.
SiCall(f) == f.busy /\ NeedsSiLock(f.c) /\ ~Has(f.c, "CONCURRENT")
SiCalls == {x \in Frames : SiCall(Call[x])}
SiOK ==
    /\ siCount = Cardinality(SiCalls)
    /\ \A x \in SiCalls : x[1] = siThread
    /\ siCount = 0 <=> siThread = None

\* The invariant.
SessOK == UsesOK /\ AloneOK /\ OpenOK /\ SessRefs
CtxOK == CtxCalls /\ LoadOK /\ DestroyOK /\ ListOK /\ CtxInfo /\ CtxRefs
Inv == TypeOK /\ StackOK /\ SessOK /\ CtxOK /\ BusyOK /\ SiOK

-----------------------------------------------------------------------------
(* Calls *)

\* Where each wait label resumes.
LEMMA ResumeIs ==
    /\ DOMAIN Resume = {"wait_init", "wait_si", "wait_busy", "wait_lock", "wait_refc"}
    /\ Resume["wait_init"] = "find" /\ Resume["wait_si"] = "set_busy"
    /\ Resume["wait_busy"] = "set_busy" /\ Resume["wait_lock"] = "relock"
    /\ Resume["wait_refc"] = "unlinked"
BY DEF Resume

\* Norm() moves a call that waits and leaves the rest of it.
LEMMA NormIs ==
    ASSUME NEW f \in CallType
    PROVE  /\ Norm(f).op = f.op /\ Norm(f).s = f.s /\ Norm(f).c = f.c /\ Norm(f).owner = f.owner
           /\ Norm(f).uuid = f.uuid /\ Norm(f).busy = f.busy /\ Norm(f).ok = f.ok
           /\ Norm(f).pc = IF f.pc \in DOMAIN Resume THEN Resume[f.pc] ELSE f.pc
           /\ Norm(f) \in CallType
           /\ Norm(f).pc \notin DOMAIN Resume
           /\ f.pc \notin DOMAIN Resume => Norm(f) = f
BY ResumeIs DEF Norm, CallType, Labels

\* The type of the stacks, the threads a signal may wake, and the place of the
\* innermost call.
Stacks == [Threads -> Seq(CallType)]
Asleep(u) == u \in Threads /\ stack[u] # <<>> /\ Top(u).pc \in DOMAIN Resume
Place(t) == <<t, Len(stack[t])>>

\* A step changes, adds or takes away one call.
Changed(x, f) ==
    /\ x \in Frames /\ Frames' = Frames /\ Call'[x] = f
    /\ \A y \in Frames \ {x} : Call'[y] = Call[y]
Pushed(x, f) ==
    /\ x \notin Frames /\ Frames' = Frames \cup {x} /\ Call'[x] = f
    /\ \A y \in Frames : Call'[y] = Call[y]
Popped(x) ==
    /\ x \in Frames /\ Frames' = Frames \ {x}
    /\ \A y \in Frames \ {x} : Call'[y] = Call[y]

\* The places of the calls.
FramesAre == Frames = {x \in Threads \X Nat : x[2] \in 1 .. Len(stack[x[1]])}

\* The places of the calls are the positions of the stacks.
LEMMA FramesIs == stack \in Stacks => FramesAre
BY DEF Frames, Stacks, FramesAre

\* The same after a step.
LEMMA FramesNext == stack' \in Stacks => FramesAre'
<1>1. (stack \in Stacks)' => FramesAre'
  BY FramesIs, PTL
<1> QED
  BY <1>1 DEF Stacks

\* The innermost call of a thread that runs something.
LEMMA TopIs ==
    ASSUME stack \in Stacks, NEW t \in Threads, stack[t] # <<>>
    PROVE  /\ Len(stack[t]) \in Nat \ {0} /\ Top(t) \in CallType
           /\ Place(t) \in Frames
           /\ Call[Place(t)] = Norm(Top(t))
           /\ F(Place(t)) = Top(t)
<1>1. Len(stack[t]) \in Nat \ {0} /\ Top(t) \in CallType
  BY DEF Stacks, Top
<1>2. Place(t) \in Frames
  BY <1>1, FramesIs DEF Place, FramesAre
<1> QED
  BY <1>1, <1>2 DEF Call, F, Place, Top

\* A step moves the calls of its thread; the threads it wakes go on where Norm()
\* already saw them.
LEMMA SleepersNext ==
    ASSUME stack \in Stacks, NEW t \in Threads, NEW W, \A u \in W : Asleep(u),
           NEW st \in Seq(CallType), Move(t, st, W)
    PROVE  /\ stack' \in Stacks /\ stack'[t] = st
           /\ \A u \in Threads \ {t} : 
                 /\ Len(stack'[u]) = Len(stack[u])
                 /\ \A i \in 1 .. Len(stack[u]) : Norm(stack'[u][i]) = Norm(stack[u][i])
<1>1. stack'[t] = st
  BY DEF Move
<1>2. ASSUME NEW u \in Threads \ {t}
      PROVE  /\ stack'[u] \in Seq(CallType) /\ Len(stack'[u]) = Len(stack[u])
             /\ \A i \in 1 .. Len(stack[u]) : Norm(stack'[u][i]) = Norm(stack[u][i])
  <2>1. CASE u \notin W
    BY <2>1 DEF Move, Stacks
  <2>2. CASE u \in W
    <3> DEFINE n == Len(stack[u])
               f == [stack[u][n] EXCEPT !.pc = Resume[@]]
    <3>1. /\ stack[u] \in Seq(CallType) /\ n \in Nat \ {0} /\ stack[u][n] \in CallType
          /\ stack[u][n].pc \in DOMAIN Resume
      BY <2>2, TopIs DEF Asleep, Stacks, Top
    <3>2. stack'[u] = [stack[u] EXCEPT ![n] = f]
      BY <2>2 DEF Move, Top
    <3>3. f \in CallType
      BY <3>1, ResumeIs DEF CallType, Labels
    <3>4. /\ stack'[u] \in Seq(CallType) /\ Len(stack'[u]) = n /\ stack'[u][n] = f
          /\ \A i \in 1 .. n : i # n => stack'[u][i] = stack[u][i]
      BY <3>1, <3>2, <3>3
    <3>5. Norm(f) = Norm(stack[u][n])
      BY <3>1, ResumeIs DEF Norm, CallType
    <3> QED
      BY <3>4, <3>5
  <2> QED
    BY <2>1, <2>2
<1>3. stack' \in Stacks
  BY <1>1, <1>2 DEF Move, Stacks
<1> QED
  BY <1>1, <1>2, <1>3

\* The calls after a step, place by place.
LEMMA CallNext ==
    ASSUME stack \in Stacks, NEW t \in Threads, NEW W, \A u \in W : Asleep(u),
           NEW st \in Seq(CallType), Move(t, st, W)
    PROVE  /\ stack' \in Stacks
           /\ \A u \in Threads, i \in Nat : 
                 <<u, i>> \in Frames' <=> IF u = t THEN i \in 1 .. Len(st)
                                          ELSE <<u, i>> \in Frames
           /\ \A x \in Frames : x[1] # t => Call'[x] = Call[x]
           /\ \A i \in 1 .. Len(st) : Call'[<<t, i>>] = Norm(st[i])
<1>1. /\ stack' \in Stacks /\ stack'[t] = st
      /\ \A u \in Threads \ {t} :
            /\ Len(stack'[u]) = Len(stack[u])
            /\ \A i \in 1 .. Len(stack[u]) : Norm(stack'[u][i]) = Norm(stack[u][i])
  BY SleepersNext, Zenon
<1>2. /\ Frames = {x \in Threads \X Nat : x[2] \in 1 .. Len(stack[x[1]])}
      /\ Frames' = {x \in Threads \X Nat : x[2] \in 1 .. Len(stack'[x[1]])}
  BY <1>1, FramesIs, FramesNext DEF FramesAre
<1>3. \A u \in Threads, i \in Nat : 
         <<u, i>> \in Frames' <=> IF u = t THEN i \in 1 .. Len(st) ELSE <<u, i>> \in Frames
  BY <1>1, <1>2
<1>4. Call' = [x \in Frames' |-> Norm(stack'[x[1]][x[2]])]
  BY DEF Call, F
<1>5. Call = [x \in Frames |-> Norm(stack[x[1]][x[2]])]
  BY DEF Call, F
<1>6. ASSUME NEW x \in Frames, x[1] # t
      PROVE  Call'[x] = Call[x]
  <2>1. x[1] \in Threads \ {t} /\ x[2] \in 1 .. Len(stack[x[1]]) /\ x = <<x[1], x[2]>> /\ x[2] \in Nat
    BY <1>2, <1>6
  <2>2. x \in Frames'
    BY <1>3, <1>6, <2>1
  <2> QED
    BY <1>1, <1>4, <1>5, <2>1, <2>2
<1>7. ASSUME NEW i \in 1 .. Len(st)
      PROVE  Call'[<<t, i>>] = Norm(st[i])
  <2>1. <<t, i>> \in Frames'
    BY <1>3
  <2> QED
    BY <1>1, <1>4, <2>1
<1> QED
  BY <1>1, <1>3, <1>6, <1>7

\* A place is a thread and a position in its stack.
LEMMA FramePairs ==
    ASSUME stack \in Stacks, NEW x \in Frames
    PROVE  /\ x = <<x[1], x[2]>> /\ x[1] \in Threads /\ x[2] \in Nat \ {0}
           /\ x[2] <= Len(stack[x[1]]) /\ stack[x[1]] # <<>>
           /\ F(x) \in CallType /\ Call[x] = Norm(F(x))
<1>1. /\ x = <<x[1], x[2]>> /\ x[1] \in Threads /\ x[2] \in Nat \ {0}
      /\ x[2] \in 1 .. Len(stack[x[1]])
  BY FramesIs DEF FramesAre
<1> QED
  BY <1>1 DEF F, Stacks, Call

\* A step that replaces the innermost call changes one call.
LEMMA WithChanges ==
    ASSUME stack \in Stacks, NEW t \in Threads, stack[t] # <<>>,
           NEW W, \A u \in W : Asleep(u), NEW f \in CallType, Move(t, With(t, f), W)
    PROVE  stack' \in Stacks /\ Changed(Place(t), Norm(f))
<1> DEFINE n == Len(stack[t])
           st == With(t, f)
<1>1. n \in Nat \ {0} /\ stack[t] \in Seq(CallType) /\ Place(t) \in Frames
  BY TopIs DEF Stacks
<1>2. /\ st \in Seq(CallType) /\ Len(st) = n /\ st[n] = f
      /\ \A i \in 1 .. n : i # n => st[i] = stack[t][i]
  BY <1>1 DEF With
<1> HIDE DEF st, n
<1>3. /\ stack' \in Stacks
      /\ \A u \in Threads, i \in Nat : 
            <<u, i>> \in Frames' <=> IF u = t THEN i \in 1 .. Len(st)
                                     ELSE <<u, i>> \in Frames
      /\ \A x \in Frames : x[1] # t => Call'[x] = Call[x]
      /\ \A i \in 1 .. Len(st) : Call'[<<t, i>>] = Norm(st[i])
  BY <1>2, CallNext, Zenon DEF st
<1>4. FramesAre /\ FramesAre'
  BY <1>3, FramesIs, FramesNext
<1>5. Frames' = Frames
  BY <1>2, <1>3, <1>4 DEF FramesAre, n
<1>6. ASSUME NEW y \in Frames, y # Place(t)
      PROVE  Call'[y] = Call[y]
  <2>1. CASE y[1] # t
    BY <1>3, <2>1
  <2>2. CASE y[1] = t
    <3>1. y = <<t, y[2]>> /\ y[2] \in 1 .. n /\ y[2] # n
      BY <1>1, <1>6, <2>2, FramePairs DEF Place, n
    <3>2. Call'[y] = Norm(st[y[2]])
      BY <1>2, <1>3, <3>1
    <3>3. Call[y] = Norm(stack[t][y[2]])
      BY <2>2, FramePairs DEF F
    <3> QED
      BY <1>2, <3>1, <3>2, <3>3
  <2> QED
    BY <2>1, <2>2
<1>7. Call'[Place(t)] = Norm(f)
  BY <1>1, <1>2, <1>3 DEF Place, n
<1> QED
  BY <1>1, <1>3, <1>5, <1>6, <1>7 DEF Changed

\* A step that makes a call adds one.
LEMMA CallPushes ==
    ASSUME stack \in Stacks, NEW t \in Threads,
           NEW W, \A u \in W : Asleep(u), NEW f \in CallType, Move(t, Append(stack[t], f), W)
    PROVE  stack' \in Stacks /\ Pushed(<<t, Len(stack[t]) + 1>>, Norm(f))
<1> DEFINE n == Len(stack[t]) + 1
           st == Append(stack[t], f)
<1>1. n \in Nat \ {0} /\ stack[t] \in Seq(CallType)
  BY DEF Stacks
<1>2. /\ st \in Seq(CallType) /\ Len(st) = n /\ st[n] = f
      /\ \A i \in 1 .. n : i # n => st[i] = stack[t][i]
  BY <1>1
<1> HIDE DEF st
<1>3. /\ stack' \in Stacks
      /\ \A u \in Threads, i \in Nat : 
            <<u, i>> \in Frames' <=> IF u = t THEN i \in 1 .. Len(st)
                                     ELSE <<u, i>> \in Frames
      /\ \A x \in Frames : x[1] # t => Call'[x] = Call[x]
      /\ \A i \in 1 .. Len(st) : Call'[<<t, i>>] = Norm(st[i])
  BY <1>2, CallNext, Zenon DEF st
<1>4. FramesAre /\ FramesAre'
  BY <1>3, FramesIs, FramesNext
<1>5. Frames' = Frames \cup {<<t, n>>} /\ <<t, n>> \notin Frames
  BY <1>1, <1>2, <1>3, <1>4 DEF FramesAre
<1>6. ASSUME NEW y \in Frames
      PROVE  Call'[y] = Call[y]
  <2>1. CASE y[1] # t
    BY <1>3, <2>1
  <2>2. CASE y[1] = t
    <3>1. y = <<t, y[2]>> /\ y[2] \in 1 .. n /\ y[2] # n
      BY <1>1, <1>6, <2>2, FramePairs
    <3>2. Call'[y] = Norm(st[y[2]])
      BY <1>2, <1>3, <3>1
    <3>3. Call[y] = Norm(stack[t][y[2]])
      BY <2>2, FramePairs DEF F
    <3> QED
      BY <1>2, <3>1, <3>2, <3>3
  <2> QED
    BY <2>1, <2>2
<1>7. Call'[<<t, n>>] = Norm(f)
  BY <1>1, <1>2, <1>3
<1> QED
  BY <1>1, <1>3, <1>5, <1>6, <1>7 DEF Pushed

\* A step that returns takes one away.
LEMMA ReturnPops ==
    ASSUME stack \in Stacks, NEW t \in Threads, stack[t] # <<>>,
           NEW W, \A u \in W : Asleep(u), Move(t, Return(t), W)
    PROVE  stack' \in Stacks /\ Popped(Place(t))
<1> DEFINE n == Len(stack[t])
           st == Return(t)
<1>1. n \in Nat \ {0} /\ stack[t] \in Seq(CallType) /\ Place(t) \in Frames
  BY TopIs DEF Stacks
<1>2. /\ st \in Seq(CallType) /\ Len(st) = n - 1
      /\ \A i \in 1 .. n - 1 : st[i] = stack[t][i]
  BY <1>1 DEF Return
<1> HIDE DEF st, n
<1>3. /\ stack' \in Stacks
      /\ \A u \in Threads, i \in Nat : 
            <<u, i>> \in Frames' <=> IF u = t THEN i \in 1 .. Len(st)
                                     ELSE <<u, i>> \in Frames
      /\ \A x \in Frames : x[1] # t => Call'[x] = Call[x]
      /\ \A i \in 1 .. Len(st) : Call'[<<t, i>>] = Norm(st[i])
  BY <1>2, CallNext, Zenon DEF st
<1>4. FramesAre /\ FramesAre'
  BY <1>3, FramesIs, FramesNext
<1>5. Frames' = Frames \ {Place(t)}
  <2>1. ASSUME NEW u \in Threads, NEW i \in Nat
        PROVE  <<u, i>> \in Frames' <=> <<u, i>> \in Frames /\ <<u, i>> # Place(t)
    BY <1>1, <1>2, <1>3, <1>4 DEF FramesAre, n, Place
  <2> QED
    BY <1>4, <2>1 DEF FramesAre
<1>6. ASSUME NEW y \in Frames, y # Place(t)
      PROVE  Call'[y] = Call[y]
  <2>1. CASE y[1] # t
    BY <1>3, <2>1
  <2>2. CASE y[1] = t
    <3>1. y = <<t, y[2]>> /\ y[2] \in 1 .. n - 1
      BY <1>1, <1>6, <2>2, FramePairs DEF Place, n
    <3>2. Call'[y] = Norm(st[y[2]])
      BY <1>2, <1>3, <3>1
    <3>3. Call[y] = Norm(stack[t][y[2]])
      BY <2>2, FramePairs DEF F
    <3> QED
      BY <1>2, <3>1, <3>2, <3>3
  <2> QED
    BY <2>1, <2>2
<1> QED
  BY <1>1, <1>3, <1>5, <1>6 DEF Popped

-----------------------------------------------------------------------------
(* The stacks *)

\* The other calls find the same TAs as before.
UuidsKept(x) ==
    \A y \in Frames \ {x} : Call[y].c # None => ctx'[Call[y].c].uuid = ctx[Call[y].c].uuid

\* The callers stay right when the innermost call changes and keeps its owner.
LEMMA StackChanged ==
    ASSUME stack \in Stacks, StackOK, NEW t \in Threads, stack[t] # <<>>, stack' \in Stacks,
           NEW g, Changed(Place(t), g), CallOK(g), g.owner = Call[Place(t)].owner,
           g.op = Call[Place(t)].op \/ g.op = "close", UuidsKept(Place(t))
    PROVE  StackOK'
<1> DEFINE x == Place(t)
<1>1. /\ x \in Frames /\ Frames' = Frames /\ Call'[x] = g
      /\ \A y \in Frames \ {x} : Call'[y] = Call[y]
  BY DEF Changed
<1>2. \A y \in Frames : y = <<y[1], y[2]>> /\ y[2] \in Nat \ {0} /\ <<y[1], y[2] - 1>> # x
  BY FramePairs DEF Place
<1>3. ASSUME NEW y \in Frames, y[2] # 1
      PROVE  <<y[1], y[2] - 1>> \in Frames \ {x}
  BY <1>2, <1>3, FramesIs DEF FramesAre
<1>4. ASSUME NEW y \in Frames, y[2] # 1
      PROVE  Calls(Call[<<y[1], y[2] - 1>>], Call[y])'
  <2> DEFINE z == <<y[1], y[2] - 1>>
  <2>1. z \in Frames \ {x} /\ Calls(Call[z], Call[y]) /\ Call'[z] = Call[z]
    BY <1>1, <1>3, <1>4 DEF StackOK
  <2> HIDE DEF z
  <2>2. ctx'[Call[z].c].uuid = ctx[Call[z].c].uuid
    BY <2>1 DEF UuidsKept, Calls
  <2>3. CASE y = x
    BY <1>1, <2>1, <2>2, <2>3 DEF Calls, z
  <2>4. CASE y # x
    BY <1>1, <2>1, <2>2, <2>4 DEF Calls, z
  <2> QED
    BY <2>3, <2>4
<1>5. ASSUME NEW y \in Frames
      PROVE  /\ CallOK(Call[y])'
             /\ y[2] = 1 => Call'[y].owner = None
  <2>1. CASE y = x
    BY <1>1, <2>1 DEF CallOK, StackOK
  <2>2. CASE y # x
    BY ZenonT(60), <1>1, <2>2 DEF CallOK, StackOK
  <2> QED
    BY <2>1, <2>2
<1> QED
  BY <1>1, <1>4, <1>5 DEF StackOK

\* They stay right when the call below makes the new one.
LEMMA StackPushed ==
    ASSUME stack \in Stacks, StackOK, NEW t \in Threads, stack' \in Stacks, ctx' = ctx,
           NEW g, Pushed(<<t, Len(stack[t]) + 1>>, g), CallOK(g),
           IF stack[t] = <<>> THEN g.owner = None ELSE Calls(Call[Place(t)], g)
    PROVE  StackOK'
<1>0. PICK n : n = Len(stack[t])
  OBVIOUS
<1> DEFINE x == <<t, n + 1>>
<1>1. /\ x \notin Frames /\ Frames' = Frames \cup {x} /\ Call'[x] = g
      /\ \A y \in Frames : Call'[y] = Call[y]
  BY <1>0 DEF Pushed
<1>2. n \in Nat /\ (stack[t] = <<>> <=> n = 0)
  BY <1>0 DEF Stacks
<1>3. \A y \in Frames : y = <<y[1], y[2]>> /\ y[2] \in Nat \ {0}
  BY FramePairs
<1>4. ASSUME NEW y \in Frames
      PROVE  /\ CallOK(Call[y])' /\ y[2] = 1 => Call'[y].owner = None
             /\ y[2] # 1 => Calls(Call[<<y[1], y[2] - 1>>], Call[y])'
  <2>1. y[2] # 1 => <<y[1], y[2] - 1>> \in Frames
    BY <1>3, FramesIs DEF FramesAre
  <2> QED
    BY <1>1, <2>1 DEF CallOK, StackOK, Calls
<1>5. x[2] # 1 => Calls(Call[<<x[1], x[2] - 1>>], Call[x])'
  <2> SUFFICES ASSUME x[2] # 1
               PROVE  Calls(Call[<<x[1], x[2] - 1>>], Call[x])'
    OBVIOUS
  <2>1. stack[t] # <<>> /\ <<x[1], x[2] - 1>> = Place(t) /\ Place(t) \in Frames
    BY <1>0, <1>2, TopIs DEF Place
  <2> QED
    BY <1>1, <2>1 DEF Calls
<1>6. CallOK(Call[x])' /\ (x[2] = 1 => Call'[x].owner = None)
  BY <1>1, <1>2 DEF CallOK
<1>7. IsFiniteSet(Frames')
  BY <1>1, FS_AddElement DEF StackOK
<1> QED
  BY <1>1, <1>4, <1>5, <1>6, <1>7 DEF StackOK

\* They stay right when the innermost call returns.
LEMMA StackPopped ==
    ASSUME stack \in Stacks, StackOK, NEW t \in Threads, stack[t] # <<>>, stack' \in Stacks,
           Popped(Place(t)), UuidsKept(Place(t))
    PROVE  StackOK'
<1> DEFINE x == Place(t)
<1>1. /\ x \in Frames /\ Frames' = Frames \ {x}
      /\ \A y \in Frames \ {x} : Call'[y] = Call[y]
  BY DEF Popped
<1>2. \A y \in Frames : y = <<y[1], y[2]>> /\ y[2] \in Nat \ {0} /\ <<y[1], y[2] - 1>> # x
  BY FramePairs DEF Place
<1>3. ASSUME NEW y \in Frames \ {x}
      PROVE  /\ CallOK(Call[y])' /\ y[2] = 1 => Call'[y].owner = None
             /\ y[2] # 1 => Calls(Call[<<y[1], y[2] - 1>>], Call[y])'
  <2>1. y[2] # 1 => <<y[1], y[2] - 1>> \in Frames \ {x}
    BY <1>2, FramesIs DEF FramesAre
  <2> QED
    BY <1>1, <2>1 DEF CallOK, StackOK, Calls, UuidsKept
<1>4. IsFiniteSet(Frames')
  BY <1>1, FS_RemoveElement DEF StackOK
<1> QED
  BY <1>1, <1>3, <1>4 DEF StackOK

-----------------------------------------------------------------------------
(* Steps that leave the sessions alone *)

\* The call stays at the same session, with what it holds of it.
SameUse(f, g) ==
    /\ g.s = f.s /\ g.op = f.op /\ g.owner = f.owner
    /\ Uses(g) <=> Uses(f)
    /\ Locks(g) <=> Locks(f)
    /\ Uses(g) => g.c = f.c \/ (g.c # None /\ g.c = sess[g.s].ctx)

\* The sessions stay right when a call moves and keeps what it uses.
LEMMA SessChanged ==
    ASSUME SessOK, sess' = sess, NEW x, NEW g, Changed(x, g), SameUse(Call[x], g)
    PROVE  SessOK'
<1>1. /\ x \in Frames /\ Frames' = Frames /\ Call'[x] = g
      /\ \A y \in Frames \ {x} : Call'[y] = Call[y]
  BY DEF Changed
<1>2. \A y \in Frames : SameUse(Call[y], Call'[y])
  BY <1>1 DEF SameUse
<1>3. UsesOK'
  BY <1>1, <1>2 DEF SessOK, UsesOK, UseOK, SameUse
<1>4. AloneOK'
  <2>1. ASSUME NEW y \in Frames, NEW z \in Frames, y # z
        PROVE  Compatible(Call'[y], Call'[z])
    <3>1. Compatible(Call[y], Call[z])
      BY <2>1 DEF SessOK, AloneOK
    <3>2. SameUse(Call[y], Call'[y]) /\ SameUse(Call[z], Call'[z])
      BY <1>2
    <3> QED
      BY <3>1, <3>2 DEF SameUse, Compatible
  <2> QED
    BY <1>1, <2>1 DEF AloneOK, Compatible, Locks, Uses
<1>5. OpenOK'
  BY <1>1, <1>2 DEF SessOK, OpenOK, HandleOK, SameUse
<1>6. ASSUME NEW s \in Sessions PROVE UsersOf(s)' = UsersOf(s)
  BY <1>1, <1>2 DEF UsersOf, SameUse, Uses
<1>7. SessRefs'
  BY <1>6 DEF SessOK, SessRefs
<1> QED
  BY <1>3, <1>4, <1>5, <1>7 DEF SessOK

\* They stay right when a call returns that uses no session.
LEMMA SessPopped ==
    ASSUME SessOK, sess' = sess, NEW x, Popped(x), ~Uses(Call[x]),
           Call[x].op = "open" => Call[x].s = None, None \notin Sessions
    PROVE  SessOK'
<1>1. /\ x \in Frames /\ Frames' = Frames \ {x}
      /\ \A y \in Frames \ {x} : Call'[y] = Call[y]
  BY DEF Popped
<1>3. UsesOK'
  BY <1>1 DEF SessOK, UsesOK, UseOK, Uses, Locks
<1>4. AloneOK'
  BY <1>1 DEF SessOK, AloneOK, Compatible, Locks, Uses
<1>5. OpenOK'
  BY <1>1 DEF SessOK, OpenOK, HandleOK
<1>6. ASSUME NEW s \in Sessions PROVE UsersOf(s)' = UsersOf(s)
  BY <1>1 DEF UsersOf, Uses
<1>7. SessRefs'
  BY <1>6 DEF SessOK, SessRefs
<1> QED
  BY <1>3, <1>4, <1>5, <1>7 DEF SessOK

\* They stay right when a call is made that names no session yet.
LEMMA SessPushed ==
    ASSUME SessOK, sess' = sess, NEW x, NEW g, Pushed(x, g), ~Uses(g), g.s = None,
           None \notin Sessions
    PROVE  SessOK'
<1>1. /\ x \notin Frames /\ Frames' = Frames \cup {x} /\ Call'[x] = g
      /\ \A y \in Frames : Call'[y] = Call[y]
  BY DEF Pushed
<1>3. UsesOK'
  BY <1>1 DEF SessOK, UsesOK, UseOK, Uses, Locks
<1>4. AloneOK'
  <2>1. ASSUME NEW y \in Frames', NEW z \in Frames', y # z
        PROVE  Compatible(Call'[y], Call'[z])
    BY <1>1, <2>1 DEF SessOK, AloneOK, Compatible
  <2> QED
    BY <2>1 DEF AloneOK, Compatible, Locks, Uses
<1>5. OpenOK'
  BY <1>1 DEF SessOK, OpenOK, HandleOK
<1>6. ASSUME NEW s \in Sessions PROVE UsersOf(s)' = UsersOf(s)
  BY <1>1 DEF UsersOf, Uses
<1>7. SessRefs'
  BY <1>6 DEF SessOK, SessRefs
<1> QED
  BY <1>3, <1>4, <1>5, <1>7 DEF SessOK

-----------------------------------------------------------------------------
(* Steps that leave the contexts alone *)

\* No context changes, but for ctx->busy, and none gets or loses a session.
CtxSame ==
    /\ tee_ctxes' = tee_ctxes
    /\ \A c \in Ctxs :
          /\ ctx'[c].uuid = ctx[c].uuid /\ ctx'[c].ref = ctx[c].ref
          /\ ctx'[c].live <=> ctx[c].live
          /\ ctx'[c].panicked <=> ctx[c].panicked
          /\ ctx'[c].releasing <=> ctx[c].releasing
          /\ ctx'[c].initializing <=> ctx[c].initializing
          /\ ctx'[c].vm <=> ctx[c].vm
    /\ \A s \in Sessions, c \in Ctxs :
          (sess'[s].live /\ sess'[s].ctx = c) <=> (sess[s].live /\ sess[s].ctx = c)

\* What the contexts need of call g, which may have found its context.
FitsCtx(x, g) ==
    /\ g.c \in Ctxs \cup {None}
    /\ g.c # None => ctx[g.c].live
    /\ g.pc \in {"release", "body"} => g.c # None
    /\ g.pc \notin {"ldelf", "destroy"}
    /\ g.pc = "release" => ctx[g.c].panicked
    /\ g.pc = "body" /\ ctx[g.c].uuid \notin Pseudo => ctx[g.c].vm
    /\ g.c # None => \A y \in Frames \ {x} : Call[y].pc = "ldelf" => Call[y].c # g.c

\* All calls refer to contexts that exist.
CallTypes == \A x \in Frames : Call[x] \in CallType

\* The calls on the stacks, and so the ones after Norm(), have their type.
LEMMA StacksTyped == stack \in Stacks => CallTypes
BY FramePairs, NormIs DEF Stacks, CallTypes

\* The same from the type invariant.
LEMMA TypedCalls ==
    ASSUME TypeOK
    PROVE  stack \in Stacks /\ CallTypes
BY StacksTyped DEF TypeOK, Stacks

\* The same after a step.
LEMMA TypedCallsNext == stack' \in Stacks => CallTypes'
<1>1. (stack \in Stacks)' => CallTypes'
  BY StacksTyped, PTL
<1> QED
  BY <1>1 DEF Stacks

\* A call that is in its context, or loads or destroys it, knows which it is.
CtxNamed ==
    \A y \in Frames :
        /\ Call[y].c \in Ctxs \cup {None}
        /\ Call[y].pc \in {"ldelf", "destroy", "release", "body"} => Call[y].c \in Ctxs

\* It follows from what a call knows at its place.
LEMMA NamedCtx ==
    ASSUME CallTypes, StackOK
    PROVE  CtxNamed
BY DEF CallTypes, CallType, StackOK, CallOK, CtxNamed

\* The contexts stay right when a call moves that does not enter or leave the
\* count of a context.
LEMMA CtxChanged ==
    ASSUME CtxOK, CtxNamed, None \notin Ctxs, tee_ctxes \in Seq(Ctxs), CtxSame, NEW x, NEW g,
           Changed(x, g), FitsCtx(x, g),
           Closing(g) <=> Closing(Call[x]), Closing(g) => g.c = Call[x].c
    PROVE  CtxOK'
<1>1. /\ x \in Frames /\ Frames' = Frames /\ Call'[x] = g
      /\ \A y \in Frames \ {x} : Call'[y] = Call[y]
  BY DEF Changed
<1>2. \A y \in Frames :
         /\ Call[y].c \in Ctxs \cup {None}
         /\ Call[y].pc \in {"ldelf", "destroy", "release", "body"} => Call[y].c \in Ctxs
  BY DEF CtxNamed
<1>4. CtxCalls'
  BY <1>1, <1>2 DEF CtxOK, CtxCalls, CtxCall, CtxSame, FitsCtx
<1>5. LoadOK'
  BY <1>1, <1>2 DEF CtxOK, LoadOK, CtxSame, FitsCtx
<1>6. DestroyOK'
  BY <1>1, <1>2 DEF CtxOK, DestroyOK, CtxSame, FitsCtx
<1>7. ListOK'
  BY DEF CtxOK, ListOK, CtxSame
<1>8. CtxInfo'
  BY DEF CtxOK, CtxInfo, InfoOK, CtxSame, Has
<1>9. ASSUME NEW c \in Ctxs
      PROVE  SessionsOf(c)' = SessionsOf(c) /\ ClosesOf(c)' = ClosesOf(c)
  BY <1>1 DEF SessionsOf, ClosesOf, Closing, CtxSame
<1>10. CtxRefs'
  BY <1>9 DEF CtxOK, CtxRefs, RefOK, CtxSame
<1> QED
  BY <1>4, <1>5, <1>6, <1>7, <1>8, <1>10 DEF CtxOK

\* They stay right when a call returns that holds no reference.
LEMMA CtxPopped ==
    ASSUME CtxOK, CtxNamed, None \notin Ctxs, tee_ctxes \in Seq(Ctxs), CtxSame, NEW x,
           Popped(x), ~Closing(Call[x])
    PROVE  CtxOK'
<1>1. /\ x \in Frames /\ Frames' = Frames \ {x}
      /\ \A y \in Frames \ {x} : Call'[y] = Call[y]
  BY DEF Popped
<1>2. \A y \in Frames :
         /\ Call[y].c \in Ctxs \cup {None}
         /\ Call[y].pc \in {"ldelf", "destroy", "release", "body"} => Call[y].c \in Ctxs
  BY DEF CtxNamed
<1>4. CtxCalls'
  BY <1>1, <1>2 DEF CtxOK, CtxCalls, CtxCall, CtxSame
<1>5. LoadOK'
  BY <1>1, <1>2 DEF CtxOK, LoadOK, CtxSame, CtxCalls, CtxCall
<1>6. DestroyOK'
  BY <1>1, <1>2 DEF CtxOK, DestroyOK, CtxSame
<1>7. ListOK'
  BY DEF CtxOK, ListOK, CtxSame
<1>8. CtxInfo'
  BY DEF CtxOK, CtxInfo, InfoOK, CtxSame, Has
<1>9. ASSUME NEW c \in Ctxs
      PROVE  SessionsOf(c)' = SessionsOf(c) /\ ClosesOf(c)' = ClosesOf(c)
  BY <1>1 DEF SessionsOf, ClosesOf, Closing, CtxSame
<1>10. CtxRefs'
  BY <1>9 DEF CtxOK, CtxRefs, RefOK, CtxSame
<1> QED
  BY <1>4, <1>5, <1>6, <1>7, <1>8, <1>10 DEF CtxOK

\* They stay right when a call is made.
LEMMA CtxPushed ==
    ASSUME CtxOK, CtxNamed, None \notin Ctxs, tee_ctxes \in Seq(Ctxs), CtxSame, NEW x, NEW g,
           Pushed(x, g), g.c = None, g.pc \in {"open", "get"}
    PROVE  CtxOK'
<1>1. /\ x \notin Frames /\ Frames' = Frames \cup {x} /\ Call'[x] = g
      /\ \A y \in Frames : Call'[y] = Call[y]
  BY DEF Pushed
<1>2. \A y \in Frames :
         /\ Call[y].c \in Ctxs \cup {None}
         /\ Call[y].pc \in {"ldelf", "destroy", "release", "body"} => Call[y].c \in Ctxs
  BY DEF CtxNamed
<1>4. CtxCalls'
  BY <1>1, <1>2 DEF CtxOK, CtxCalls, CtxCall, CtxSame
<1>5. LoadOK'
  BY <1>1, <1>2 DEF CtxOK, LoadOK, CtxSame
<1>6. DestroyOK'
  BY <1>1, <1>2 DEF CtxOK, DestroyOK, CtxSame
<1>7. ListOK'
  BY DEF CtxOK, ListOK, CtxSame
<1>8. CtxInfo'
  BY DEF CtxOK, CtxInfo, InfoOK, CtxSame, Has
<1>9. ASSUME NEW c \in Ctxs
      PROVE  SessionsOf(c)' = SessionsOf(c) /\ ClosesOf(c)' = ClosesOf(c)
  BY <1>1 DEF SessionsOf, ClosesOf, Closing, CtxSame
<1>10. CtxRefs'
  BY <1>9 DEF CtxOK, CtxRefs, RefOK, CtxSame
<1> QED
  BY <1>4, <1>5, <1>6, <1>7, <1>8, <1>10 DEF CtxOK

-----------------------------------------------------------------------------
(* Steps that enter and leave no TA *)

\* A context that a call is in stays what it is; another one is not busy.
BusySame ==
    /\ siThread' = siThread /\ siCount' = siCount
    /\ \A c \in Ctxs :
          \/ /\ ctx'[c].live <=> ctx[c].live
             /\ ctx'[c].busy <=> ctx[c].busy
             /\ ctx'[c].uuid = ctx[c].uuid
          \/ /\ \A y \in Frames : Call[y].c = c => ~Call[y].busy
             /\ ~ctx'[c].busy

\* A call that is in its TA knows which context that is.
BusyNamed == \A y \in Frames : Call[y].busy => Call[y].c \in Ctxs

\* It follows from what a call knows at its place.
LEMMA NamedBusy ==
    ASSUME CallTypes, StackOK, None \notin Ctxs
    PROVE  BusyNamed
BY DEF CallTypes, CallType, StackOK, CallOK, BusyNamed, InTa

\* ctx->busy and the single-instance lock stay right when a call moves inside or
\* outside its TA.
LEMMA BusyChanged ==
    ASSUME BusyOK, SiOK, BusyNamed, BusySame, NEW x, NEW g, Changed(x, g),
           g.busy <=> Call[x].busy, g.busy => g.c = Call[x].c
    PROVE  BusyOK' /\ SiOK'
<1>1. /\ x \in Frames /\ Frames' = Frames /\ Call'[x] = g
      /\ \A y \in Frames \ {x} : Call'[y] = Call[y]
  BY DEF Changed
<1>2. \A y \in Frames : /\ Call'[y].busy <=> Call[y].busy
                        /\ Call[y].busy => Call'[y].c = Call[y].c
  BY <1>1
<1>3. ASSUME NEW y \in Frames, Call[y].busy
      PROVE  /\ Call[y].c \in Ctxs /\ ctx'[Call[y].c].uuid = ctx[Call[y].c].uuid
  BY <1>3 DEF BusyNamed, BusySame
<1>4. BusyOK'
  <2>1. ASSUME NEW y \in Frames, NEW z \in Frames, Call'[y].busy, Call'[z].busy,
               Call'[y].c = Call'[z].c, ~Has(Call[y].c, "CONCURRENT")'
        PROVE  y = z
    BY <1>2, <1>3, <2>1 DEF BusyOK, Has
  <2>2. ASSUME NEW c \in Ctxs, ctx'[c].live, ~Has(c, "CONCURRENT")'
        PROVE  ctx'[c].busy <=> \E y \in Frames : Call'[y].busy /\ Call'[y].c = c
    BY <1>2, <1>3, <2>2 DEF BusyOK, Has, BusySame
  <2> QED
    BY <1>1, <2>1, <2>2 DEF BusyOK, Has
<1>5. SiCalls' = SiCalls
  BY <1>1, <1>2, <1>3 DEF SiCalls, SiCall, NeedsSiLock, Has
<1>6. SiOK'
  BY <1>5 DEF SiOK, BusySame
<1> QED
  BY <1>4, <1>6

\* They stay right when a call returns that is in no TA.
LEMMA BusyPopped ==
    ASSUME BusyOK, SiOK, BusyNamed, BusySame, NEW x, Popped(x), ~Call[x].busy
    PROVE  BusyOK' /\ SiOK'
<1>1. /\ x \in Frames /\ Frames' = Frames \ {x}
      /\ \A y \in Frames \ {x} : Call'[y] = Call[y]
  BY DEF Popped
<1>3. ASSUME NEW y \in Frames, Call[y].busy
      PROVE  /\ y \in Frames' /\ Call'[y] = Call[y]
             /\ Call[y].c \in Ctxs /\ ctx'[Call[y].c].uuid = ctx[Call[y].c].uuid
  BY <1>1, <1>3 DEF BusyNamed, BusySame
<1>4. BusyOK'
  <2>1. ASSUME NEW y \in Frames', NEW z \in Frames', Call'[y].busy, Call'[z].busy,
               Call'[y].c = Call'[z].c, ~Has(Call[y].c, "CONCURRENT")'
        PROVE  y = z
    BY <1>1, <1>3, <2>1 DEF BusyOK, Has
  <2>2. ASSUME NEW c \in Ctxs, ctx'[c].live, ~Has(c, "CONCURRENT")'
        PROVE  ctx'[c].busy <=> \E y \in Frames' : Call'[y].busy /\ Call'[y].c = c
    BY <1>1, <1>3, <2>2 DEF BusyOK, Has, BusySame
  <2> QED
    BY <2>1, <2>2 DEF BusyOK, Has
<1>5. SiCalls' = SiCalls
  BY <1>1, <1>3 DEF SiCalls, SiCall, NeedsSiLock, Has
<1>6. SiOK'
  BY <1>5 DEF SiOK, BusySame
<1> QED
  BY <1>4, <1>6

\* They stay right when a call is made.
LEMMA BusyPushed ==
    ASSUME BusyOK, SiOK, BusyNamed, BusySame, NEW x, NEW g, Pushed(x, g), ~g.busy
    PROVE  BusyOK' /\ SiOK'
<1>1. /\ x \notin Frames /\ Frames' = Frames \cup {x} /\ Call'[x] = g
      /\ \A y \in Frames : Call'[y] = Call[y]
  BY DEF Pushed
<1>3. ASSUME NEW y \in Frames, Call[y].busy
      PROVE  /\ Call[y].c \in Ctxs /\ ctx'[Call[y].c].uuid = ctx[Call[y].c].uuid
  BY <1>3 DEF BusyNamed, BusySame
<1>4. BusyOK'
  <2>1. ASSUME NEW y \in Frames', NEW z \in Frames', Call'[y].busy, Call'[z].busy,
               Call'[y].c = Call'[z].c, ~Has(Call[y].c, "CONCURRENT")'
        PROVE  y = z
    BY <1>1, <1>3, <2>1 DEF BusyOK, Has
  <2>2. ASSUME NEW c \in Ctxs, ctx'[c].live, ~Has(c, "CONCURRENT")'
        PROVE  ctx'[c].busy <=> \E y \in Frames' : Call'[y].busy /\ Call'[y].c = c
    BY <1>1, <1>3, <2>2 DEF BusyOK, Has, BusySame
  <2> QED
    BY <2>1, <2>2 DEF BusyOK, Has
<1>5. SiCalls' = SiCalls
  BY <1>1, <1>3 DEF SiCalls, SiCall, NeedsSiLock, Has
<1>6. SiOK'
  BY <1>5 DEF SiOK, BusySame
<1> QED
  BY <1>4, <1>6

-----------------------------------------------------------------------------
(* Steps of a thread *)

\* What the invariant says of thread t, which is not asleep, and of its call.
Here(t) ==
    /\ t \in Threads /\ stack[t] # <<>> /\ stack \in Stacks
    /\ Top(t) \in CallType /\ Place(t) \in Frames /\ Place(t)[1] = t
    /\ Call[Place(t)] = Top(t) /\ CallOK(Top(t))
    /\ CallTypes /\ CtxNamed /\ BusyNamed

\* A step starts there.
LEMMA HereIs ==
    ASSUME Inv, NEW t \in Threads, NEW pc, At(t, pc), pc \notin DOMAIN Resume
    PROVE  Here(t) /\ Top(t).pc = pc
<1>1. stack \in Stacks /\ CallTypes /\ StackOK /\ None \notin Ctxs
  BY TypedCalls, ConstantsAssumption DEF Inv
<1>2. stack[t] # <<>> /\ Top(t).pc = pc
  BY DEF At, Runs
<1>3. /\ Top(t) \in CallType /\ Place(t) \in Frames /\ Call[Place(t)] = Norm(Top(t))
  BY <1>1, <1>2, TopIs
<1>4. Call[Place(t)] = Top(t)
  BY <1>2, <1>3, NormIs
<1>5. CallOK(Top(t))
  BY <1>1, <1>3, <1>4 DEF StackOK
<1>6. CtxNamed /\ BusyNamed
  BY <1>1, NamedCtx, NamedBusy
<1>7. Place(t)[1] = t
  BY DEF Place
<1> QED
  BY <1>1, <1>2, <1>3, <1>4, <1>5, <1>6, <1>7 DEF Here

\* A signal wakes sleepers.
LEMMA WakesSleepers ==
    /\ \A label \in DOMAIN Resume : \A u \in Waiting(label) : Asleep(u)
    /\ \A label \in DOMAIN Resume : \A o : \A u \in WaitingFor(label, o) : Asleep(u)
    /\ \A label \in DOMAIN Resume : \A o : \A W \in OneOf(WaitingFor(label, o)) : \A u \in W : Asleep(u)
    /\ \A W \in OneOf(Waiting("wait_si")) : \A u \in W : Asleep(u)
    /\ \A s : \A W \in DecWakes(s) : \A u \in W : Asleep(u)
<1>1. \A label \in DOMAIN Resume : \A u \in Waiting(label) : Asleep(u)
  BY DEF Waiting, Asleep
<1>2. \A label \in DOMAIN Resume : \A o : \A u \in WaitingFor(label, o) : Asleep(u)
  BY <1>1 DEF WaitingFor
<1>3. \A label \in DOMAIN Resume : \A o : \A W \in OneOf(WaitingFor(label, o)) : \A u \in W : Asleep(u)
  BY <1>2 DEF OneOf
<1>4. \A W \in OneOf(Waiting("wait_si")) : \A u \in W : Asleep(u)
  BY <1>1, ResumeIs DEF OneOf
<1>5. \A s : \A W \in DecWakes(s) : \A u \in W : Asleep(u)
  BY <1>3, ResumeIs DEF DecWakes
<1> QED
  BY <1>1, <1>2, <1>3, <1>4, <1>5

\* Nothing but the calls changes.
Quiet ==
    UNCHANGED <<sess, ctx, tee_ctxes, siThread, siCount>> /\ dead' \in BOOLEAN

\* What such a step keeps.
LEMMA QuietIs ==
    ASSUME Inv, Quiet, stack' \in Stacks
    PROVE  TypeOK' /\ CtxSame /\ BusySame /\ \A x : UuidsKept(x)
<1>1. TypeOK'
  BY DEF Inv, TypeOK, Quiet, Stacks
<1>2. CtxSame
  BY DEF CtxSame, Quiet
<1>3. BusySame
  BY DEF BusySame, Quiet
<1> QED
  BY <1>1, <1>2, <1>3 DEF UuidsKept, Quiet

\* Such a step keeps the invariant when its call stays what the others take it for.
LEMMA QuietChange ==
    ASSUME Inv, NEW t, Here(t), Quiet, NEW f \in CallType, NEW W, \A u \in W : Asleep(u),
           Move(t, With(t, f), W), NEW g, g = Norm(f),
           CallOK(g), SameUse(Top(t), g), FitsCtx(Place(t), g),
           Closing(g) <=> Closing(Top(t)), Closing(g) => g.c = Top(t).c,
           g.busy <=> Top(t).busy, g.busy => g.c = Top(t).c
    PROVE  Inv'
<1>1. /\ TypeOK /\ StackOK /\ SessOK /\ CtxOK /\ BusyOK /\ SiOK /\ None \notin Ctxs
      /\ t \in Threads /\ stack[t] # <<>> /\ stack \in Stacks /\ Call[Place(t)] = Top(t)
      /\ CtxNamed /\ BusyNamed /\ tee_ctxes \in Seq(Ctxs)
  BY ConstantsAssumption DEF Inv, Here, TypeOK
<1>2. stack' \in Stacks /\ Changed(Place(t), g)
  BY <1>1, WithChanges
<1>3. TypeOK' /\ CtxSame /\ BusySame /\ UuidsKept(Place(t)) /\ sess' = sess
  BY <1>2, QuietIs DEF Quiet
<1>4. StackOK'
  BY <1>1, <1>2, <1>3, StackChanged DEF SameUse
<1>5. SessOK'
  BY <1>1, <1>2, <1>3, SessChanged
<1>6. CtxOK'
  BY <1>1, <1>2, <1>3, CtxChanged
<1>7. BusyOK' /\ SiOK'
  BY <1>1, <1>2, <1>3, BusyChanged
<1> QED
  BY <1>3, <1>4, <1>5, <1>6, <1>7 DEF Inv

\* And when its call returns without a reference.
LEMMA QuietReturn ==
    ASSUME Inv, NEW t, Here(t), Quiet, NEW W, \A u \in W : Asleep(u),
           Move(t, Return(t), W),
           ~Uses(Top(t)), Top(t).op = "open" => Top(t).s = None,
           ~Closing(Top(t)), ~Top(t).busy
    PROVE  Inv'
<1>1. /\ TypeOK /\ StackOK /\ SessOK /\ CtxOK /\ BusyOK /\ SiOK /\ None \notin Ctxs
      /\ None \notin Sessions
      /\ t \in Threads /\ stack[t] # <<>> /\ stack \in Stacks /\ Call[Place(t)] = Top(t)
      /\ CtxNamed /\ BusyNamed /\ tee_ctxes \in Seq(Ctxs)
  BY ConstantsAssumption DEF Inv, Here, TypeOK
<1>2. stack' \in Stacks /\ Popped(Place(t))
  BY <1>1, ReturnPops
<1>3. TypeOK' /\ CtxSame /\ BusySame /\ UuidsKept(Place(t)) /\ sess' = sess
  BY <1>2, QuietIs DEF Quiet
<1>4. StackOK'
  BY <1>1, <1>2, <1>3, StackPopped
<1>5. SessOK'
  BY <1>1, <1>2, <1>3, SessPopped
<1>6. CtxOK'
  BY <1>1, <1>2, <1>3, CtxPopped
<1>7. BusyOK' /\ SiOK'
  BY <1>1, <1>2, <1>3, BusyPopped
<1> QED
  BY <1>3, <1>4, <1>5, <1>6, <1>7 DEF Inv

-----------------------------------------------------------------------------
(* Steps that only move a call on *)

\* A context that is being loaded is known to the call that loads it only.
LEMMA FitsSame ==
    ASSUME Inv, NEW t, Here(t), NEW g, g.c = Top(t).c,
           g.pc \notin {"ldelf", "destroy", "release", "body"}
    PROVE  FitsCtx(Place(t), g)
<1>1. /\ Place(t) \in Frames /\ Call[Place(t)] = Top(t) /\ CtxNamed /\ LoadOK /\ CtxCalls
  BY DEF Here, Inv, CtxOK
<1> QED
  BY <1>1 DEF FitsCtx, CtxNamed, LoadOK, CtxCalls, CtxCall

\* The call changes its place and its result only.
LEMMA QuietGoto ==
    ASSUME Inv, NEW t, Here(t), Quiet, NEW pc \in Labels, NEW ok \in BOOLEAN, NEW W,
           \A u \in W : Asleep(u), NEW f, f = [Top(t) EXCEPT !.pc = pc, !.ok = ok],
           Move(t, With(t, f), W), NEW g, g = Norm(f), CallOK(g),
           g.pc \notin {"ldelf", "destroy", "release", "body"},
           Uses(g) <=> Uses(Top(t)), Locks(g) <=> Locks(Top(t)), Closing(g) <=> Closing(Top(t))
    PROVE  Inv'
<1>1. Top(t) \in CallType
  BY DEF Here
<1>2. f \in CallType /\ f.c = Top(t).c /\ f.s = Top(t).s /\ f.op = Top(t).op
      /\ f.owner = Top(t).owner /\ f.busy = Top(t).busy
  BY <1>1 DEF CallType
<1>3. g.c = Top(t).c /\ g.s = Top(t).s /\ g.op = Top(t).op
      /\ g.owner = Top(t).owner /\ g.busy = Top(t).busy
  BY <1>2, NormIs
<1>4. FitsCtx(Place(t), g)
  BY <1>3, FitsSame
<1>5. SameUse(Top(t), g)
  BY <1>3 DEF SameUse
<1>6. /\ Closing(g) => g.c = Top(t).c
      /\ g.busy <=> Top(t).busy
      /\ g.busy => g.c = Top(t).c
  BY <1>3
<1> QED
  BY <1>2, <1>4, <1>5, <1>6, QuietChange

\* The places a call goes to without a change of what it holds.
MovesOn(f, pc) ==
    \/ f.pc = pc
    \/ f.pc \in {"find", "load"} /\ pc \in {"load", "undo"}
    \/ f.pc = "set_busy" /\ f.op = "open" /\ pc = "put"
    \/ f.pc \in {"enter", "body"} /\ f.op = "close" /\ pc = "unlink"
    \/ f.pc \in {"enter", "body"} /\ f.op # "close" /\ pc = "leave"
    \/ f.pc = "leave" /\ pc = "clear"

\* These moves keep what the call uses and holds.
LEMMA MovesOnIs ==
    ASSUME NEW f \in CallType, CallOK(f), NEW pc \in Labels, MovesOn(f, pc), NEW ok \in BOOLEAN,
           NEW g \in CallType, g = [f EXCEPT !.pc = pc, !.ok = ok]
    PROVE  /\ CallOK(g)
           /\ Uses(g) <=> Uses(f)
           /\ Locks(g) <=> Locks(f)
           /\ Closing(g) <=> Closing(f)
<1>1. /\ g.pc = pc /\ g.c = f.c /\ g.s = f.s /\ g.op = f.op /\ g.uuid = f.uuid
      /\ g.owner = f.owner /\ (g.busy <=> f.busy)
  BY DEF CallType
<1>2. CallOK(g)
  BY <1>1 DEF CallOK, InTa, MovesOn
<1>3. Uses(g) <=> Uses(f)
  BY <1>1 DEF CallOK, InTa, MovesOn, Uses
<1>4. Locks(g) <=> Locks(f)
  BY <1>1, <1>3 DEF CallOK, InTa, MovesOn, Locks
<1>5. Closing(g) <=> Closing(f)
  BY <1>1 DEF CallOK, InTa, MovesOn, Closing
<1> QED
  BY <1>2, <1>3, <1>4, <1>5

\* A step that only moves its call, and its result, keeps the invariant.
LEMMA GoOn ==
    ASSUME Inv, NEW t, Here(t), Quiet, NEW pc \in Labels, NEW ok \in BOOLEAN, NEW W,
           \A u \in W : Asleep(u), NEW f, f = [Top(t) EXCEPT !.pc = pc, !.ok = ok],
           Move(t, With(t, f), W), NEW q, q = IF pc \in DOMAIN Resume THEN Resume[pc] ELSE pc,
           MovesOn(Top(t), q), q \notin {"ldelf", "destroy", "release", "body"}
    PROVE  Inv'
<1>2. PICK g : g = Norm(f)
  OBVIOUS
<1>3. Top(t) \in CallType /\ CallOK(Top(t)) /\ q \in Labels
  BY ResumeIs DEF Here, Labels
<1>4. f \in CallType /\ f.pc = pc
  BY <1>3 DEF CallType
<1>5. g = [Top(t) EXCEPT !.pc = q, !.ok = ok] /\ g \in CallType /\ g.pc = q
  BY <1>2, <1>3, <1>4 DEF Norm, CallType
<1>6. /\ CallOK(g)
      /\ Uses(g) <=> Uses(Top(t))
      /\ Locks(g) <=> Locks(Top(t))
      /\ Closing(g) <=> Closing(Top(t))
  BY <1>3, <1>5, MovesOnIs
<1> QED
  BY <1>2, <1>5, <1>6, QuietGoto

\* The same for a step that keeps the result.
LEMMA GoOnTo ==
    ASSUME Inv, NEW t, Here(t), Quiet, NEW pc \in Labels, NEW W,
           \A u \in W : Asleep(u), Move(t, Goto(t, pc), W),
           NEW q, q = IF pc \in DOMAIN Resume THEN Resume[pc] ELSE pc,
           MovesOn(Top(t), q), q \notin {"ldelf", "destroy", "release", "body"}
    PROVE  Inv'
<1>1. Top(t) \in CallType /\ Top(t).ok \in BOOLEAN
  BY DEF Here, CallType
<1>2. [Top(t) EXCEPT !.pc = pc] = [Top(t) EXCEPT !.pc = pc, !.ok = Top(t).ok]
  BY <1>1 DEF CallType
<1>3. Move(t, With(t, [Top(t) EXCEPT !.pc = pc, !.ok = Top(t).ok]), W)
  BY <1>2 DEF Goto
<1> QED
  BY <1>1, <1>3, GoOn

\* calloc() of the session fails.
LEMMA OpenNoMemoryStep ==
    ASSUME Inv, NEW t \in Threads, OpenNoMemory(t)
    PROVE  Inv'
<1>1. Here(t) /\ Top(t).pc = "open"
  BY HereIs, ResumeIs DEF OpenNoMemory
<1>2. Quiet
  BY DEF OpenNoMemory, Quiet, Inv, TypeOK
<1>3. Top(t).op = "open" /\ Top(t).s = None /\ ~Top(t).busy
  BY <1>1 DEF Here, CallOK, CallType, InTa
<1>4. ~Uses(Top(t)) /\ ~Closing(Top(t))
  BY <1>1, <1>3 DEF Uses, Closing
<1>5. Move(t, Return(t), {}) /\ \A u \in {} : Asleep(u)
  BY DEF OpenNoMemory
<1> QED
  BY <1>1, <1>2, <1>3, <1>4, <1>5, QuietReturn

\* calloc() of the context fails.
LEMMA LoadNoMemoryStep ==
    ASSUME Inv, NEW t \in Threads, LoadNoMemory(t)
    PROVE  Inv'
<1>1. Here(t) /\ Top(t).pc = "load" /\ Quiet
  BY SMTT(30), HereIs, ResumeIs DEF LoadNoMemory, Quiet, Inv, TypeOK
<1>2. MovesOn(Top(t), "undo") /\ "undo" \in Labels /\ "undo" \notin DOMAIN Resume
  BY <1>1, ResumeIs DEF MovesOn, Labels
<1> QED
  BY <1>1, <1>2, GoOnTo DEF LoadNoMemory

\* lock_single_instance() waits.
LEMMA WaitSingleInstanceStep ==
    ASSUME Inv, NEW t \in Threads, WaitSingleInstance(t)
    PROVE  Inv'
<1>1. Here(t) /\ Top(t).pc = "set_busy" /\ Quiet
  BY HereIs, ResumeIs DEF WaitSingleInstance, Quiet, Inv, TypeOK
<1>2. MovesOn(Top(t), Resume["wait_si"]) /\ "wait_si" \in Labels /\ "wait_si" \in DOMAIN Resume
  BY <1>1, ResumeIs DEF MovesOn, Labels
<1> QED
  BY <1>1, <1>2, GoOnTo, ResumeIs DEF WaitSingleInstance

\* tee_ta_try_set_busy() waits.
LEMMA WaitBusyStep ==
    ASSUME Inv, NEW t \in Threads, WaitBusy(t)
    PROVE  Inv'
<1>1. Here(t) /\ Top(t).pc = "set_busy" /\ Quiet
  BY HereIs, ResumeIs DEF WaitBusy, Quiet, Inv, TypeOK
<1>2. MovesOn(Top(t), Resume["wait_busy"]) /\ "wait_busy" \in Labels /\ "wait_busy" \in DOMAIN Resume
  BY <1>1, ResumeIs DEF MovesOn, Labels
<1> QED
  BY <1>1, <1>2, GoOnTo, ResumeIs DEF WaitBusy

\* panic() leaves everything where it is.
LEMMA Halt ==
    ASSUME Inv, Quiet, UNCHANGED stack
    PROVE  Inv'
<1>1. Frames' = Frames /\ Call' = Call /\ stack' \in Stacks
  BY TypedCalls DEF Frames, Call, F, Inv
<1>2. TypeOK'
  BY <1>1, QuietIs
<1>3. StackOK'
  BY <1>1 DEF Quiet, Inv, StackOK, CallOK, Calls
<1>4. SessOK'
  <2>1. UsesOK' /\ OpenOK'
    BY <1>1 DEF Quiet, Inv, SessOK, UsesOK, UseOK, OpenOK, HandleOK, Uses, Locks
  <2>2. AloneOK'
    BY <1>1 DEF Inv, SessOK, AloneOK, Compatible, Uses, Locks
  <2>3. SessRefs'
    BY <1>1 DEF Quiet, Inv, SessOK, SessRefs, UsersOf, Uses
  <2> QED
    BY <2>1, <2>2, <2>3 DEF SessOK
<1>5. CtxOK'
  <2>1. CtxCalls' /\ LoadOK'
    BY <1>1 DEF Quiet, Inv, CtxOK, CtxCalls, CtxCall, LoadOK
  <2>2. DestroyOK' /\ ListOK' /\ CtxInfo'
    BY <1>1 DEF Quiet, Inv, CtxOK, DestroyOK, ListOK, CtxInfo, InfoOK, Has
  <2>3. CtxRefs'
    BY <1>1 DEF Quiet, Inv, CtxOK, CtxRefs, RefOK, SessionsOf, ClosesOf, Closing
  <2> QED
    BY <2>1, <2>2, <2>3 DEF CtxOK
<1>6. BusyOK' /\ SiOK'
  BY <1>1 DEF Quiet, Inv, BusyOK, SiOK, SiCalls, SiCall, NeedsSiLock, Has
<1> QED
  BY <1>2, <1>3, <1>4, <1>5, <1>6 DEF Inv

\* tee_ta_try_set_busy() returns false.
LEMMA RefuseBusyStep ==
    ASSUME Inv, NEW t \in Threads, RefuseBusy(t)
    PROVE  Inv'
<1>1. Here(t) /\ Top(t).pc = "set_busy"
  BY HereIs, ResumeIs DEF RefuseBusy
<1>2. CASE Top(t).op = "open"
  <2>1. Quiet /\ Move(t, With(t, [Top(t) EXCEPT !.pc = "put", !.ok = FALSE]), {})
    BY <1>2 DEF RefuseBusy, Refused, Quiet, Inv, TypeOK
  <2>2. MovesOn(Top(t), "put") /\ "put" \in Labels /\ "put" \notin DOMAIN Resume
    BY <1>1, <1>2, ResumeIs DEF MovesOn, Labels
  <2>3. /\ "put" = IF "put" \in DOMAIN Resume THEN Resume["put"] ELSE "put"
        /\ FALSE \in BOOLEAN /\ \A u \in {} : Asleep(u)
        /\ "put" \notin {"ldelf", "destroy", "release", "body"}
    BY <2>2
  <2> QED
    BY <1>1, <2>1, <2>2, <2>3, GoOn
<1>3. CASE Top(t).op # "open"
  BY <1>3, Halt DEF RefuseBusy, Refused, Quiet
<1> QED
  BY <1>2, <1>3

\* The entry point of a TA returns.
LEMMA TaReturnsStep ==
    ASSUME Inv, NEW t \in Threads, TaReturns(t)
    PROVE  Inv'
<1>1. Here(t) /\ Top(t).pc = "body" /\ Quiet
  BY HereIs, ResumeIs DEF TaReturns, Quiet, Inv, TypeOK
<1>2. /\ MovesOn(Top(t), AfterBody(t)) /\ AfterBody(t) \in Labels /\ AfterBody(t) \notin DOMAIN Resume
      /\ AfterBody(t) \in {"unlink", "leave"}
  BY <1>1, ResumeIs DEF MovesOn, Labels, AfterBody
<1>3. PICK ok \in BOOLEAN : Move(t, With(t, [Top(t) EXCEPT !.pc = AfterBody(t), !.ok = ok]), {})
  BY <1>1 DEF TaReturns, Here, CallType
<1>4. /\ AfterBody(t) = IF AfterBody(t) \in DOMAIN Resume THEN Resume[AfterBody(t)] ELSE AfterBody(t)
      /\ \A u \in {} : Asleep(u)
      /\ AfterBody(t) \notin {"ldelf", "destroy", "release", "body"}
  BY <1>2
<1> QED
  BY <1>1, <1>2, <1>3, <1>4, GoOn

\* The entry of a TA, or its refusal.
LEMMA EnterTaStep ==
    ASSUME Inv, NEW t \in Threads, EnterTa(t)
    PROVE  Inv'
<1>1. Here(t) /\ Top(t).pc = "enter" /\ Quiet
  BY HereIs, ResumeIs DEF EnterTa, Quiet, Inv, TypeOK
<1>2. CASE ~CanEnter(t)
  <2>1. /\ MovesOn(Top(t), AfterBody(t)) /\ AfterBody(t) \in Labels /\ AfterBody(t) \notin DOMAIN Resume
        /\ AfterBody(t) \in {"unlink", "leave"}
    BY <1>1, ResumeIs DEF MovesOn, Labels, AfterBody
  <2>2. PICK ok \in BOOLEAN : ok = (Top(t).ok /\ Top(t).op # "open")
    OBVIOUS
  <2>3. Move(t, With(t, [Top(t) EXCEPT !.pc = AfterBody(t), !.ok = ok]), {})
    BY <1>1, <1>2, <2>2 DEF EnterTa, Here, CallType
  <2>4. /\ AfterBody(t) = IF AfterBody(t) \in DOMAIN Resume THEN Resume[AfterBody(t)] ELSE AfterBody(t)
        /\ \A u \in {} : Asleep(u)
        /\ AfterBody(t) \notin {"ldelf", "destroy", "release", "body"}
    BY <2>1
  <2> QED
    BY <1>1, <2>1, <2>2, <2>3, <2>4, GoOn
<1>3. CASE CanEnter(t)
  <2>1. PICK f : f = [Top(t) EXCEPT !.pc = "body"]
    OBVIOUS
  <2>2. Top(t) \in CallType /\ CallOK(Top(t)) /\ Place(t) \in Frames /\ Call[Place(t)] = Top(t)
    BY <1>1 DEF Here
  <2>3. f \in CallType /\ f.pc = "body"
    BY <2>1, <2>2 DEF CallType, Labels
  <2>4. f = Norm(f)
    BY <2>3, NormIs, ResumeIs
  <2>5. /\ f.c = Top(t).c /\ f.s = Top(t).s /\ f.op = Top(t).op /\ f.uuid = Top(t).uuid
        /\ f.owner = Top(t).owner /\ (f.busy <=> Top(t).busy)
    BY <2>1, <2>2 DEF CallType
  <2>6. CallOK(f)
    BY <1>1, <2>2, <2>3, <2>5 DEF CallOK, InTa
  <2>7. /\ SameUse(Top(t), f)
        /\ Closing(f) <=> Closing(Top(t))
    BY <1>1, <2>2, <2>3, <2>5 DEF SameUse, Uses, Locks, Closing
  <2>8. FitsCtx(Place(t), f)
    <3>1. CtxNamed /\ LoadOK /\ CtxCalls /\ CtxInfo
      BY <1>1 DEF Here, Inv, CtxOK
    <3>2. f.c \in Ctxs /\ f.c # None /\ ctx[f.c].live
      BY <1>1, <2>2, <2>5, <3>1, ConstantsAssumption DEF CtxNamed, CtxCalls, CtxCall, CallOK
    <3>3. ctx[f.c].uuid \notin Pseudo => ctx[f.c].vm
      BY <1>3, <2>5, <3>1, <3>2 DEF CanEnter, CtxInfo, InfoOK
    <3>4. \A y \in Frames \ {Place(t)} : Call[y].pc = "ldelf" => Call[y].c # f.c
      BY <2>2, <2>5, <3>1 DEF LoadOK
    <3> QED
      BY <2>3, <3>2, <3>3, <3>4 DEF FitsCtx
  <2>9. Move(t, With(t, f), {}) /\ \A u \in {} : Asleep(u)
    BY <1>3, <2>1 DEF EnterTa, Goto
  <2>10. /\ Closing(f) => f.c = Top(t).c 
         /\ f.busy => f.c = Top(t).c
    BY <2>5
  <2> QED
    BY <1>1, <2>3, <2>4, <2>5, <2>6, <2>7, <2>8, <2>9, <2>10, QuietChange
<1> QED
  BY <1>2, <1>3

-----------------------------------------------------------------------------
(* Steps that change one session *)

\* Every call names a session that exists, or none.
SessNamed == \A x \in Frames : Call[x].s \in Sessions \cup {None} /\ (Uses(Call[x]) => Call[x].s # None)

\* It follows from what a call knows at its place.
LEMMA NamedSess ==
    ASSUME CallTypes, StackOK
    PROVE  SessNamed
<1>1. ASSUME NEW x \in Frames
      PROVE  Call[x].s \in Sessions \cup {None} /\ (Uses(Call[x]) => Call[x].s # None)
  BY DEF CallTypes, CallType, StackOK, CallOK, Uses
<1> QED
  BY <1>1 DEF SessNamed

\* Only session s and the call at x change, which names no other session.
Local(s, x) ==
    /\ s \in Sessions /\ \A r \in Sessions \ {s} : sess'[r] = sess[r]
    /\ Frames \ {x} \subseteq Frames' /\ Frames' \subseteq Frames \cup {x}
    /\ \A y \in Frames \ {x} : Call'[y] = Call[y]
    /\ x \in Frames => Call[x].s \in {s, None}
    /\ x \in Frames' => Call'[x].s = s

\* What such a step must show for session s alone.
LEMMA SessLocal ==
    ASSUME SessOK, SessNamed, None \notin Sessions, NEW s, NEW x, Local(s, x),
           \A y \in Frames \ {x} : Call[y].s = s => UseOK(y[1], Call[y], sess'[s]),
           x \in Frames' => UseOK(x[1], Call'[x], sess'[s]),
           x \in Frames' => \A y \in Frames \ {x} : Call[y].s = s =>
                               Compatible(Call'[x], Call[y]) /\ Compatible(Call[y], Call'[x]),
           HandleOK(s)', sess'[s].live => sess'[s].ref = Cardinality(UsersOf(s)')
    PROVE  SessOK'
<1>1. /\ s \in Sessions /\ s # None /\ \A r \in Sessions \ {s} : sess'[r] = sess[r]
      /\ Frames \ {x} \subseteq Frames' /\ Frames' \subseteq Frames \cup {x}
      /\ \A y \in Frames \ {x} : Call'[y] = Call[y]
      /\ x \in Frames => Call[x].s \in {s, None}
      /\ x \in Frames' => Call'[x].s = s
  BY DEF Local
<1>2. \A y \in Frames : Call[y].s \in Sessions \cup {None} /\ (Uses(Call[y]) => Call[y].s # None)
  BY DEF SessNamed
<1>3. UsesOK'
  <2>1. ASSUME NEW y \in Frames' \ {x}
        PROVE  UseOK(y[1], Call[y], sess'[Call[y].s])
    <3>1. y \in Frames \ {x} /\ UseOK(y[1], Call[y], sess[Call[y].s])
      BY <1>1 DEF SessOK, UsesOK
    <3>2. CASE Call[y].s = s
      BY <3>1, <3>2
    <3>3. CASE Call[y].s \in Sessions \ {s}
      BY <1>1, <3>1, <3>3
    <3>4. CASE Call[y].s = None
      BY <1>2, <3>1, <3>4 DEF UseOK, Locks
    <3> QED
      BY <1>2, <3>1, <3>2, <3>3, <3>4
  <2> QED
    BY <1>1, <2>1 DEF UsesOK, UseOK, Uses, Locks
<1>4. AloneOK'
  <2>1. ASSUME NEW y \in Frames', NEW z \in Frames', y # z
        PROVE  Compatible(Call'[y], Call'[z])
    <3>1. CASE y # x /\ z # x
      BY <1>1, <2>1, <3>1 DEF SessOK, AloneOK
    <3>2. CASE y = x
      BY <1>1, <2>1, <3>2 DEF Compatible
    <3>3. CASE z = x
      BY <1>1, <2>1, <3>3 DEF Compatible
    <3> QED
      BY <3>1, <3>2, <3>3
  <2> QED
    BY <2>1 DEF AloneOK, Compatible, Locks, Uses
<1>5. OpenOK'
  <2>1. ASSUME NEW r \in Sessions, r # s
        PROVE  HandleOK(r)'
    <3>1. sess'[r] = sess[r] /\ r # None /\ HandleOK(r)
      BY <1>1, <2>1 DEF SessOK, OpenOK
    <3>2. \A y \in Frames' : Call'[y].s = r => y \in Frames \ {x}
      BY <1>1, <2>1
    <3>3. \A y \in Frames : Call[y].s = r => y \in Frames' /\ y # x
      BY <1>1, <2>1, <3>1
    <3> QED
      BY <1>1, <2>1, <3>1, <3>2, <3>3 DEF HandleOK
  <2> QED
    BY <2>1 DEF OpenOK, HandleOK
<1>6. SessRefs'
  <2>1. ASSUME NEW r \in Sessions, r # s
        PROVE  UsersOf(r)' = UsersOf(r) /\ sess'[r] = sess[r]
    <3>1. r # None
      OBVIOUS
    <3> QED
      BY <1>1, <2>1, <3>1 DEF UsersOf, Uses
  <2> QED
    BY <2>1 DEF SessOK, SessRefs
<1> QED
  BY <1>3, <1>4, <1>5, <1>6 DEF SessOK

\* A new session, with the context of the call that opens it.
LEMMA SessOpened ==
    ASSUME SessOK, SessNamed, None \notin Sessions, NEW s, NEW x, Local(s, x), NEW g, Changed(x, g),
           g.op = "open", Uses(g), \A y \in Frames : Call[y].s # s,
           sess'[s].live, sess'[s].ref = 1, sess'[s].owner = g.owner, sess'[s].ctx = g.c,
           ~sess'[s].open
    PROVE  SessOK'
<1>1. /\ x \in Frames /\ Frames' = Frames /\ Call'[x] = g /\ g.s = s /\ s \in Sessions
      /\ \A y \in Frames \ {x} : Call'[y] = Call[y]
  BY DEF Changed, Local
<1>2. UseOK(x[1], Call'[x], sess'[s])
  BY <1>1 DEF UseOK, Locks
<1>3. HandleOK(s)'
  BY <1>1 DEF HandleOK
<1>4. UsersOf(s)' = {x}
  BY <1>1 DEF UsersOf, Uses
<1>5. Cardinality(UsersOf(s)') = 1
  BY <1>4, FS_Singleton
<1> QED
  BY <1>1, <1>2, <1>3, <1>5, SessLocal

\* The session of a call that opens it gets or loses its context.
LEMMA SessRebound ==
    ASSUME SessOK, SessNamed, None \notin Sessions, NEW s, NEW x, Local(s, x), NEW g, Changed(x, g),
           Uses(Call[x]), Call[x].op = "open", Call[x].s = s,
           Uses(g), g.op = "open", g.owner = Call[x].owner,
           sess'[s].live <=> sess[s].live, sess'[s].open <=> sess[s].open, sess'[s].ref = sess[s].ref,
           sess'[s].owner = sess[s].owner, sess'[s].ctx = g.c
    PROVE  SessOK'
<1>1. /\ x \in Frames /\ Frames' = Frames /\ Call'[x] = g /\ g.s = s /\ s \in Sessions
      /\ \A y \in Frames \ {x} : Call'[y] = Call[y]
  BY DEF Changed, Local
<1>2. \A y \in Frames \ {x} : Call[y].s # s
  BY <1>1 DEF SessOK, AloneOK, Compatible
<1>3. UseOK(x[1], Call[x], sess[s]) /\ HandleOK(s) /\ (sess[s].live => sess[s].ref = Cardinality(UsersOf(s)))
  BY <1>1 DEF SessOK, UsesOK, OpenOK, SessRefs
<1>4. UseOK(x[1], Call'[x], sess'[s])
  BY <1>1, <1>3 DEF UseOK, Locks
<1>5. HandleOK(s)'
  BY <1>1, <1>3 DEF HandleOK
<1>6. UsersOf(s)' = UsersOf(s)
  BY <1>1, <1>2 DEF UsersOf, Uses
<1> QED
  BY <1>1, <1>2, <1>3, <1>4, <1>5, <1>6, SessLocal

\* The fields of session s that the calls depend on are as they were.
SessKept(s) ==
    /\ sess'[s].live <=> sess[s].live
    /\ sess'[s].owner = sess[s].owner /\ sess'[s].ctx = sess[s].ctx

\* A step that changes one call and its session.
LEMMA LocalChange ==
    ASSUME NEW s \in Sessions, NEW x, NEW g, Changed(x, g), \A r \in Sessions \ {s} : sess'[r] = sess[r],
           Call[x].s \in {s, None}, g.s = s
    PROVE  Local(s, x)
BY DEF Local, Changed

\* A step that returns from one call and changes its session.
LEMMA LocalPop ==
    ASSUME NEW s \in Sessions, NEW x, Popped(x), \A r \in Sessions \ {s} : sess'[r] = sess[r],
           Call[x].s = s
    PROVE  Local(s, x)
BY DEF Local, Popped

\* A step that makes a call on a session and changes the session.
LEMMA LocalPush ==
    ASSUME NEW s \in Sessions, NEW x, NEW g, Pushed(x, g), \A r \in Sessions \ {s} : sess'[r] = sess[r],
           g.s = s
    PROVE  Local(s, x)
BY DEF Local, Pushed

\* destroy_session(): the session had one user left, which closes it.
LEMMA SessFreed ==
    ASSUME SessOK, SessNamed, None \notin Sessions, NEW s, NEW x, Local(s, x), NEW g, Changed(x, g),
           Uses(Call[x]), Call[x].op = "close", Call[x].s = s, sess[s].ref = 1,
           ~Uses(g), g.op = "close", ~sess'[s].live, ~sess'[s].open, IsFiniteSet(Frames)
    PROVE  SessOK'
<1>1. /\ x \in Frames /\ Frames' = Frames /\ Call'[x] = g /\ g.s = s /\ s \in Sessions
      /\ \A y \in Frames \ {x} : Call'[y] = Call[y]
  BY DEF Changed, Local
<1>2. UseOK(x[1], Call[x], sess[s]) /\ (sess[s].live => sess[s].ref = Cardinality(UsersOf(s)))
      /\ sess[s].live
  BY <1>1 DEF SessOK, UsesOK, SessRefs, UseOK
<1>3. Cardinality(UsersOf(s)) = 1 /\ x \in UsersOf(s) /\ IsFiniteSet(UsersOf(s))
  BY <1>1, <1>2, FS_Subset DEF UsersOf
<1>4. UsersOf(s) = {x}
  BY <1>3, FS_Singleton
<1>5. \A y \in Frames \ {x} : Call[y].s = s => ~Uses(Call[y])
  BY <1>4 DEF UsersOf
<1>6. \A y \in Frames \ {x} : Call[y].s = s => UseOK(y[1], Call[y], sess'[s])
  BY <1>5 DEF UseOK, Locks
<1>7. UseOK(x[1], Call'[x], sess'[s])
  BY <1>1 DEF UseOK, Locks
<1>8. \A y \in Frames \ {x} : Call[y].s = s => Compatible(Call'[x], Call[y]) /\ Compatible(Call[y], Call'[x])
  BY <1>1 DEF SessOK, AloneOK, Compatible, Locks
<1>9. HandleOK(s)'
  BY DEF HandleOK
<1> QED
  BY <1>1, <1>6, <1>7, <1>8, <1>9, SessLocal

\* The end of an open that failed: nobody but the call knows the session.
LEMMA SessUndone ==
    ASSUME SessOK, SessNamed, None \notin Sessions, NEW s, NEW x, Local(s, x), Popped(x),
           Call[x].op = "open", Call[x].s = s, ~sess'[s].live, ~sess'[s].open
    PROVE  SessOK'
<1>1. /\ x \in Frames /\ Frames' = Frames \ {x} /\ s \in Sessions
      /\ \A y \in Frames \ {x} : Call'[y] = Call[y]
  BY DEF Popped, Local
<1>2. \A y \in Frames \ {x} : Call[y].s # s
  BY <1>1 DEF SessOK, AloneOK, Compatible
<1>3. HandleOK(s)'
  BY DEF HandleOK
<1> QED
  BY <1>1, <1>2, <1>3, SessLocal

\* Only flags of the session and the place of the call change.
LEMMA SessMarked ==
    ASSUME SessOK, SessNamed, None \notin Sessions, NEW s, NEW x, Local(s, x), NEW g, Changed(x, g),
           Call[x].s = s, SameUse(Call[x], g), SessKept(s), sess'[s].lock = sess[s].lock,
           sess'[s].ref = sess[s].ref, sess'[s].open <=> sess[s].open
    PROVE  SessOK'
<1>1. /\ x \in Frames /\ Frames' = Frames /\ Call'[x] = g /\ g.s = s /\ s \in Sessions
      /\ \A y \in Frames \ {x} : Call'[y] = Call[y]
  BY DEF Changed, Local
<1>2. \A y \in Frames : Call[y].s = s => UseOK(y[1], Call[y], sess[s])
  BY DEF SessOK, UsesOK
<1>3. HandleOK(s) /\ (sess[s].live => sess[s].ref = Cardinality(UsersOf(s)))
  BY <1>1 DEF SessOK, OpenOK, SessRefs
<1>4. \A y \in Frames \ {x} : Call[y].s = s => UseOK(y[1], Call[y], sess'[s])
  BY <1>2 DEF UseOK, SessKept
<1>5. UseOK(x[1], Call'[x], sess'[s])
  BY <1>1, <1>2 DEF UseOK, SessKept, SameUse
<1>6. \A y \in Frames \ {x} : Call[y].s = s => Compatible(Call'[x], Call[y]) /\ Compatible(Call[y], Call'[x])
  BY <1>1 DEF SessOK, AloneOK, Compatible, SameUse
<1>7. HandleOK(s)'
  BY <1>1, <1>3 DEF HandleOK, SessKept, SameUse
<1>8. UsersOf(s)' = UsersOf(s)
  BY <1>1 DEF UsersOf, Uses, SameUse
<1> QED
  BY <1>1, <1>3, <1>4, <1>5, <1>6, <1>7, <1>8, SessLocal DEF SessKept

\* tee_ta_get_session(): one more reference, and the lock if the call takes it.
LEMMA SessGot ==
    ASSUME SessOK, SessNamed, None \notin Sessions, None \notin Threads,
           NEW s, NEW x, Local(s, x), NEW g, Changed(x, g),
           x[1] \in Threads, \A y \in Frames : y[1] \in Threads, IsFiniteSet(Frames),
           Call[x].s = s, ~Uses(Call[x]), g.op = Call[x].op, g.owner = Call[x].owner, g.op # "open",
           Uses(g), g.c = None, SessKept(s), sess[s].live, sess[s].owner = g.owner,
           sess'[s].open <=> sess[s].open, sess'[s].ref = sess[s].ref + 1,
           IF Locks(g) THEN sess[s].lock = None /\ sess'[s].lock = x[1]
                       ELSE sess'[s].lock = sess[s].lock
    PROVE  SessOK'
<1>1. /\ x \in Frames /\ Frames' = Frames /\ Call'[x] = g /\ g.s = s /\ s \in Sessions
      /\ \A y \in Frames \ {x} : Call'[y] = Call[y]
  BY DEF Changed, Local
<1>2. \A y \in Frames : Call[y].s = s => UseOK(y[1], Call[y], sess[s])
  BY DEF SessOK, UsesOK
<1>3. HandleOK(s) /\ (sess[s].live => sess[s].ref = Cardinality(UsersOf(s)))
  BY <1>1 DEF SessOK, OpenOK, SessRefs
<1>4. Locks(g) => \A y \in Frames : Call[y].s = s => ~Locks(Call[y])
  BY <1>2 DEF UseOK
<1>5. \A y \in Frames \ {x} : Call[y].s = s => UseOK(y[1], Call[y], sess'[s])
  BY <1>2, <1>4 DEF UseOK, SessKept
<1>6. UseOK(x[1], Call'[x], sess'[s])
  BY <1>1, <1>2 DEF UseOK, SessKept
<1>7. \A y \in Frames \ {x} : Call[y].s = s => Compatible(Call'[x], Call[y]) /\ Compatible(Call[y], Call'[x])
  BY <1>1, <1>4 DEF SessOK, AloneOK, Compatible
<1>8. HandleOK(s)'
  BY <1>1, <1>3 DEF HandleOK, SessKept
<1>9. UsersOf(s)' = UsersOf(s) \cup {x} /\ x \notin UsersOf(s) /\ IsFiniteSet(UsersOf(s))
  <2>1. IsFiniteSet(UsersOf(s))
    BY FS_Subset DEF UsersOf
  <2> QED
    BY <1>1, <2>1 DEF UsersOf, Uses
<1>10. Cardinality(UsersOf(s)') = Cardinality(UsersOf(s)) + 1
  BY <1>9, FS_AddElement
<1> QED
  BY <1>1, <1>3, <1>5, <1>6, <1>7, <1>8, <1>10, SessLocal

\* Woken from lock_cv, the call takes the lock.
LEMMA SessLocked ==
    ASSUME SessOK, SessNamed, None \notin Sessions, None \notin Threads,
           NEW s, NEW x, Local(s, x), NEW g, Changed(x, g),
           \A y \in Frames : y[1] \in Threads,
           Call[x].s = s, Uses(Call[x]), g.op = Call[x].op, g.owner = Call[x].owner,
           Uses(g), g.c = Call[x].c, SessKept(s),
           sess'[s].open <=> sess[s].open, sess'[s].ref = sess[s].ref,
           sess[s].lock = None, sess'[s].lock = x[1]
    PROVE  SessOK'
<1>1. /\ x \in Frames /\ Frames' = Frames /\ Call'[x] = g /\ g.s = s /\ s \in Sessions
      /\ \A y \in Frames \ {x} : Call'[y] = Call[y]
  BY DEF Changed, Local
<1>2. \A y \in Frames : Call[y].s = s => UseOK(y[1], Call[y], sess[s])
  BY DEF SessOK, UsesOK
<1>3. HandleOK(s) /\ (sess[s].live => sess[s].ref = Cardinality(UsersOf(s)))
  BY <1>1 DEF SessOK, OpenOK, SessRefs
<1>4. \A y \in Frames : Call[y].s = s => ~Locks(Call[y])
  BY <1>2 DEF UseOK
<1>5. \A y \in Frames \ {x} : Call[y].s = s => UseOK(y[1], Call[y], sess'[s])
  BY <1>2, <1>4 DEF UseOK, SessKept
<1>6. UseOK(x[1], Call'[x], sess'[s])
  BY <1>1, <1>2 DEF UseOK, SessKept
<1>7. \A y \in Frames \ {x} : Call[y].s = s => Compatible(Call'[x], Call[y]) /\ Compatible(Call[y], Call'[x])
  BY <1>1, <1>4 DEF SessOK, AloneOK, Compatible
<1>8. HandleOK(s)'
  BY <1>1, <1>3 DEF HandleOK, SessKept
<1>9. UsersOf(s)' = UsersOf(s)
  BY <1>1 DEF UsersOf, Uses
<1> QED
  BY <1>1, <1>3, <1>5, <1>6, <1>7, <1>8, <1>9, SessLocal DEF SessKept

\* A reference less when the call ends, and the lock if it had it.
LEMMA SessLeft ==
    ASSUME SessOK, SessNamed, None \notin Sessions, NEW s, NEW x, Local(s, x), Popped(x),
           IsFiniteSet(Frames), Call[x].s = s, Uses(Call[x]), SessKept(s), sess'[s].ref = sess[s].ref - 1,
           \A y \in Frames \ {x} : Call[y].s = s /\ Locks(Call[y]) => sess'[s].lock = sess[s].lock,
           IF Call[x].op = "open" THEN sess[s].ctx # None ELSE sess'[s].open <=> sess[s].open
    PROVE  SessOK'
<1>1. /\ x \in Frames /\ Frames' = Frames \ {x} /\ s \in Sessions
      /\ \A y \in Frames \ {x} : Call'[y] = Call[y]
  BY DEF Popped, Local
<1>2. \A y \in Frames : Call[y].s = s => UseOK(y[1], Call[y], sess[s])
  BY DEF SessOK, UsesOK
<1>3. HandleOK(s) /\ (sess[s].live => sess[s].ref = Cardinality(UsersOf(s))) /\ sess[s].live
  BY <1>1, <1>2 DEF SessOK, OpenOK, SessRefs, UseOK
<1>4. Call[x].op = "open" => \A y \in Frames \ {x} : Call[y].s # s
  BY <1>1 DEF SessOK, AloneOK, Compatible
<1>5. \A y \in Frames \ {x} : Call[y].s = s => UseOK(y[1], Call[y], sess'[s])
  BY <1>2 DEF UseOK, SessKept
<1>6. HandleOK(s)'
  BY <1>1, <1>3, <1>4 DEF HandleOK, SessKept
<1>7. UsersOf(s)' = UsersOf(s) \ {x} /\ x \in UsersOf(s) /\ IsFiniteSet(UsersOf(s))
  <2>1. IsFiniteSet(UsersOf(s))
    BY FS_Subset DEF UsersOf
  <2> QED
    BY <1>1, <2>1 DEF UsersOf, Uses
<1>8. Cardinality(UsersOf(s)') = Cardinality(UsersOf(s)) - 1
  BY <1>7, FS_RemoveElement
<1> QED
  BY <1>1, <1>3, <1>5, <1>6, <1>8, SessLocal

\* An open that failed after its context was known closes the session.
LEMMA SessGivenUp ==
    ASSUME SessOK, SessNamed, None \notin Sessions, NEW s, NEW x, Local(s, x), NEW g, Changed(x, g),
           IsFiniteSet(Frames), Call[x].op = "open", Call[x].s = s, Uses(Call[x]), SessKept(s),
           sess[s].ctx # None, sess'[s].ref = sess[s].ref - 1, sess'[s].open <=> sess[s].open,
           g.op = "close", ~Uses(g), g.owner = Call[x].owner
    PROVE  SessOK'
<1>1. /\ x \in Frames /\ Frames' = Frames /\ Call'[x] = g /\ g.s = s /\ s \in Sessions
      /\ \A y \in Frames \ {x} : Call'[y] = Call[y]
  BY DEF Changed, Local
<1>2. UseOK(x[1], Call[x], sess[s])
  BY <1>1 DEF SessOK, UsesOK
<1>3. HandleOK(s) /\ (sess[s].live => sess[s].ref = Cardinality(UsersOf(s))) /\ sess[s].live
  BY <1>1, <1>2 DEF SessOK, OpenOK, SessRefs, UseOK
<1>4. \A y \in Frames \ {x} : Call[y].s # s
  BY <1>1 DEF SessOK, AloneOK, Compatible
<1>5. UseOK(x[1], Call'[x], sess'[s])
  BY <1>1, <1>2 DEF UseOK, SessKept, Locks
<1>6. HandleOK(s)'
  BY <1>1, <1>3, <1>4 DEF HandleOK, SessKept
<1>7. UsersOf(s)' = UsersOf(s) \ {x} /\ x \in UsersOf(s) /\ IsFiniteSet(UsersOf(s))
  <2>1. IsFiniteSet(UsersOf(s))
    BY FS_Subset DEF UsersOf
  <2> QED
    BY <1>1, <2>1 DEF UsersOf, Uses
<1>8. Cardinality(UsersOf(s)') = Cardinality(UsersOf(s)) - 1
  BY <1>7, FS_RemoveElement
<1> QED
  BY <1>1, <1>3, <1>4, <1>5, <1>6, <1>8, SessLocal

\* A client names one of its sessions in a call.
LEMMA SessCalled ==
    ASSUME SessOK, SessNamed, None \notin Sessions, NEW s, NEW x, Local(s, x), NEW g, Pushed(x, g),
           g.op # "open", ~Uses(g), SessKept(s), sess'[s].lock = sess[s].lock, sess'[s].ref = sess[s].ref,
           sess[s].live, sess[s].owner = g.owner, sess[s].ctx # None, sess'[s].open => sess[s].open,
           \A y \in Frames : Call[y].s = s => Call[y].op # "open",
           g.op = "close" => /\ \A y \in Frames : Call[y].s = s => Call[y].op # "close"
                             /\ ~sess'[s].open,
           g.op \in {"invoke", "close", "cancel"}
    PROVE  SessOK'
<1>1. /\ x \notin Frames /\ Frames' = Frames \cup {x} /\ Call'[x] = g /\ g.s = s /\ s \in Sessions
      /\ \A y \in Frames : Call'[y] = Call[y]
  BY DEF Pushed, Local
<1>2. \A y \in Frames : Call[y].s = s => UseOK(y[1], Call[y], sess[s])
  BY DEF SessOK, UsesOK
<1>3. HandleOK(s) /\ (sess[s].live => sess[s].ref = Cardinality(UsersOf(s)))
  BY <1>1 DEF SessOK, OpenOK, SessRefs
<1>4. \A y \in Frames \ {x} : Call[y].s = s => UseOK(y[1], Call[y], sess'[s])
  BY <1>2 DEF UseOK, SessKept
<1>5. UseOK(x[1], Call'[x], sess'[s])
  BY <1>1 DEF UseOK, SessKept, Locks
<1>6. \A y \in Frames \ {x} : Call[y].s = s => Compatible(Call'[x], Call[y]) /\ Compatible(Call[y], Call'[x])
  BY <1>1 DEF Compatible, Locks
<1>7. HandleOK(s)'
  BY <1>1, <1>3 DEF HandleOK, SessKept
<1>8. UsersOf(s)' = UsersOf(s)
  BY <1>1 DEF UsersOf, Uses
<1> QED
  BY <1>1, <1>3, <1>4, <1>5, <1>6, <1>7, <1>8, SessLocal DEF SessKept

\* The sessions stay with their contexts, and nothing else but the calls changes.
SessQuiet ==
    /\ UNCHANGED <<ctx, tee_ctxes, siThread, siCount>> /\ dead' \in BOOLEAN
    /\ sess' \in [Sessions -> SessType]
    /\ \A s \in Sessions, c \in Ctxs :
          (sess'[s].live /\ sess'[s].ctx = c) <=> (sess[s].live /\ sess[s].ctx = c)

\* What such a step keeps.
LEMMA SessQuietIs ==
    ASSUME Inv, SessQuiet, stack' \in Stacks
    PROVE  TypeOK' /\ CtxSame /\ BusySame /\ \A x : UuidsKept(x)
<1>1. TypeOK'
  BY DEF Inv, TypeOK, SessQuiet, Stacks
<1>2. CtxSame
  BY DEF CtxSame, SessQuiet
<1>3. BusySame
  BY DEF BusySame, SessQuiet
<1> QED
  BY <1>1, <1>2, <1>3 DEF UuidsKept, SessQuiet

\* What the generic lemmas need of the invariant.
Facts ==
    /\ TypeOK /\ StackOK /\ SessOK /\ CtxOK /\ BusyOK /\ SiOK /\ IsFiniteSet(Frames)
    /\ None \notin Ctxs /\ None \notin Sessions /\ None \notin Threads /\ None \notin Uuids
    /\ CallTypes /\ SessNamed /\ CtxNamed /\ BusyNamed
    /\ stack \in Stacks /\ tee_ctxes \in Seq(Ctxs) /\ \A y \in Frames : y[1] \in Threads

\* They follow from the invariant.
LEMMA InvFacts ==
    ASSUME Inv
    PROVE  Facts
<1>1. /\ TypeOK /\ StackOK /\ SessOK /\ CtxOK /\ BusyOK /\ SiOK /\ IsFiniteSet(Frames)
      /\ tee_ctxes \in Seq(Ctxs)
  BY DEF Inv, TypeOK, StackOK
<1>2. /\ None \notin Ctxs /\ None \notin Sessions /\ None \notin Threads /\ None \notin Uuids
  BY ConstantsAssumption
<1>3. CallTypes /\ stack \in Stacks
  BY <1>1, TypedCalls
<1>4. SessNamed /\ CtxNamed /\ BusyNamed
  BY <1>1, <1>2, <1>3, NamedSess, NamedCtx, NamedBusy
<1>5. \A y \in Frames : y[1] \in Threads
  BY <1>3, FramePairs
<1> QED
  BY <1>1, <1>2, <1>3, <1>4, <1>5 DEF Facts

\* A step that moves a call and changes sessions only.
LEMMA SessChange ==
    ASSUME Inv, NEW t, Here(t), SessQuiet, stack' \in Stacks, NEW g, Changed(Place(t), g), SessOK',
           CallOK(g), g.owner = Top(t).owner, g.op = Top(t).op \/ g.op = "close",
           FitsCtx(Place(t), g), Closing(g) <=> Closing(Top(t)), Closing(g) => g.c = Top(t).c,
           g.busy <=> Top(t).busy, g.busy => g.c = Top(t).c
    PROVE  Inv'
<1>1. Facts /\ t \in Threads /\ stack[t] # <<>> /\ Call[Place(t)] = Top(t)
  BY InvFacts DEF Here
<1>2. TypeOK' /\ CtxSame /\ BusySame /\ UuidsKept(Place(t))
  BY SessQuietIs
<1>3. StackOK'
  BY <1>1, <1>2, StackChanged DEF Facts
<1>4. CtxOK'
  BY <1>1, <1>2, CtxChanged DEF Facts
<1>5. BusyOK' /\ SiOK'
  BY <1>1, <1>2, BusyChanged DEF Facts
<1> QED
  BY <1>2, <1>3, <1>4, <1>5 DEF Inv

\* A step that returns and changes sessions only.
LEMMA SessReturn ==
    ASSUME Inv, NEW t, Here(t), SessQuiet, stack' \in Stacks, Popped(Place(t)), SessOK',
           ~Closing(Top(t)), ~Top(t).busy
    PROVE  Inv'
<1>1. Facts /\ t \in Threads /\ stack[t] # <<>> /\ Call[Place(t)] = Top(t)
  BY InvFacts DEF Here
<1>2. TypeOK' /\ CtxSame /\ BusySame /\ UuidsKept(Place(t))
  BY SessQuietIs
<1>3. StackOK'
  BY <1>1, <1>2, StackPopped DEF Facts
<1>4. CtxOK'
  BY <1>1, <1>2, CtxPopped DEF Facts
<1>5. BusyOK' /\ SiOK'
  BY <1>1, <1>2, BusyPopped DEF Facts
<1> QED
  BY <1>2, <1>3, <1>4, <1>5 DEF Inv

\* A step that makes a call and changes sessions only.
LEMMA SessCall ==
    ASSUME Inv, NEW t \in Threads, SessQuiet, stack' \in Stacks, NEW g,
           Pushed(<<t, Len(stack[t]) + 1>>, g), SessOK',
           IF stack[t] = <<>> THEN g.owner = None ELSE Calls(Call[Place(t)], g),
           CallOK(g), g.c = None, g.pc \in {"open", "get"}, ~g.busy
    PROVE  Inv'
<1>1. Facts
  BY InvFacts
<1>2. TypeOK' /\ CtxSame /\ BusySame /\ ctx' = ctx
  BY SessQuietIs DEF SessQuiet
<1>3. StackOK'
  BY <1>1, <1>2, StackPushed DEF Facts
<1>4. CtxOK'
  BY <1>1, <1>2, CtxPushed DEF Facts
<1>5. BusyOK' /\ SiOK'
  BY <1>1, <1>2, BusyPushed DEF Facts
<1> QED
  BY <1>2, <1>3, <1>4, <1>5 DEF Inv

\* The call changes its place: what the place must be for the rest to hold.
LEMMA GotoStep ==
    ASSUME NEW t, Here(t), NEW pc \in Labels, NEW W, \A u \in W : Asleep(u), Move(t, Goto(t, pc), W),
           NEW q, q = IF pc \in DOMAIN Resume THEN Resume[pc] ELSE pc
    PROVE  /\ stack' \in Stacks
           /\ \E g \in CallType :
                 /\ Changed(Place(t), g)
                 /\ g.pc = q /\ g.op = Top(t).op /\ g.s = Top(t).s /\ g.c = Top(t).c
                 /\ g.owner = Top(t).owner /\ g.uuid = Top(t).uuid /\ (g.busy <=> Top(t).busy)
<1>1. PICK f : f = [Top(t) EXCEPT !.pc = pc]
  OBVIOUS
<1>2. Top(t) \in CallType /\ t \in Threads /\ stack[t] # <<>> /\ stack \in Stacks
  BY DEF Here
<1>3. f \in CallType
  BY <1>1, <1>2 DEF CallType
<1>4. Norm(f) \in CallType /\ Norm(f).pc = q
  BY <1>1, <1>2, <1>3, NormIs DEF CallType
<1>5. /\ Norm(f).op = Top(t).op /\ Norm(f).s = Top(t).s /\ Norm(f).c = Top(t).c
      /\ Norm(f).owner = Top(t).owner /\ Norm(f).uuid = Top(t).uuid /\ (Norm(f).busy <=> Top(t).busy)
  BY <1>1, <1>2, <1>3, NormIs DEF CallType
<1>6. stack' \in Stacks /\ Changed(Place(t), Norm(f))
  BY <1>1, <1>2, <1>3, WithChanges DEF Goto
<1> QED
  BY <1>4, <1>5, <1>6

\* The fields of a session.
LEMMA SessTyped ==
    ASSUME TypeOK, NEW s \in Sessions
    PROVE  /\ sess[s] \in SessType /\ sess[s].live \in BOOLEAN /\ sess[s].owner \in Ctxs \cup {None}
           /\ sess[s].ctx \in Ctxs \cup {None} /\ sess[s].ref \in Nat
           /\ sess[s].lock \in Threads \cup {None} /\ sess[s].unlink \in BOOLEAN /\ sess[s].open \in BOOLEAN
BY DEF TypeOK, SessType

\* The sessions after one of them changed.
LEMMA SessSet ==
    ASSUME TypeOK, NEW s \in Sessions, NEW r \in SessType, sess' = [sess EXCEPT ![s] = r]
    PROVE  /\ sess' \in [Sessions -> SessType] /\ sess'[s] = r
           /\ \A q \in Sessions \ {s} : sess'[q] = sess[q]
BY DEF TypeOK

\* A session with another reference count, lock and handle.
SessWith(q, n, l) == [q EXCEPT !.ref = n, !.lock = l]
SessOpen(q, n, l, o) == [q EXCEPT !.ref = n, !.lock = l, !.open = o]

\* The fields that identify a session are the same.
SessLike(r, q) == /\ r \in SessType /\ r.owner = q.owner /\ r.ctx = q.ctx
                  /\ r.live <=> q.live

\* The fields of such a session.
LEMMA SessRec ==
    ASSUME NEW q \in SessType, NEW n \in Nat, NEW l \in Threads \cup {None}
    PROVE  LET r == SessWith(q, n, l) IN
           /\ SessLike(r, q) /\ r.ref = n /\ r.lock = l
           /\ r.open <=> q.open
BY DEF SessType, SessWith, SessLike

\* The fields of such a session.
LEMMA SessRecOpen ==
    ASSUME NEW q \in SessType, NEW n \in Nat, NEW l \in Threads \cup {None}, NEW o \in BOOLEAN
    PROVE  LET r == SessOpen(q, n, l, o) IN
           /\ SessLike(r, q) /\ r.ref = n /\ r.lock = l
           /\ r.open <=> o
BY DEF SessType, SessOpen, SessLike

\* tee_ta_get_session().
LEMMA GetSessionStep ==
    ASSUME Inv, NEW t \in Threads, GetSession(t)
    PROVE  Inv'
<1>0. Here(t) /\ Top(t).pc = "get" /\ Facts
  BY HereIs, ResumeIs, InvFacts DEF GetSession
<1>1. PICK s : s = Top(t).s
  OBVIOUS
<1>2. /\ Top(t) \in CallType /\ Call[Place(t)] = Top(t) /\ CallOK(Top(t)) /\ Place(t) \in Frames
      /\ stack[t] # <<>> /\ Place(t)[1] = t
  BY <1>0 DEF Here
<1>3. /\ s \in Sessions /\ Top(t).op \in {"invoke", "close", "cancel"} /\ Top(t).c = None
      /\ ~Top(t).busy /\ ~Uses(Top(t)) /\ ~Closing(Top(t))
  BY <1>0, <1>1, <1>2 DEF CallOK, CallType, InTa, Uses, Closing
<1>4. CASE ~sess[s].live \/ sess[s].owner # Top(t).owner \/ sess[s].unlink
  <2>1. Quiet /\ Move(t, Return(t), {}) /\ \A u \in {} : Asleep(u)
    BY <1>1, <1>4 DEF GetSession, Quiet, Inv, TypeOK
  <2> QED
    BY <1>0, <1>3, <2>1, QuietReturn
<1>5. CASE ~(~sess[s].live \/ sess[s].owner # Top(t).owner \/ sess[s].unlink)
  <2>1. PICK pc \in {"put", "wait_lock", "got"} :
           /\ Move(t, Goto(t, pc), {})
           /\ IF pc = "got" THEN /\ sess' = [sess EXCEPT ![s].ref = @ + 1, ![s].lock = t]
                                 /\ sess[s].lock = None
                            ELSE sess' = [sess EXCEPT ![s].ref = @ + 1]
           /\ pc = "put" <=> Top(t).op = "cancel"
    BY <1>1, <1>5 DEF GetSession
  <2>2. UNCHANGED <<ctx, tee_ctxes, siThread, siCount, dead>>
    BY DEF GetSession
  <2>3. PICK q : q = IF pc \in DOMAIN Resume THEN Resume[pc] ELSE pc
    OBVIOUS
  <2>4. /\ q \in {"put", "relock", "got"} /\ pc \in Labels
        /\ q = "put" <=> Top(t).op = "cancel"
        /\ q = "got" <=> pc = "got"
    BY <2>1, <2>3, ResumeIs DEF Labels
  <2>5. stack' \in Stacks
    BY <1>0, <2>1, <2>3, <2>4, GotoStep
  <2>6. PICK g \in CallType :
           /\ Changed(Place(t), g)
           /\ g.pc = q /\ g.op = Top(t).op /\ g.s = Top(t).s /\ g.c = Top(t).c
           /\ g.owner = Top(t).owner /\ g.uuid = Top(t).uuid /\ (g.busy <=> Top(t).busy)
    BY <1>0, <2>1, <2>3, <2>4, GotoStep
  <2>7. Uses(g) /\ ~Closing(g) /\ (Locks(g) <=> pc = "got") /\ CallOK(g)
    <3>1. Uses(g) /\ ~Closing(g)
      BY <2>4, <2>6 DEF Uses, Closing
    <3>2. CallOK(g)
      BY <1>0, <1>2, <1>3, <2>4, <2>6 DEF CallOK, InTa
    <3> QED
      BY <1>3, <2>4, <2>6, <3>1, <3>2 DEF Locks
  <2>8. /\ sess' \in [Sessions -> SessType]
        /\ \A r \in Sessions \ {s} : sess'[r] = sess[r]
        /\ SessKept(s) /\ (sess'[s].open <=> sess[s].open) /\ sess'[s].ref = sess[s].ref + 1
        /\ sess'[s].lock = IF pc = "got" THEN t ELSE sess[s].lock
    <3>0. PICK l : l = IF pc = "got" THEN t ELSE sess[s].lock
      OBVIOUS
    <3>1. PICK r : r = SessWith(sess[s], sess[s].ref + 1, l)
      OBVIOUS
    <3>2. TypeOK /\ sess[s] \in SessType /\ sess[s].ref + 1 \in Nat /\ l \in Threads \cup {None}
      BY <1>0, <1>3, <3>0, SessTyped DEF Facts
    <3>3. /\ SessLike(r, sess[s]) /\ r.ref = sess[s].ref + 1 /\ r.lock = l
          /\ r.open <=> sess[s].open
      BY <3>1, <3>2, SessRec
    <3>4. sess' = [sess EXCEPT ![s] = r]
      <4>1. CASE pc = "got"
        BY <2>1, <3>0, <3>1, <4>1 DEF SessWith
      <4>2. CASE pc # "got"
        <5>1. r = [sess[s] EXCEPT !.ref = @ + 1]
          BY <3>0, <3>1, <3>2, <4>2 DEF SessType, SessWith
        <5> QED
          BY <2>1, <4>2, <5>1
      <4> QED
        BY <4>1, <4>2
    <3>5. /\ sess' \in [Sessions -> SessType] /\ sess'[s] = r
          /\ \A q1 \in Sessions \ {s} : sess'[q1] = sess[q1]
      BY <1>3, <3>2, <3>3, <3>4, SessSet DEF SessLike
    <3> QED
      BY <3>0, <3>3, <3>5 DEF SessKept, SessLike
  <2>9. SessQuiet
    <3>2. \A r \in Sessions : (sess'[r].live <=> sess[r].live) /\ sess'[r].ctx = sess[r].ctx
      BY <2>8 DEF SessKept
    <3> QED
      BY <1>0, <2>2, <2>8, <3>2 DEF SessQuiet, Facts, TypeOK
  <2>10. Local(s, Place(t))
    BY <1>1, <1>2, <1>3, <2>6, <2>8, LocalChange
  <2>11. SessOK'
    <3>1. IF Locks(g) THEN sess[s].lock = None /\ sess'[s].lock = Place(t)[1]
                      ELSE sess'[s].lock = sess[s].lock
      BY <1>2, <2>1, <2>7, <2>8
    <3>2. g.op # "open" /\ g.c = None /\ sess[s].live /\ sess[s].owner = g.owner
      BY <1>3, <1>5, <2>6
    <3> QED
      BY <1>0, <1>1, <1>2, <1>3, <2>6, <2>7, <2>8, <2>10, <3>1, <3>2, SessGot DEF Facts
  <2>12. FitsCtx(Place(t), g)
    BY <1>0, <2>4, <2>6, FitsSame
  <2> QED
    BY <1>0, <1>3, <2>5, <2>6, <2>7, <2>9, <2>11, <2>12, SessChange
<1> QED
  BY <1>4, <1>5

\* A call that uses its session has a reference to it.
LEMMA UsedSession ==
    ASSUME Facts, NEW x \in Frames, Uses(Call[x]), NEW s, s = Call[x].s
    PROVE  /\ s \in Sessions /\ sess[s].live /\ sess[s].ref \in Nat \ {0}
           /\ UseOK(x[1], Call[x], sess[s])
<1>1. /\ s \in Sessions /\ UseOK(x[1], Call[x], sess[s])
  BY DEF Facts, SessNamed, SessOK, UsesOK
<1>2. sess[s].live /\ sess[s].ref = Cardinality(UsersOf(s))
  BY <1>1 DEF UseOK, Facts, SessOK, SessRefs
<1>3. x \in UsersOf(s) /\ IsFiniteSet(UsersOf(s))
  BY FS_Subset DEF UsersOf, Facts
<1>4. Cardinality(UsersOf(s)) \in Nat /\ Cardinality(UsersOf(s)) # 0
  BY <1>3, FS_EmptySet, FS_CardinalityType
<1> QED
  BY <1>1, <1>2, <1>4

\* tee_ta_get_session(), woken from lock_cv.
LEMMA RelockStep ==
    ASSUME Inv, NEW t \in Threads, Relock(t)
    PROVE  Inv'
<1>0. Here(t) /\ Top(t).pc = "relock" /\ Facts
  BY HereIs, ResumeIs, InvFacts DEF Relock
<1>1. PICK s : s = Top(t).s
  OBVIOUS
<1>2. /\ Top(t) \in CallType /\ Call[Place(t)] = Top(t) /\ CallOK(Top(t)) /\ Place(t) \in Frames
      /\ stack[t] # <<>> /\ Place(t)[1] = t /\ stack \in Stacks
  BY <1>0 DEF Here
<1>3. /\ Top(t).op \in {"invoke", "close"} /\ Top(t).c = None
      /\ ~Top(t).busy /\ Uses(Top(t)) /\ ~Closing(Top(t))
  BY <1>0, <1>2 DEF CallOK, CallType, InTa, Uses, Closing
<1>4. /\ s \in Sessions /\ sess[s].live /\ sess[s].ref \in Nat \ {0}
      /\ TypeOK /\ sess[s] \in SessType /\ sess[s].lock \in Threads \cup {None}
  BY <1>0, <1>1, <1>2, <1>3, UsedSession, SessTyped DEF Facts
<1>5. UNCHANGED <<ctx, tee_ctxes, siThread, siCount, dead>>
  BY DEF Relock
<1>6. CASE sess[s].unlink
  <2>1. sess' = [sess EXCEPT ![s].ref = @ - 1] /\ \E W \in DecWakes(s) : Move(t, Return(t), W)
    BY <1>1, <1>6 DEF Relock
  <2>2. PICK W \in DecWakes(s) : Move(t, Return(t), W)
    BY <2>1
  <2>3. \A u \in W : Asleep(u)
    BY <2>2, WakesSleepers
  <2>4. stack' \in Stacks /\ Popped(Place(t))
    BY <1>2, <2>2, <2>3, ReturnPops
  <2>5. PICK r : r = SessWith(sess[s], sess[s].ref - 1, sess[s].lock)
    OBVIOUS
  <2>6. sess[s].ref - 1 \in Nat
    BY <1>4
  <2>7. /\ SessLike(r, sess[s]) /\ r.ref = sess[s].ref - 1 /\ r.lock = sess[s].lock
        /\ r.open <=> sess[s].open
    BY <1>4, <2>5, <2>6, SessRec
  <2>8. r = [sess[s] EXCEPT !.ref = @ - 1]
    BY <1>4, <2>5 DEF SessType, SessWith
  <2>9. sess' = [sess EXCEPT ![s] = r]
    BY <2>1, <2>8
  <2>10. /\ sess' \in [Sessions -> SessType] /\ sess'[s] = r
         /\ \A q \in Sessions \ {s} : sess'[q] = sess[q]
    BY <1>4, <2>7, <2>9, SessSet DEF SessLike
  <2>11. SessKept(s) /\ Local(s, Place(t))
    BY <1>1, <1>2, <1>4, <2>4, <2>7, <2>10, LocalPop DEF SessKept, SessLike
  <2>12. SessOK'
    BY <1>0, <1>1, <1>2, <1>3, <2>4, <2>7, <2>10, <2>11, SessLeft DEF Facts
  <2>13. SessQuiet
    <3>1. \A q \in Sessions : (sess'[q].live <=> sess[q].live) /\ sess'[q].ctx = sess[q].ctx
      BY <2>10, <2>11 DEF SessKept
    <3> QED
      BY <1>4, <1>5, <2>10, <3>1 DEF SessQuiet, TypeOK
  <2> QED
    BY <1>0, <1>3, <2>4, <2>12, <2>13, SessReturn
<1>7. CASE ~sess[s].unlink /\ sess[s].lock # None
  <2>1. Quiet /\ Move(t, Goto(t, "wait_lock"), {}) /\ \A u \in {} : Asleep(u)
    BY <1>1, <1>4, <1>5, <1>7 DEF Relock, Quiet, TypeOK
  <2>2. MovesOn(Top(t), Resume["wait_lock"]) /\ "wait_lock" \in Labels /\ "wait_lock" \in DOMAIN Resume
    BY <1>0, ResumeIs DEF MovesOn, Labels
  <2> QED
    BY <1>0, <2>1, <2>2, GoOnTo, ResumeIs
<1>8. CASE ~sess[s].unlink /\ sess[s].lock = None
  <2>1. sess' = [sess EXCEPT ![s].lock = t] /\ Move(t, Goto(t, "got"), {}) /\ \A u \in {} : Asleep(u)
    BY <1>1, <1>8 DEF Relock
  <2>2. "got" = (IF "got" \in DOMAIN Resume THEN Resume["got"] ELSE "got") /\ "got" \in Labels
    BY ResumeIs DEF Labels
  <2>3. stack' \in Stacks
    BY <1>0, <2>1, <2>2, GotoStep
  <2>4. PICK g \in CallType :
           /\ Changed(Place(t), g)
           /\ g.pc = "got" /\ g.op = Top(t).op /\ g.s = Top(t).s /\ g.c = Top(t).c
           /\ g.owner = Top(t).owner /\ g.uuid = Top(t).uuid /\ (g.busy <=> Top(t).busy)
    BY <1>0, <2>1, <2>2, GotoStep
  <2>5. Uses(g) /\ ~Closing(g) /\ CallOK(g)
    BY <1>0, <1>2, <1>3, <2>4 DEF Uses, Closing, CallOK, InTa
  <2>6. PICK r : r = SessWith(sess[s], sess[s].ref, t)
    OBVIOUS
  <2>7. /\ SessLike(r, sess[s]) /\ r.ref = sess[s].ref /\ r.lock = t
        /\ r.open <=> sess[s].open
    BY <1>4, <2>6, SessRec
  <2>8. r = [sess[s] EXCEPT !.lock = t]
    BY <1>4, <2>6 DEF SessType, SessWith
  <2>9. sess' = [sess EXCEPT ![s] = r]
    BY <2>1, <2>8
  <2>10. /\ sess' \in [Sessions -> SessType] /\ sess'[s] = r
         /\ \A q \in Sessions \ {s} : sess'[q] = sess[q]
    BY <1>4, <2>7, <2>9, SessSet DEF SessLike
  <2>11. SessKept(s) /\ Local(s, Place(t))
    BY <1>1, <1>2, <1>4, <2>4, <2>7, <2>10, LocalChange DEF SessKept, SessLike
  <2>12. SessOK'
    BY <1>0, <1>1, <1>2, <1>3, <1>8, <2>4, <2>5, <2>7, <2>10, <2>11, SessLocked DEF Facts
  <2>13. SessQuiet
    <3>1. \A q \in Sessions : (sess'[q].live <=> sess[q].live) /\ sess'[q].ctx = sess[q].ctx
      BY <2>10, <2>11 DEF SessKept
    <3> QED
      BY <1>4, <1>5, <2>10, <3>1 DEF SessQuiet, TypeOK
  <2>14. FitsCtx(Place(t), g)
    BY <1>0, <2>4, FitsSame
  <2> QED
    BY <1>0, <1>3, <2>3, <2>4, <2>5, <2>12, <2>13, <2>14, SessChange
<1> QED
  BY <1>6, <1>7, <1>8

\* A call of normal world has no call below it.
LEMMA CancelAlone ==
    ASSUME Facts, NEW x \in Frames, Call[x].op = "cancel", NEW t \in Threads, stack[t] # <<>>, x = Place(t),
           NEW y \in Frames, y[1] = t
    PROVE  y = x
<1>1. x[2] = 1
  BY DEF Facts, StackOK, Calls
<1>2. x = <<t, Len(stack[t])>> /\ Len(stack[t]) = 1
  BY <1>1 DEF Place
<1>3. y = <<y[1], y[2]>> /\ y[2] \in Nat \ {0} /\ y[2] <= Len(stack[y[1]])
  BY FramePairs DEF Facts
<1>4. y[2] = 1
  BY <1>2, <1>3
<1> QED
  BY <1>2, <1>3, <1>4

\* tee_ta_put_session().
LEMMA PutSessionStep ==
    ASSUME Inv, NEW t \in Threads, PutSession(t)
    PROVE  Inv'
<1>0. Here(t) /\ Top(t).pc = "put" /\ Facts
  BY HereIs, ResumeIs, InvFacts DEF PutSession
<1>1. PICK s : s = Top(t).s
  OBVIOUS
<1>2. /\ Top(t) \in CallType /\ Call[Place(t)] = Top(t) /\ CallOK(Top(t)) /\ Place(t) \in Frames
      /\ stack[t] # <<>> /\ Place(t)[1] = t /\ stack \in Stacks
  BY <1>0 DEF Here
<1>3. /\ Top(t).op \in {"open", "invoke", "cancel"} /\ (Top(t).c = None <=> Top(t).op = "cancel")
      /\ ~Top(t).busy /\ Uses(Top(t)) /\ ~Closing(Top(t))
  BY <1>0, <1>2 DEF CallOK, CallType, InTa, Uses, Closing
<1>4. /\ s \in Sessions /\ sess[s].live /\ sess[s].ref \in Nat \ {0} /\ UseOK(t, Top(t), sess[s])
      /\ TypeOK /\ sess[s] \in SessType /\ sess[s].lock \in Threads \cup {None}
  BY <1>0, <1>1, <1>2, <1>3, UsedSession, SessTyped DEF Facts
<1>5. UNCHANGED <<ctx, tee_ctxes, siThread, siCount, dead>>
  BY DEF PutSession
<1>6. PICK l : l = IF sess[s].lock = t THEN None ELSE sess[s].lock
  OBVIOUS
<1>7. PICK o \in BOOLEAN : o <=> sess[s].open \/ (Top(t).op = "open" /\ Top(t).ok)
  OBVIOUS
<1>8. sess' = [sess EXCEPT ![s] = SessOpen(sess[s], sess[s].ref - 1, l, o)]
  <2>1. sess' = [sess EXCEPT ![s].ref = @ - 1,
                             ![s].lock = IF sess[s].lock = t THEN None ELSE @,
                             ![s].open = @ \/ (Top(t).op = "open" /\ Top(t).ok)]
    BY <1>1 DEF PutSession
  <2>2. o = (sess[s].open \/ (Top(t).op = "open" /\ Top(t).ok))
    BY <1>7
  <2> QED
    BY <1>6, <2>1, <2>2 DEF SessOpen
<1>9. PICK r : r = SessOpen(sess[s], sess[s].ref - 1, l, o)
  OBVIOUS
<1>10. /\ SessLike(r, sess[s]) /\ r.ref = sess[s].ref - 1 /\ r.lock = l
       /\ r.open <=> o
  <2>1. sess[s].ref - 1 \in Nat /\ l \in Threads \cup {None}
    BY <1>4, <1>6
  <2> QED
    BY <1>4, <1>9, <2>1, SessRecOpen
<1>11. /\ sess' \in [Sessions -> SessType] /\ sess'[s] = r
       /\ \A q \in Sessions \ {s} : sess'[q] = sess[q]
  BY <1>4, <1>8, <1>9, <1>10, SessSet DEF SessLike
<1>12. SessKept(s)
  BY <1>10, <1>11 DEF SessKept, SessLike
<1>13. SessQuiet
  <2>1. \A q \in Sessions : (sess'[q].live <=> sess[q].live) /\ sess'[q].ctx = sess[q].ctx
    BY <1>11, <1>12 DEF SessKept
  <2> QED
    BY <1>4, <1>5, <1>11, <2>1 DEF SessQuiet, TypeOK
<1>14. Top(t).op = "open" => sess[s].ctx # None
  BY <1>3, <1>4 DEF UseOK
<1>15. PICK W1 \in DecWakes(s), W2 \in IF sess[s].lock = t THEN OneOf(WaitingFor("wait_lock", s)) ELSE {{}} :
          Move(t, IF Top(t).op = "open" /\ ~Top(t).ok
                  THEN With(t, [Frame("close", "get", s, Top(t).owner, None) EXCEPT !.ok = FALSE])
                  ELSE Return(t), W1 \cup W2)
  BY <1>1 DEF PutSession
<1>16. PICK W : W = W1 \cup W2
  OBVIOUS
<1>17. \A u \in W : Asleep(u)
  <2>1. \A u \in W1 : Asleep(u)
    BY WakesSleepers
  <2>2. \A u \in W2 : Asleep(u)
    BY <1>15, WakesSleepers, ResumeIs
  <2> QED
    BY <1>16, <2>1, <2>2
<1>18. CASE Top(t).op = "open" /\ ~Top(t).ok
  <2>1. PICK g : g = [Frame("close", "get", s, Top(t).owner, None) EXCEPT !.ok = FALSE]
    OBVIOUS
  <2>2. Move(t, With(t, g), W)
    BY <1>15, <1>16, <1>18, <2>1
  <2>3. /\ g \in CallType /\ g.op = "close" /\ g.pc = "get" /\ g.s = s /\ g.c = None
        /\ g.owner = Top(t).owner /\ ~g.busy
    BY <1>2, <1>4, <2>1 DEF Frame, CallType, Labels
  <2>4. Norm(g) = g
    BY <2>3, NormIs, ResumeIs
  <2>5. stack' \in Stacks /\ Changed(Place(t), g)
    BY <1>2, <1>17, <2>2, <2>3, <2>4, WithChanges
  <2>6. CallOK(g) /\ ~Uses(g) /\ ~Closing(g)
    BY <1>4, <2>3, ConstantsAssumption DEF CallOK, InTa, Uses, Closing
  <2>7. Local(s, Place(t))
    BY <1>1, <1>2, <1>4, <1>11, <2>3, <2>5, LocalChange
  <2>8. sess'[s].open <=> sess[s].open
    BY <1>7, <1>10, <1>11, <1>18
  <2>9. sess'[s].ref = sess[s].ref - 1
    BY <1>10, <1>11
  <2>10. SessOK'
    BY <1>0, <1>1, <1>2, <1>3, <1>12, <1>14, <1>18, <2>3, <2>5, <2>6, <2>7, <2>8, <2>9, SessGivenUp DEF Facts
  <2>11. FitsCtx(Place(t), g)
    BY <2>3 DEF FitsCtx
  <2> QED
    BY <1>0, <1>3, <1>13, <2>3, <2>5, <2>6, <2>10, <2>11, SessChange
<1>19. CASE ~(Top(t).op = "open" /\ ~Top(t).ok)
  <2>1. Move(t, Return(t), W)
    BY <1>15, <1>16, <1>19
  <2>2. stack' \in Stacks /\ Popped(Place(t))
    BY <1>2, <1>17, <2>1, ReturnPops
  <2>3. Local(s, Place(t))
    BY <1>1, <1>2, <1>4, <1>11, <2>2, LocalPop
  <2>4. sess'[s].ref = sess[s].ref - 1
    BY <1>10, <1>11
  <2>5. IF Top(t).op = "open" THEN sess[s].ctx # None ELSE sess'[s].open <=> sess[s].open
    BY <1>7, <1>10, <1>11, <1>14
  <2>6. ASSUME NEW y \in Frames \ {Place(t)}, Call[y].s = s, Locks(Call[y])
        PROVE  sess'[s].lock = sess[s].lock
    <3>1. Compatible(Call[Place(t)], Call[y]) /\ UseOK(y[1], Call[y], sess[s])
      BY <1>0, <1>2, <2>6 DEF Facts, SessOK, AloneOK, UsesOK
    <3>2. Top(t).op # "open" /\ ~Locks(Top(t))
      BY <1>1, <1>2, <1>4, <2>6, <3>1, ConstantsAssumption DEF Compatible
    <3>3. Top(t).op = "cancel"
      BY <1>0, <1>3, <3>2 DEF Locks
    <3>4. y[1] # t
      BY <1>0, <1>2, <2>6, <3>3, CancelAlone
    <3>5. sess[s].lock # t
      BY <2>6, <3>1, <3>4 DEF UseOK
    <3> QED
      BY <1>6, <1>10, <1>11, <3>5
  <2>7. SessOK'
    BY <1>0, <1>1, <1>2, <1>3, <1>12, <2>2, <2>3, <2>4, <2>5, <2>6, SessLeft DEF Facts
  <2> QED
    BY <1>0, <1>3, <1>13, <2>2, <2>7, SessReturn
<1> QED
  BY <1>18, <1>19

\* The error path of tee_ta_init_session().
LEMMA UndoOpenStep ==
    ASSUME Inv, NEW t \in Threads, UndoOpen(t)
    PROVE  Inv'
<1>0. Here(t) /\ Top(t).pc = "undo" /\ Facts
  BY HereIs, ResumeIs, InvFacts DEF UndoOpen
<1>1. PICK s : s = Top(t).s
  OBVIOUS
<1>2. /\ Top(t) \in CallType /\ Call[Place(t)] = Top(t) /\ CallOK(Top(t)) /\ Place(t) \in Frames
      /\ stack[t] # <<>> /\ Place(t)[1] = t /\ stack \in Stacks
  BY <1>0 DEF Here
<1>3. /\ Top(t).op = "open" /\ Top(t).c = None
      /\ ~Top(t).busy /\ Uses(Top(t)) /\ ~Closing(Top(t))
  BY <1>0, <1>2 DEF CallOK, CallType, InTa, Uses, Closing
<1>4. /\ s \in Sessions /\ sess[s].live /\ UseOK(t, Top(t), sess[s]) /\ TypeOK /\ sess[s].ctx = None
  BY <1>0, <1>1, <1>2, <1>3, UsedSession DEF Facts, UseOK
<1>5. UNCHANGED <<ctx, tee_ctxes, siThread, siCount, dead>> /\ sess' = [sess EXCEPT ![s] = FreeSess]
      /\ Move(t, Return(t), {}) /\ \A u \in {} : Asleep(u)
  BY <1>1 DEF UndoOpen
<1>6. FreeSess \in SessType /\ ~FreeSess.live /\ ~FreeSess.open
  BY DEF FreeSess, SessType
<1>7. /\ sess' \in [Sessions -> SessType] /\ sess'[s] = FreeSess
      /\ \A q \in Sessions \ {s} : sess'[q] = sess[q]
  BY <1>4, <1>5, <1>6, SessSet
<1>8. stack' \in Stacks /\ Popped(Place(t))
  BY <1>2, <1>5, ReturnPops
<1>9. Local(s, Place(t))
  BY <1>1, <1>2, <1>4, <1>7, <1>8, LocalPop
<1>10. SessOK'
  BY <1>0, <1>1, <1>2, <1>3, <1>6, <1>7, <1>8, <1>9, SessUndone DEF Facts
<1>11. SessQuiet
  <2>1. ASSUME NEW q \in Sessions, NEW c \in Ctxs
        PROVE  (sess'[q].live /\ sess'[q].ctx = c) <=> (sess[q].live /\ sess[q].ctx = c)
    BY <1>4, <1>6, <1>7, ConstantsAssumption
  <2> QED
    BY <1>4, <1>5, <1>7, <2>1 DEF SessQuiet, TypeOK
<1> QED
  BY <1>0, <1>3, <1>8, <1>10, <1>11, SessReturn

\* tee_ta_unlink_session() waits.
LEMMA UnlinkWaits ==
    ASSUME Inv, NEW t, Here(t), Top(t).pc = "unlink", NEW s, s = Top(t).s,
           NEW W, \A u \in W : Asleep(u), Move(t, Goto(t, "wait_refc"), W),
           sess' = [sess EXCEPT ![s].unlink = TRUE],
           UNCHANGED <<ctx, tee_ctxes, siThread, siCount, dead>>
    PROVE  Inv'
<1>1. Facts
  BY InvFacts
<1>2. /\ Top(t) \in CallType /\ Call[Place(t)] = Top(t) /\ CallOK(Top(t)) /\ Place(t) \in Frames
      /\ stack[t] # <<>> /\ Place(t)[1] = t /\ stack \in Stacks
  BY DEF Here
<1>3. /\ Top(t).op = "close" /\ Uses(Top(t)) /\ ~Closing(Top(t))
  BY <1>2 DEF CallOK, CallType, InTa, Uses, Closing
<1>4. /\ s \in Sessions /\ TypeOK /\ sess[s] \in SessType
  BY <1>1, <1>2, <1>3, UsedSession, SessTyped DEF Facts
<1>5. "unlinked" = (IF "wait_refc" \in DOMAIN Resume THEN Resume["wait_refc"] ELSE "wait_refc")
      /\ "wait_refc" \in Labels
  BY ResumeIs DEF Labels
<1>6. stack' \in Stacks
  BY <1>5, GotoStep
<1>7. PICK g \in CallType :
         /\ Changed(Place(t), g)
         /\ g.pc = "unlinked" /\ g.op = Top(t).op /\ g.s = Top(t).s /\ g.c = Top(t).c
         /\ g.owner = Top(t).owner /\ g.uuid = Top(t).uuid /\ (g.busy <=> Top(t).busy)
  BY <1>5, GotoStep
<1>8. Uses(g) /\ ~Closing(g) /\ CallOK(g)
  BY <1>2, <1>3, <1>7 DEF Uses, Closing, CallOK, InTa
<1>9. SameUse(Top(t), g)
  BY <1>3, <1>7, <1>8 DEF SameUse, Locks
<1>10. PICK r : r = [sess[s] EXCEPT !.unlink = TRUE]
  OBVIOUS
<1>11. /\ SessLike(r, sess[s]) /\ r.ref = sess[s].ref /\ r.lock = sess[s].lock
       /\ r.open <=> sess[s].open
  BY <1>4, <1>10 DEF SessLike, SessType
<1>12. sess' = [sess EXCEPT ![s] = r]
  BY <1>10
<1>13. /\ sess' \in [Sessions -> SessType] /\ sess'[s] = r
       /\ \A q \in Sessions \ {s} : sess'[q] = sess[q]
  BY <1>4, <1>11, <1>12, SessSet DEF SessLike
<1>14. SessKept(s) /\ Local(s, Place(t))
  BY <1>2, <1>4, <1>7, <1>11, <1>13, LocalChange DEF SessKept, SessLike
<1>15. SessOK'
  BY <1>1, <1>2, <1>7, <1>9, <1>11, <1>13, <1>14, SessMarked DEF Facts
<1>16. SessQuiet
  <2>1. \A q \in Sessions : (sess'[q].live <=> sess[q].live) /\ sess'[q].ctx = sess[q].ctx
    BY <1>13, <1>14 DEF SessKept
  <2> QED
    BY <1>4, <1>13, <2>1 DEF SessQuiet, TypeOK
<1>17. FitsCtx(Place(t), g)
  BY <1>7, FitsSame
<1> QED
  BY <1>3, <1>6, <1>7, <1>8, <1>15, <1>16, <1>17, SessChange

\* The fields of a new call.
LEMMA FrameIs ==
    ASSUME NEW op \in {"open", "invoke", "close", "cancel"}, NEW pc \in Labels, NEW s \in Sessions \cup {None},
           NEW o \in Ctxs \cup {None}, NEW u \in Uuids \cup {None}
    PROVE  LET f == Frame(op, pc, s, o, u) IN
           /\ f \in CallType /\ f.op = op /\ f.pc = pc /\ f.s = s /\ f.c = None /\ f.owner = o /\ f.uuid = u
           /\ ~f.busy
BY DEF Frame, CallType

\* A client calls: normal world on an idle thread, or the TA of the call.
LEMMA ClientStep ==
    ASSUME Inv, NEW t \in Threads, NEW owner \in Ctxs \cup {None}, Client(t, owner),
           UNCHANGED <<ctx, tee_ctxes, siThread, siCount, dead>>,
           IF stack[t] = <<>> THEN owner = None
           ELSE /\ Call[Place(t)].pc = "body" /\ Call[Place(t)].c = owner /\ owner # None
                /\ ctx[owner].uuid \in Callers
    PROVE  Inv'
<1>1. Facts /\ TypeOK /\ stack \in Stacks
  BY InvFacts DEF Facts
<1>2. \A u \in {} : Asleep(u)
  OBVIOUS
<1>3. PICK x : x = <<t, Len(stack[t]) + 1>>
  OBVIOUS
<1>4. ASSUME NEW u \in Uuids, Move(t, Append(stack[t], Frame("open", "open", None, owner, u)), {}),
             UNCHANGED sess
      PROVE  Inv'
  <2>1. PICK g : g = Frame("open", "open", None, owner, u)
    OBVIOUS
  <2>2. /\ g \in CallType /\ g.op = "open" /\ g.pc = "open" /\ g.s = None /\ g.c = None /\ g.owner = owner
        /\ g.uuid = u /\ ~g.busy
    BY SMTT(30), <2>1, FrameIs DEF Labels
  <2>3. Norm(g) = g
    BY <2>2, NormIs, ResumeIs
  <2>4. stack' \in Stacks /\ Pushed(<<t, Len(stack[t]) + 1>>, g)
    BY <1>1, <1>2, <1>4, <2>1, <2>2, <2>3, CallPushes
  <2>5. CallOK(g) /\ ~Uses(g)
    BY <2>2 DEF CallOK, InTa, Uses
  <2>6. SessOK'
    BY <1>1, <1>4, <2>2, <2>4, <2>5, SessPushed DEF Facts
  <2>7. SessQuiet
    BY <1>1, <1>4 DEF SessQuiet, TypeOK
  <2>8. IF stack[t] = <<>> THEN g.owner = None ELSE Calls(Call[Place(t)], g)
    BY <2>2 DEF Calls
  <2> QED
    BY <2>2, <2>4, <2>5, <2>6, <2>7, <2>8, SessCall
<1>5. ASSUME NEW s \in Sessions, NEW op \in {"invoke", "close", "cancel"},
             sess[s].open, sess[s].owner = owner, op = "cancel" => owner = None,
             Move(t, Append(stack[t], Frame(op, "get", s, owner, None)), {}),
             sess' = [sess EXCEPT ![s].open = (op # "close")]
      PROVE  Inv'
  <2>1. PICK g : g = Frame(op, "get", s, owner, None)
    OBVIOUS
  <2>2. /\ g \in CallType /\ g.op = op /\ g.pc = "get" /\ g.s = s /\ g.c = None /\ g.owner = owner
        /\ ~g.busy
    BY <2>1, FrameIs DEF Labels
  <2>3. Norm(g) = g
    BY <2>2, NormIs, ResumeIs
  <2>4. stack' \in Stacks /\ Pushed(<<t, Len(stack[t]) + 1>>, g)
    BY <1>1, <1>2, <1>5, <2>1, <2>2, <2>3, CallPushes
  <2>5. CallOK(g) /\ ~Uses(g)
    BY <1>1, <2>2 DEF CallOK, InTa, Uses, Facts
  <2>6. PICK o \in BOOLEAN : o <=> op # "close"
    OBVIOUS
  <2>7. PICK r : r = [sess[s] EXCEPT !.open = o]
    OBVIOUS
  <2>8. /\ SessLike(r, sess[s]) /\ r.ref = sess[s].ref /\ r.lock = sess[s].lock
        /\ r.open <=> o
    BY <1>1, <2>7, SessTyped DEF SessLike, SessType
  <2>9. sess' = [sess EXCEPT ![s] = r]
    <3>1. o = (op # "close")
      BY <2>6
    <3> QED
      BY <1>5, <2>7, <3>1
  <2>10. /\ sess' \in [Sessions -> SessType] /\ sess'[s] = r
         /\ \A q \in Sessions \ {s} : sess'[q] = sess[q]
    BY <1>1, <2>8, <2>9, SessSet DEF SessLike
  <2>11. SessKept(s) /\ Local(s, <<t, Len(stack[t]) + 1>>)
    BY <2>2, <2>4, <2>8, <2>10, LocalPush DEF SessKept, SessLike
  <2>12. HandleOK(s)
    BY <1>1 DEF Facts, SessOK, OpenOK
  <2>13. /\ sess[s].live /\ sess[s].ctx # None
         /\ \A y \in Frames : Call[y].s = s => Call[y].op \in {"invoke", "cancel"}
    BY <1>5, <2>12 DEF HandleOK
  <2>14. SessOK'
    BY <1>1, <1>3, <1>5, <2>2, <2>4, <2>5, <2>6, <2>8, <2>10, <2>11, <2>13, SessCalled DEF Facts
  <2>15. SessQuiet
    <3>1. \A q \in Sessions : (sess'[q].live <=> sess[q].live) /\ sess'[q].ctx = sess[q].ctx
      BY <2>10, <2>11 DEF SessKept
    <3> QED
      BY <1>1, <2>10, <3>1 DEF SessQuiet, TypeOK
  <2>16. IF stack[t] = <<>> THEN g.owner = None ELSE Calls(Call[Place(t)], g)
    BY <1>5, <2>2 DEF Calls
  <2> QED
    BY <2>2, <2>4, <2>5, <2>14, <2>15, <2>16, SessCall
<1> QED
  BY <1>4, <1>5 DEF Client

\* A call of normal world.
LEMMA NormalWorldStep ==
    ASSUME Inv, NEW t \in Threads, NormalWorldCalls(t)
    PROVE  Inv'
BY ClientStep DEF NormalWorldCalls

\* A system call of a TA that is a client.
LEMMA TaCallsStep ==
    ASSUME Inv, NEW t \in Threads, TaCalls(t)
    PROVE  Inv'
<1>1. Here(t) /\ Top(t).pc = "body" /\ Facts
  BY HereIs, ResumeIs, InvFacts DEF TaCalls
<1>2. /\ stack[t] # <<>> /\ Call[Place(t)] = Top(t) /\ Top(t).c \in Ctxs /\ None \notin Ctxs
  BY <1>1 DEF Here, CtxNamed, Facts
<1>3. /\ Client(t, Top(t).c) /\ ctx[Top(t).c].uuid \in Callers
      /\ UNCHANGED <<ctx, tee_ctxes, siThread, siCount, dead>>
  BY DEF TaCalls
<1> QED
  BY <1>1, <1>2, <1>3, ClientStep

\* The context of a call that uses a session of it is live and referenced.
LEMMA UsedContext ==
    ASSUME Facts, NEW x \in Frames, Uses(Call[x]) \/ Closing(Call[x]), NEW c \in Ctxs, c = Call[x].c
    PROVE  ctx[c].live /\ ctx[c].ref # 0
<1>1. ctx[c].live
  BY DEF Facts, CtxOK, CtxCalls, CtxCall
<1>2. /\ ctx[c].ref = Cardinality(SessionsOf(c)) + Cardinality(ClosesOf(c))
      /\ IsFiniteSet(SessionsOf(c)) /\ IsFiniteSet(ClosesOf(c))
      /\ Cardinality(SessionsOf(c)) \in Nat /\ Cardinality(ClosesOf(c)) \in Nat
  <2>1. ctx[c].ref = Cardinality(SessionsOf(c)) + Cardinality(ClosesOf(c))
    BY <1>1 DEF Facts, CtxOK, CtxRefs, RefOK
  <2>2. IsFiniteSet(SessionsOf(c))
    BY ConstantsAssumption, FS_Subset DEF SessionsOf
  <2>3. IsFiniteSet(ClosesOf(c))
    BY FS_Subset DEF ClosesOf, Facts
  <2> QED
    BY <2>1, <2>2, <2>3, FS_CardinalityType
<1>3. CASE Uses(Call[x])
  <2>1. PICK s : s = Call[x].s
    OBVIOUS
  <2>2. s \in Sessions /\ sess[s].live /\ sess[s].ctx = c
    BY <1>3, <2>1, UsedSession DEF UseOK, Facts
  <2>3. SessionsOf(c) # {}
    BY <2>2 DEF SessionsOf
  <2>4. Cardinality(SessionsOf(c)) # 0
    BY <1>2, <2>3, FS_EmptySet
  <2> QED
    BY <1>1, <1>2, <2>4
<1>4. CASE Closing(Call[x])
  <2>1. ClosesOf(c) # {}
    BY <1>4 DEF ClosesOf
  <2>2. Cardinality(ClosesOf(c)) # 0
    BY <1>2, <2>1, FS_EmptySet
  <2> QED
    BY <1>1, <1>2, <2>2
<1> QED
  BY <1>3, <1>4

\* A TA that can panic is not concurrent.
LEMMA PanickedIs ==
    ASSUME Facts, NEW c \in Ctxs, ctx[c].live, ctx[c].uuid \notin Pseudo
    PROVE  ~Has(c, "CONCURRENT")
BY FlagsAssumption DEF Facts, CtxOK, CtxInfo, InfoOK, Has

\* While a thread closes the sessions of a context, no other call was made
\* with them: the call that could make it is this one.
LEMMA OwnerAlone ==
    ASSUME Facts, NEW t \in Threads, stack[t] # <<>>, NEW x \in Frames, x = Place(t),
           Call[x].pc \in {"release", "destroy"}, NEW y \in Frames, Call[y].owner = Call[x].c
    PROVE  FALSE
<1>1. PICK c : c = Call[x].c
  OBVIOUS
<1>2. c \in Ctxs /\ c # None /\ ctx[c].live
  BY <1>1 DEF Facts, CtxNamed, CtxOK, CtxCalls, CtxCall
<1>3. y[2] # 1
  BY <1>1, <1>2 DEF Facts, StackOK
<1>4. PICK z : z = <<y[1], y[2] - 1>>
  OBVIOUS
<1>5. y = <<y[1], y[2]>> /\ y[1] \in Threads /\ y[2] \in Nat \ {0} /\ y[2] <= Len(stack[y[1]])
      /\ Len(stack[y[1]]) \in Nat
  BY FramePairs DEF Facts, Stacks
<1>6. z \in Frames /\ z # x
  <2>1. FramesAre
    BY FramesIs DEF Facts
  <2>2. z \in Frames
    BY <1>3, <1>4, <1>5, <2>1 DEF FramesAre
  <2>3. z # x
    BY <1>4, <1>5 DEF Place
  <2> QED
    BY <2>2, <2>3
<1>7. Calls(Call[z], Call[y])
  BY <1>3, <1>4 DEF Facts, StackOK
<1>8. Call[z].c = c /\ Call[z].pc \in {"body", "release", "destroy"}
  BY <1>1, <1>7 DEF Calls
<1>9. Call[z].pc = "destroy" /\ Call[x].pc = "destroy" => FALSE
  BY <1>1, <1>6, <1>8 DEF Facts, CtxOK, DestroyOK
<1>10. \A w \in {x, z} : Call[w].pc \in {"body", "release"} => Uses(Call[w]) /\ Call[w].busy
  BY <1>6 DEF Uses, Facts, StackOK, CallOK, InTa
<1>11. Call[z].pc = "destroy" /\ Call[x].pc = "release" => FALSE
  BY <1>1, <1>2, <1>6, <1>8, <1>10, UsedContext DEF Facts, CtxOK, DestroyOK
<1>12. Call[x].pc = "destroy" /\ Call[z].pc \in {"body", "release"} => FALSE
  BY <1>1, <1>2, <1>6, <1>8, <1>10, UsedContext DEF Facts, CtxOK, DestroyOK
<1>13. Call[x].pc = "release" /\ Call[z].pc \in {"body", "release"} => FALSE
  <2> SUFFICES ASSUME Call[x].pc = "release", Call[z].pc \in {"body", "release"}
               PROVE  FALSE
    OBVIOUS
  <2>1. ctx[c].uuid \notin Pseudo
    BY <1>1, <1>2 DEF Facts, CtxOK, CtxCalls, CtxCall, CtxInfo, InfoOK
  <2>2. ~Has(c, "CONCURRENT")
    BY <1>2, <2>1, PanickedIs
  <2> QED
    BY <1>1, <1>6, <1>8, <1>10, <2>2 DEF Facts, BusyOK
<1> QED
  BY <1>8, <1>9, <1>11, <1>12, <1>13

\* release_utc_state() closes a session of the TA.
LEMMA ReleaseSessionStep ==
    ASSUME Inv, NEW t \in Threads, ReleaseSession(t)
    PROVE  Inv'
<1>1. Here(t) /\ Top(t).pc \in {"release", "destroy"}
  <2>1. CASE At(t, "release")
    BY <2>1, HereIs, ResumeIs
  <2>2. CASE At(t, "destroy")
    BY <2>2, HereIs, ResumeIs
  <2> QED
    BY <2>1, <2>2 DEF ReleaseSession
<1>2. Facts /\ TypeOK /\ stack \in Stacks /\ (\A u \in {} : Asleep(u))
  BY InvFacts DEF Facts
<1>3. /\ stack[t] # <<>> /\ Call[Place(t)] = Top(t) /\ Top(t).c \in Ctxs /\ None \notin Ctxs
      /\ Place(t) \in Frames
  BY <1>1, <1>2 DEF Here, CtxNamed, Facts
<1>4. PICK s \in Owned(Top(t).c) :
         /\ Move(t, Append(stack[t], Frame("close", "get", s, Top(t).c, None)), {})
         /\ sess' = [sess EXCEPT ![s].open = FALSE]
  BY DEF ReleaseSession
<1>5. s \in Sessions /\ sess[s].live /\ sess[s].owner = Top(t).c
  BY <1>4 DEF Owned
<1>6. \A y \in Frames : Call[y].s # s
  <2> SUFFICES ASSUME NEW y \in Frames, Call[y].s = s
               PROVE  FALSE
    OBVIOUS
  <2>1. UseOK(y[1], Call[y], sess[s]) /\ s # None
    BY <1>2, <1>5 DEF Facts, SessOK, UsesOK
  <2>2. Call[y].owner = Top(t).c
    BY <1>5, <2>1 DEF UseOK
  <2> QED
    BY <1>1, <1>2, <1>3, <2>2, OwnerAlone
<1>7. HandleOK(s)
  BY <1>2, <1>5 DEF Facts, SessOK, OpenOK
<1>8. sess[s].ctx # None
  BY <1>5, <1>6, <1>7 DEF HandleOK
<1>9. PICK g : g = Frame("close", "get", s, Top(t).c, None)
  OBVIOUS
<1>10. /\ g \in CallType /\ g.op = "close" /\ g.pc = "get" /\ g.s = s /\ g.c = None /\ g.owner = Top(t).c
       /\ ~g.busy
  BY <1>3, <1>5, <1>9, FrameIs DEF Labels
<1>11. Norm(g) = g
  BY <1>10, NormIs, ResumeIs
<1>12. stack' \in Stacks /\ Pushed(<<t, Len(stack[t]) + 1>>, g)
  BY <1>2, <1>4, <1>9, <1>10, <1>11, CallPushes
<1>13. CallOK(g) /\ ~Uses(g)
  BY <1>2, <1>5, <1>10 DEF CallOK, InTa, Uses, Facts
<1>14. PICK r : r = [sess[s] EXCEPT !.open = FALSE]
  OBVIOUS
<1>15. /\ SessLike(r, sess[s]) /\ r.ref = sess[s].ref /\ r.lock = sess[s].lock
       /\ ~r.open
  BY <1>2, <1>5, <1>14, SessTyped DEF SessLike, SessType
<1>16. sess' = [sess EXCEPT ![s] = r]
  BY <1>4, <1>14
<1>17. /\ sess' \in [Sessions -> SessType] /\ sess'[s] = r
       /\ \A q \in Sessions \ {s} : sess'[q] = sess[q]
  BY <1>2, <1>5, <1>15, <1>16, SessSet DEF SessLike
<1>18. SessKept(s) /\ Local(s, <<t, Len(stack[t]) + 1>>)
  BY <1>5, <1>10, <1>12, <1>15, <1>17, LocalPush DEF SessKept, SessLike
<1>19. PICK x : x = <<t, Len(stack[t]) + 1>>
  OBVIOUS
<1>20. SessOK'
  BY <1>2, <1>5, <1>6, <1>8, <1>10, <1>12, <1>13, <1>15, <1>17, <1>18, <1>19, SessCalled DEF Facts
<1>21. UNCHANGED <<ctx, tee_ctxes, siThread, siCount, dead>>
  BY DEF ReleaseSession
<1>22. SessQuiet
  <2>1. \A q \in Sessions : (sess'[q].live <=> sess[q].live) /\ sess'[q].ctx = sess[q].ctx
    BY <1>17, <1>18 DEF SessKept
  <2> QED
    BY <1>2, <1>17, <1>21, <2>1 DEF SessQuiet, TypeOK
<1>23. Calls(Call[Place(t)], g)
  BY <1>1, <1>3, <1>10 DEF Calls
<1> QED
  BY <1>3, <1>10, <1>12, <1>13, <1>20, <1>22, <1>23, SessCall

\* The context of a session is live, and it is not being loaded by a call that
\* does not name the session.
LEMMA SessionContext ==
    ASSUME Facts, NEW s \in Sessions, sess[s].live, sess[s].ctx # None
    PROVE  /\ sess[s].ctx \in Ctxs /\ ctx[sess[s].ctx].live
           /\ \A y \in Frames : Call[y].pc = "ldelf" /\ Call[y].c = sess[s].ctx => Call[y].s = s
<1>1. sess[s].ctx \in Ctxs
  BY SessTyped DEF Facts
<1>2. s \in SessionsOf(sess[s].ctx)
  BY DEF SessionsOf
<1>3. ctx[sess[s].ctx].live
  BY <1>1, <1>2 DEF Facts, CtxOK, CtxRefs, RefOK
<1> QED
  BY <1>1, <1>3 DEF Facts, CtxOK, LoadOK

\* A call goes on with a session it has locked.
LEMMA GotSessionStep ==
    ASSUME Inv, NEW t \in Threads, GotSession(t)
    PROVE  Inv'
<1>1. Here(t) /\ Top(t).pc = "got" /\ Quiet /\ Facts
  BY HereIs, ResumeIs, InvFacts DEF GotSession, Quiet, Inv, TypeOK
<1>2. /\ Top(t) \in CallType /\ Call[Place(t)] = Top(t) /\ CallOK(Top(t)) /\ Place(t) \in Frames
  BY <1>1 DEF Here
<1>3. PICK s : s = Top(t).s
  OBVIOUS
<1>4. /\ Top(t).op \in {"invoke", "close"} /\ Top(t).c = None
      /\ ~Top(t).busy /\ Uses(Top(t)) /\ Locks(Top(t)) /\ ~Closing(Top(t))
  BY <1>1, <1>2 DEF CallOK, CallType, InTa, Uses, Closing, Locks
<1>5. /\ s \in Sessions /\ sess[s].live /\ sess[s].ctx # None /\ s # None
  BY <1>1, <1>2, <1>3, <1>4, UsedSession DEF UseOK, Facts
<1>6. PICK c : c = sess[s].ctx
  OBVIOUS
<1>7. /\ c \in Ctxs /\ ctx[c].live
      /\ \A y \in Frames : Call[y].pc = "ldelf" /\ Call[y].c = c => Call[y].s = s
  BY <1>1, <1>5, <1>6, SessionContext
<1>8. PICK pc : pc = IF Top(t).op = "close" /\ ctx[c].panicked THEN "unlink" ELSE "set_busy"
  OBVIOUS
<1>9. PICK f : f = [Top(t) EXCEPT !.c = c, !.pc = pc]
  OBVIOUS
<1>10. Move(t, With(t, f), {}) /\ \A u \in {} : Asleep(u)
  BY <1>3, <1>6, <1>8, <1>9 DEF GotSession
<1>11. pc \in {"unlink", "set_busy"} /\ (pc = "unlink" => Top(t).op = "close") /\ pc \notin DOMAIN Resume
  BY <1>8, ResumeIs
<1>12. /\ f \in CallType /\ f.pc = pc /\ f.c = c /\ f.s = s /\ f.op = Top(t).op /\ f.uuid = Top(t).uuid
       /\ f.owner = Top(t).owner /\ ~f.busy
  BY ZenonT(60), <1>2, <1>3, <1>4, <1>7, <1>9, <1>11 DEF CallType, Labels
<1>13. Norm(f) = f
  BY <1>11, <1>12, NormIs
<1>14. CallOK(f)
  BY <1>1, <1>4, <1>5, <1>7, <1>11, <1>12 DEF CallOK, InTa, Facts
<1>15. Uses(f) /\ Locks(f) /\ ~Closing(f)
  BY <1>4, <1>11, <1>12 DEF Uses, Locks, Closing
<1>16. SameUse(Top(t), f)
  BY <1>3, <1>4, <1>5, <1>6, <1>12, <1>15 DEF SameUse
<1>17. FitsCtx(Place(t), f)
  <2>1. ASSUME NEW y \in Frames \ {Place(t)}, Call[y].pc = "ldelf", Call[y].c = c
        PROVE  FALSE
    <3>1. Call[y].s = s
      BY <1>7, <2>1
    <3>2. Call[y].op = "open"
      <4>1. CallOK(Call[y]) /\ Call[y] \in CallType
        BY <1>1 DEF Facts, StackOK, CallTypes
      <4> QED
        BY <2>1, <4>1 DEF CallOK, CallType, InTa
    <3>3. Compatible(Call[y], Call[Place(t)])
      BY <1>1, <1>2 DEF Facts, SessOK, AloneOK
    <3> QED
      BY <1>2, <1>3, <1>5, <3>1, <3>2, <3>3 DEF Compatible
  <2> QED
    BY <1>7, <1>11, <1>12, <2>1 DEF FitsCtx
<1> QED
  BY <1>1, <1>4, <1>10, <1>12, <1>13, <1>14, <1>15, <1>16, <1>17, QuietChange

-----------------------------------------------------------------------------
(* Entering and leaving a TA *)

\* What the context and the sessions need of set_busy and clear_busy.
BusyOnly ==
    /\ UNCHANGED <<sess, tee_ctxes, dead>>
    /\ ctx' \in [Ctxs -> CtxType] /\ siThread' \in Threads \cup {None} /\ siCount' \in Nat
    /\ \A c \in Ctxs :
          /\ ctx'[c].uuid = ctx[c].uuid /\ ctx'[c].ref = ctx[c].ref
          /\ ctx'[c].live <=> ctx[c].live
          /\ ctx'[c].panicked <=> ctx[c].panicked
          /\ ctx'[c].releasing <=> ctx[c].releasing
          /\ ctx'[c].initializing <=> ctx[c].initializing
          /\ ctx'[c].vm <=> ctx[c].vm

\* A step that moves a call and changes ctx->busy and the lock only.
LEMMA BusyChange ==
    ASSUME Inv, NEW t, Here(t), BusyOnly, stack' \in Stacks, NEW g, Changed(Place(t), g), BusyOK', SiOK',
           CallOK(g), SameUse(Top(t), g), g.c = Top(t).c, g.pc \notin {"ldelf", "destroy", "release", "body"},
           Closing(g) <=> Closing(Top(t))
    PROVE  Inv'
<1>1. Facts /\ t \in Threads /\ stack[t] # <<>> /\ Call[Place(t)] = Top(t)
  BY InvFacts DEF Here
<1>2. TypeOK'
  BY <1>1 DEF Facts, TypeOK, BusyOnly, Stacks
<1>3. CtxSame /\ UuidsKept(Place(t)) /\ sess' = sess
  BY <1>1 DEF CtxSame, UuidsKept, BusyOnly, Facts, CtxNamed
<1>4. StackOK'
  BY <1>1, <1>3, StackChanged DEF Facts, SameUse
<1>5. SessOK'
  BY <1>1, <1>3, SessChanged DEF Facts
<1>6. FitsCtx(Place(t), g)
  BY FitsSame
<1>7. CtxOK'
  BY <1>1, <1>3, <1>6, CtxChanged DEF Facts
<1> QED
  BY <1>2, <1>4, <1>5, <1>7 DEF Inv

\* The call after tee_ta_try_set_busy().
LEMMA EnteredIs ==
    ASSUME NEW t, Here(t), Top(t).pc = "set_busy", NEW W, \A u \in W : Asleep(u), Move(t, Entered(t), W)
    PROVE  /\ stack' \in Stacks /\ Top(t).c \in Ctxs /\ ~Top(t).busy
           /\ \E g \in CallType :
                 /\ Changed(Place(t), g) /\ CallOK(g) /\ SameUse(Top(t), g)
                 /\ g.pc = "enter" /\ g.c = Top(t).c /\ g.busy
                 /\ Closing(g) <=> Closing(Top(t))
<1>1. PICK g : g = [Top(t) EXCEPT !.pc = "enter", !.busy = TRUE]
  OBVIOUS
<1>2. /\ Top(t) \in CallType /\ Call[Place(t)] = Top(t) /\ CallOK(Top(t)) /\ Place(t) \in Frames
      /\ stack[t] # <<>> /\ stack \in Stacks /\ t \in Threads
  BY DEF Here
<1>3. /\ g \in CallType /\ g.pc = "enter" /\ g.op = Top(t).op /\ g.s = Top(t).s /\ g.c = Top(t).c
      /\ g.owner = Top(t).owner /\ g.uuid = Top(t).uuid /\ g.busy
  BY <1>1, <1>2 DEF CallType, Labels
<1>4. Norm(g) = g
  BY <1>3, NormIs, ResumeIs
<1>5. stack' \in Stacks /\ Changed(Place(t), g)
  BY <1>1, <1>2, <1>3, <1>4, WithChanges DEF Entered
<1>6. Top(t).c \in Ctxs /\ ~Top(t).busy /\ Top(t).op # "cancel"
  BY <1>2 DEF CallOK, CallType, InTa
<1>7. CallOK(g)
  BY <1>2, <1>3, <1>6 DEF CallOK, CallType, InTa
<1>8. SameUse(Top(t), g) /\ (Closing(g) <=> Closing(Top(t)))
  BY <1>3 DEF SameUse, Uses, Locks, Closing
<1> QED
  BY <1>3, <1>5, <1>6, <1>7, <1>8

\* tee_ta_try_set_busy() of a concurrent TA.
LEMMA SetBusyConcurrentStep ==
    ASSUME Inv, NEW t \in Threads, SetBusyConcurrent(t)
    PROVE  Inv'
<1>1. Here(t) /\ Top(t).pc = "set_busy" /\ Facts /\ (\A u \in {} : Asleep(u)) /\ Move(t, Entered(t), {})
  BY HereIs, ResumeIs, InvFacts DEF SetBusyConcurrent
<1>2. stack' \in Stacks /\ Top(t).c \in Ctxs /\ ~Top(t).busy
  BY <1>1, EnteredIs
<1>3. PICK g \in CallType :
         /\ Changed(Place(t), g) /\ CallOK(g) /\ SameUse(Top(t), g)
         /\ g.pc = "enter" /\ g.c = Top(t).c /\ g.busy
         /\ Closing(g) <=> Closing(Top(t))
  BY <1>1, EnteredIs
<1>4. UNCHANGED <<sess, ctx, tee_ctxes, siThread, siCount, dead>> /\ Has(Top(t).c, "CONCURRENT")
  BY DEF SetBusyConcurrent
<1>5. /\ Place(t) \in Frames /\ Frames' = Frames /\ Call'[Place(t)] = g
      /\ \A y \in Frames \ {Place(t)} : Call'[y] = Call[y]
  BY <1>3 DEF Changed
<1>6. PICK x : x = Place(t)
  OBVIOUS
<1>7. BusyOK'
  <2>1. ASSUME NEW y \in Frames, NEW z \in Frames, Call'[y].busy, Call'[z].busy,
               Call'[y].c = Call'[z].c, ~Has(Call[y].c, "CONCURRENT")'
        PROVE  y = z
    BY <1>1, <1>3, <1>4, <1>5, <1>6, <2>1 DEF BusyOK, Has, Facts
  <2>2. ASSUME NEW c \in Ctxs, ctx'[c].live, ~Has(c, "CONCURRENT")'
        PROVE  ctx'[c].busy <=> \E y \in Frames : Call'[y].busy /\ Call'[y].c = c
    <3>1. c # Top(t).c /\ ~Has(c, "CONCURRENT") /\ ctx[c].live
      BY <1>4, <2>2 DEF Has
    <3>2. ctx[c].busy <=> \E y \in Frames : Call[y].busy /\ Call[y].c = c
      BY <1>1, <3>1 DEF Facts, BusyOK
    <3>3. Call[x].c # c /\ Call'[x].c # c
      BY <1>1, <1>3, <1>5, <1>6, <3>1 DEF Here
    <3> QED
      BY <1>4, <1>5, <1>6, <3>2, <3>3
  <2> QED
    BY <1>5, <2>1, <2>2 DEF BusyOK, Has
<1>8. SiCalls' = SiCalls
  <2>1. ~SiCall(Call[x]) /\ ~SiCall(Call'[x])
    BY <1>1, <1>2, <1>3, <1>4, <1>5, <1>6 DEF SiCall, Here
  <2>2. \A y \in Frames : SiCall(Call[y])' <=> SiCall(Call'[y])
    BY <1>4 DEF SiCall, NeedsSiLock, Has
  <2> QED
    BY <1>5, <1>6, <2>1, <2>2 DEF SiCalls
<1>9. SiOK'
  BY <1>1, <1>4, <1>8 DEF SiOK, Facts
<1>10. BusyOnly
  BY <1>1, <1>4 DEF BusyOnly, Facts, TypeOK
<1> QED
  BY <1>1, <1>2, <1>3, <1>7, <1>9, <1>10, BusyChange

\* The context with ctx->busy set or cleared.
CtxBusy(q, b) == [q EXCEPT !.busy = b]

\* The fields of such a context.
LEMMA CtxBusyIs ==
    ASSUME NEW q \in CtxType, NEW b \in BOOLEAN
    PROVE  LET r == CtxBusy(q, b) IN
           /\ r \in CtxType /\ r.uuid = q.uuid /\ r.ref = q.ref
           /\ r.busy <=> b
           /\ r.live <=> q.live
           /\ r.panicked <=> q.panicked
           /\ r.releasing <=> q.releasing
           /\ r.initializing <=> q.initializing
           /\ r.vm <=> q.vm
BY DEF CtxBusy, CtxType

\* The contexts after ctx->busy of one of them changed.
LEMMA BusyOnlyIs ==
    ASSUME TypeOK, NEW c \in Ctxs, NEW b \in BOOLEAN, ctx' = [ctx EXCEPT ![c] = CtxBusy(ctx[c], b)],
           UNCHANGED <<sess, tee_ctxes, dead>>, siThread' \in Threads \cup {None}, siCount' \in Nat
    PROVE  /\ BusyOnly
           /\ ctx'[c].busy <=> b
           /\ \A d \in Ctxs \ {c} : ctx'[d] = ctx[d]
<1>1. PICK r : r = CtxBusy(ctx[c], b)
  OBVIOUS
<1>2. ctx \in [Ctxs -> CtxType] /\ ctx[c] \in CtxType
  BY DEF TypeOK
<1>3. /\ r \in CtxType /\ r.uuid = ctx[c].uuid /\ r.ref = ctx[c].ref
      /\ r.busy <=> b
      /\ r.live <=> ctx[c].live
      /\ r.panicked <=> ctx[c].panicked
      /\ r.releasing <=> ctx[c].releasing
      /\ r.initializing <=> ctx[c].initializing
      /\ r.vm <=> ctx[c].vm
  BY <1>1, <1>2, CtxBusyIs
<1>4. ctx' = [ctx EXCEPT ![c] = r]
  BY <1>1
<1>5. ctx' \in [Ctxs -> CtxType] /\ ctx'[c] = r /\ \A d \in Ctxs \ {c} : ctx'[d] = ctx[d]
  BY <1>2, <1>3, <1>4
<1> QED
  BY <1>3, <1>5 DEF BusyOnly

\* tee_ta_try_set_busy() succeeds.
LEMMA SetBusyStep ==
    ASSUME Inv, NEW t \in Threads, SetBusy(t)
    PROVE  Inv'
<1>1. Here(t) /\ Top(t).pc = "set_busy" /\ Facts /\ (\A u \in {} : Asleep(u)) /\ Move(t, Entered(t), {})
  BY HereIs, ResumeIs, InvFacts DEF SetBusy
<1>2. stack' \in Stacks /\ Top(t).c \in Ctxs /\ ~Top(t).busy
  BY <1>1, EnteredIs
<1>3. PICK g \in CallType :
         /\ Changed(Place(t), g) /\ CallOK(g) /\ SameUse(Top(t), g)
         /\ g.pc = "enter" /\ g.c = Top(t).c /\ g.busy
         /\ Closing(g) <=> Closing(Top(t))
  BY <1>1, EnteredIs
<1>4. PICK c \in Ctxs : c = Top(t).c
  BY <1>2
<1>5. /\ ~Has(c, "CONCURRENT") /\ SiLockFree(t, c) /\ ~ctx[c].busy
      /\ siThread' = IF NeedsSiLock(c) THEN t ELSE siThread
      /\ siCount' = IF NeedsSiLock(c) THEN siCount + 1 ELSE siCount
      /\ ctx' = [ctx EXCEPT ![c] = CtxBusy(ctx[c], TRUE)]
      /\ UNCHANGED <<sess, tee_ctxes, dead>>
  BY <1>4 DEF SetBusy, CtxBusy
<1>6. PICK x : x = Place(t)
  OBVIOUS
<1>7. /\ x \in Frames /\ Frames' = Frames /\ Call'[x] = g /\ x[1] = t /\ Call[x] = Top(t)
      /\ \A y \in Frames \ {x} : Call'[y] = Call[y]
  BY <1>1, <1>3, <1>6 DEF Changed, Here
<1>8. /\ TypeOK /\ BusyOK /\ SiOK /\ IsFiniteSet(Frames) /\ None \notin Threads /\ BusyNamed
      /\ siThread \in Threads \cup {None} /\ siCount \in Nat
  BY <1>1 DEF Facts, TypeOK
<1>9. /\ BusyOnly
      /\ ctx'[c].busy
      /\ \A d \in Ctxs \ {c} : ctx'[d] = ctx[d]
  <2>1. siThread' \in Threads \cup {None} /\ siCount' \in Nat
    BY <1>5, <1>8
  <2> QED
    BY <1>5, <1>8, <2>1, BusyOnlyIs
<1>10. ctx[c].live
  BY <1>1, <1>4, <1>7 DEF Facts, CtxOK, CtxCalls, CtxCall
<1>11. \A y \in Frames : Call[y].busy => Call[y].c # c
  BY <1>5, <1>8, <1>10 DEF BusyOK
<1>12. \A d \in Ctxs : ctx'[d].uuid = ctx[d].uuid /\ (ctx'[d].live <=> ctx[d].live)
  BY <1>9 DEF BusyOnly
<1>13. BusyOK'
  <2>1. ASSUME NEW y \in Frames, NEW z \in Frames, Call'[y].busy, Call'[z].busy,
               Call'[y].c = Call'[z].c, ~Has(Call[y].c, "CONCURRENT")'
        PROVE  y = z
    <3>1. CASE y # x /\ z # x
      <4>1. Call[y].busy /\ Call[z].busy /\ Call[y].c = Call[z].c /\ Call[y].c \in Ctxs
        BY <1>7, <1>8, <2>1, <3>1 DEF BusyNamed
      <4>2. ~Has(Call[y].c, "CONCURRENT")
        BY <1>7, <1>12, <2>1, <3>1, <4>1 DEF Has
      <4> QED
        BY <1>8, <4>1, <4>2 DEF BusyOK
    <3>2. CASE y = x \/ z = x
      BY <1>3, <1>4, <1>7, <1>11, <2>1, <3>2
    <3> QED
      BY <3>1, <3>2
  <2>2. ASSUME NEW d \in Ctxs, ctx'[d].live, ~Has(d, "CONCURRENT")'
        PROVE  ctx'[d].busy <=> \E y \in Frames : Call'[y].busy /\ Call'[y].c = d
    <3>1. CASE d = c
      BY <1>3, <1>4, <1>7, <1>9, <3>1
    <3>2. CASE d # c
      <4>1. ~Has(d, "CONCURRENT") /\ ctx[d].live /\ ctx'[d] = ctx[d]
        BY <1>9, <1>12, <2>2, <3>2 DEF Has
      <4>2. ctx[d].busy <=> \E y \in Frames : Call[y].busy /\ Call[y].c = d
        BY <1>8, <4>1 DEF BusyOK
      <4>3. Call[x].c # d /\ Call'[x].c # d
        BY <1>3, <1>4, <1>7, <3>2
      <4> QED
        BY <1>7, <4>1, <4>2, <4>3
    <3> QED
      BY <3>1, <3>2
  <2> QED
    BY <1>7, <2>1, <2>2 DEF BusyOK, Has
<1>14. SiOK'
  <2>1. \A y \in Frames \ {x} : SiCall(Call[y])' <=> SiCall(Call[y])
    BY <1>7, <1>8, <1>12 DEF SiCall, NeedsSiLock, Has, BusyNamed
  <2>2. ~SiCall(Call[x])
    BY <1>2, <1>7 DEF SiCall
  <2>3. SiCall(Call[x])' <=> NeedsSiLock(c)
    BY <1>3, <1>4, <1>5, <1>7, <1>12 DEF SiCall, NeedsSiLock, Has
  <2>4. /\ siCount = Cardinality(SiCalls) /\ (\A y \in SiCalls : y[1] = siThread)
        /\ siCount = 0 <=> siThread = None
        /\ IsFiniteSet(SiCalls)
    BY <1>8, FS_Subset DEF SiOK, SiCalls
  <2>5. CASE ~NeedsSiLock(c)
    <3>1. SiCalls' = SiCalls
      BY <1>7, <2>1, <2>2, <2>3, <2>5 DEF SiCalls
    <3> QED
      BY <1>5, <2>4, <2>5, <3>1 DEF SiOK
  <2>6. CASE NeedsSiLock(c)
    <3>1. SiCalls' = SiCalls \cup {x} /\ x \notin SiCalls
      BY <1>7, <2>1, <2>2, <2>3, <2>6 DEF SiCalls
    <3>2. Cardinality(SiCalls') = Cardinality(SiCalls) + 1
      BY <2>4, <3>1, FS_AddElement
    <3>3. siThread \in {None, t} /\ siThread' = t /\ siCount' = siCount + 1
      BY <1>5, <2>6 DEF SiLockFree
    <3>4. \A y \in SiCalls : y[1] = t
      <4>1. siThread = None => SiCalls = {}
        BY <2>4, FS_EmptySet
      <4> QED
        BY <2>4, <3>3, <4>1
    <3>5. \A y \in SiCalls' : y[1] = siThread'
      BY <1>7, <3>1, <3>3, <3>4
    <3>6. siCount' = Cardinality(SiCalls')
      BY <2>4, <3>2, <3>3
    <3>7. siCount' # 0 /\ siThread' # None
      BY <1>8, <3>3
    <3> QED
      BY <3>5, <3>6, <3>7 DEF SiOK
  <2> QED
    BY <2>5, <2>6
<1> QED
  BY <1>1, <1>2, <1>3, <1>9, <1>13, <1>14, BusyChange

\* The call after tee_ta_clear_busy().
LEMMA ClearedIs ==
    ASSUME NEW t, Here(t), Top(t).pc = "clear", NEW W, \A u \in W : Asleep(u), Move(t, Cleared(t), W)
    PROVE  /\ stack' \in Stacks /\ Top(t).c \in Ctxs /\ Top(t).busy
           /\ \E g \in CallType :
                 /\ Changed(Place(t), g) /\ CallOK(g) /\ SameUse(Top(t), g)
                 /\ g.pc \in {"put", "drop"} /\ g.c = Top(t).c /\ ~g.busy
                 /\ Closing(g) <=> Closing(Top(t))
<1>0. PICK pc \in Labels : pc = IF Top(t).op = "close" THEN "drop" ELSE "put"
  BY DEF Labels
<1>1. PICK g : g = [Top(t) EXCEPT !.busy = FALSE, !.pc = pc]
  OBVIOUS
<1>2. /\ Top(t) \in CallType /\ Call[Place(t)] = Top(t) /\ CallOK(Top(t)) /\ Place(t) \in Frames
      /\ stack[t] # <<>> /\ stack \in Stacks /\ t \in Threads
  BY DEF Here
<1>3. /\ g \in CallType /\ g.pc = pc /\ g.op = Top(t).op /\ g.s = Top(t).s /\ g.c = Top(t).c
      /\ g.owner = Top(t).owner /\ g.uuid = Top(t).uuid /\ ~g.busy
  BY <1>0, <1>1, <1>2 DEF CallType
<1>4. Norm(g) = g
  BY <1>0, <1>3, NormIs, ResumeIs
<1>5. stack' \in Stacks /\ Changed(Place(t), g)
  BY <1>0, <1>1, <1>2, <1>3, <1>4, WithChanges DEF Cleared
<1>6. Top(t).c \in Ctxs /\ Top(t).busy /\ Top(t).op \in {"open", "invoke", "close"}
  BY <1>2 DEF CallOK, CallType, InTa
<1>7. CallOK(g)
  BY <1>0, <1>2, <1>3, <1>6 DEF CallOK, CallType, InTa
<1>8. SameUse(Top(t), g) /\ (Closing(g) <=> Closing(Top(t)))
  BY <1>0, <1>3 DEF SameUse, Uses, Locks, Closing
<1> QED
  BY <1>0, <1>3, <1>5, <1>6, <1>7, <1>8

\* tee_ta_clear_busy().
LEMMA ClearBusyStep ==
    ASSUME Inv, NEW t \in Threads, ClearBusy(t)
    PROVE  Inv'
<1>1. Here(t) /\ Top(t).pc = "clear" /\ Facts
  BY HereIs, ResumeIs, InvFacts DEF ClearBusy
<1>2. PICK W : Move(t, Cleared(t), W) /\ \A u \in W : Asleep(u)
  <2>1. CASE Has(Top(t).c, "CONCURRENT")
    BY <2>1 DEF ClearBusy
  <2>2. CASE ~Has(Top(t).c, "CONCURRENT")
    <3>1. PICK W1 \in OneOf(WaitingFor("wait_busy", Top(t).c)),
               W2 \in OneOf(Waiting("wait_si")) \cup {{}} : Move(t, Cleared(t), W1 \cup W2)
      BY <2>2 DEF ClearBusy
    <3>2. \A u \in W1 : Asleep(u)
      BY WakesSleepers, ResumeIs
    <3>3. \A u \in W2 : Asleep(u)
      BY WakesSleepers, ResumeIs
    <3>4. \A u \in W1 \cup W2 : Asleep(u)
      BY <3>2, <3>3
    <3> QED
      BY <3>1, <3>4
  <2> QED
    BY <2>1, <2>2
<1>3. stack' \in Stacks /\ Top(t).c \in Ctxs /\ Top(t).busy
  BY <1>1, <1>2, ClearedIs
<1>4. PICK g \in CallType :
         /\ Changed(Place(t), g) /\ CallOK(g) /\ SameUse(Top(t), g)
         /\ g.pc \in {"put", "drop"} /\ g.c = Top(t).c /\ ~g.busy
         /\ Closing(g) <=> Closing(Top(t))
  BY <1>1, <1>2, ClearedIs
<1>5. PICK c \in Ctxs : c = Top(t).c
  BY <1>3
<1>6. PICK x : x = Place(t)
  OBVIOUS
<1>7. /\ x \in Frames /\ Frames' = Frames /\ Call'[x] = g /\ x[1] = t /\ Call[x] = Top(t)
      /\ \A y \in Frames \ {x} : Call'[y] = Call[y]
  BY <1>1, <1>4, <1>6 DEF Changed, Here
<1>8. /\ TypeOK /\ BusyOK /\ SiOK /\ IsFiniteSet(Frames) /\ None \notin Threads /\ BusyNamed
      /\ siThread \in Threads \cup {None} /\ siCount \in Nat
  BY <1>1 DEF Facts, TypeOK
<1>9. /\ siCount = Cardinality(SiCalls) /\ (\A y \in SiCalls : y[1] = siThread)
      /\ siCount = 0 <=> siThread = None
      /\ IsFiniteSet(SiCalls)
  BY <1>8, FS_Subset DEF SiOK, SiCalls
<1>10. ctx[c].live
  BY <1>1, <1>5, <1>7 DEF Facts, CtxOK, CtxCalls, CtxCall
<1>11. SiCall(Call[x]) <=> NeedsSiLock(c) /\ ~Has(c, "CONCURRENT")
  BY <1>3, <1>5, <1>7 DEF SiCall
<1>12. PICK si \in BOOLEAN : si <=> NeedsSiLock(c) /\ ~Has(c, "CONCURRENT")
  OBVIOUS
<1>13. si => siCount # 0
  BY <1>7, <1>9, <1>11, <1>12, FS_EmptySet DEF SiCalls
<1>14. /\ UNCHANGED <<sess, tee_ctxes, dead>>
       /\ siCount' = IF si THEN siCount - 1 ELSE siCount
       /\ siThread' = IF si /\ siCount' = 0 THEN None ELSE siThread
  BY <1>5, <1>12 DEF ClearBusy
<1>15. siThread' \in Threads \cup {None} /\ siCount' \in Nat
  BY <1>8, <1>13, <1>14
<1>16. /\ BusyOnly
       /\ ~Has(c, "CONCURRENT") => ~ctx'[c].busy
       /\ \A d \in Ctxs \ {c} : ctx'[d] = ctx[d]
  <2>1. CASE Has(c, "CONCURRENT")
    <3>1. ctx' = ctx
      BY <1>5, <2>1 DEF ClearBusy
    <3> QED
      BY <1>8, <1>14, <1>15, <2>1, <3>1 DEF BusyOnly, TypeOK
  <2>2. CASE ~Has(c, "CONCURRENT")
    <3>1. ctx' = [ctx EXCEPT ![c] = CtxBusy(ctx[c], FALSE)]
      BY <1>5, <2>2 DEF ClearBusy, CtxBusy
    <3> QED
      BY <1>8, <1>14, <1>15, <3>1, BusyOnlyIs
  <2> QED
    BY <2>1, <2>2
<1>17. \A d \in Ctxs : ctx'[d].uuid = ctx[d].uuid /\ (ctx'[d].live <=> ctx[d].live)
  BY <1>16 DEF BusyOnly
<1>18. BusyOK'
  <2>1. ASSUME NEW y \in Frames, NEW z \in Frames, Call'[y].busy, Call'[z].busy,
               Call'[y].c = Call'[z].c, ~Has(Call[y].c, "CONCURRENT")'
        PROVE  y = z
    <3>1. y # x /\ z # x
      BY <1>4, <1>7, <2>1
    <3>2. Call[y].busy /\ Call[z].busy /\ Call[y].c = Call[z].c /\ Call[y].c \in Ctxs
      BY <1>7, <1>8, <2>1, <3>1 DEF BusyNamed
    <3>3. ~Has(Call[y].c, "CONCURRENT")
      BY <1>7, <1>17, <2>1, <3>1, <3>2 DEF Has
    <3> QED
      BY <1>8, <3>2, <3>3 DEF BusyOK
  <2>2. ASSUME NEW d \in Ctxs, ctx'[d].live, ~Has(d, "CONCURRENT")'
        PROVE  ctx'[d].busy <=> \E y \in Frames : Call'[y].busy /\ Call'[y].c = d
    <3>0. ~Has(d, "CONCURRENT") /\ ctx[d].live
      BY <1>17, <2>2 DEF Has
    <3>1. CASE d = c
      <4>1. ASSUME NEW y \in Frames, Call'[y].busy, Call'[y].c = c
            PROVE  FALSE
        <5>1. y # x
          BY <1>4, <1>7, <4>1
        <5>2. Call[y].busy /\ Call[y].c = c /\ Call[x].busy /\ Call[x].c = c
          BY <1>3, <1>5, <1>7, <4>1, <5>1
        <5> QED
          BY <1>7, <1>8, <3>0, <3>1, <5>1, <5>2 DEF BusyOK
      <4> QED
        BY <1>16, <3>0, <3>1, <4>1
    <3>2. CASE d # c
      <4>1. ctx'[d] = ctx[d]
        BY <1>16, <3>2
      <4>2. ctx[d].busy <=> \E y \in Frames : Call[y].busy /\ Call[y].c = d
        BY <1>8, <3>0 DEF BusyOK
      <4>3. Call[x].c # d /\ Call'[x].c # d
        BY <1>4, <1>5, <1>7, <3>2
      <4> QED
        BY <1>7, <4>1, <4>2, <4>3
    <3> QED
      BY <3>1, <3>2
  <2> QED
    BY <1>7, <2>1, <2>2 DEF BusyOK, Has
<1>19. SiOK'
  <2>1. \A y \in Frames \ {x} : SiCall(Call[y])' <=> SiCall(Call[y])
    BY <1>7, <1>8, <1>17 DEF SiCall, NeedsSiLock, Has, BusyNamed
  <2>2. ~SiCall(Call[x])'
    BY <1>4, <1>7 DEF SiCall
  <2>3. CASE ~si
    <3>1. SiCalls' = SiCalls
      BY <1>7, <1>11, <1>12, <2>1, <2>2, <2>3 DEF SiCalls
    <3> QED
      BY <1>9, <1>14, <2>3, <3>1 DEF SiOK
  <2>4. CASE si
    <3>1. SiCalls' = SiCalls \ {x} /\ x \in SiCalls
      BY <1>7, <1>11, <1>12, <2>1, <2>2, <2>4 DEF SiCalls
    <3>2. Cardinality(SiCalls') = Cardinality(SiCalls) - 1 /\ IsFiniteSet(SiCalls')
      BY <1>9, <3>1, FS_RemoveElement
    <3>3. siCount' = Cardinality(SiCalls')
      BY <1>9, <1>14, <2>4, <3>2
    <3>4. CASE siCount' = 0
      <4>1. SiCalls' = {} /\ siThread' = None
        BY <1>14, <2>4, <3>2, <3>3, <3>4, FS_EmptySet
      <4> QED
        BY <3>3, <3>4, <4>1 DEF SiOK
    <3>5. CASE siCount' # 0
      <4>1. siThread' = siThread /\ siCount # 0
        BY <1>13, <1>14, <2>4, <3>5
      <4> QED
        BY <1>9, <3>1, <3>3, <3>5, <4>1 DEF SiOK
    <3> QED
      BY <3>4, <3>5
  <2> QED
    BY <2>3, <2>4
<1> QED
  BY <1>1, <1>3, <1>4, <1>16, <1>18, <1>19, BusyChange

-----------------------------------------------------------------------------
(* Steps that change one context *)

\* TAILQ_REMOVE() of c leaves the others, once each.
LEMMA UnlistedIs ==
    ASSUME tee_ctxes \in Seq(Ctxs), ListOK, NEW c, NEW U, U = Unlisted(c)
    PROVE  /\ U \in Seq(Ctxs)
           /\ \A i \in DOMAIN U : U[i] # c /\ \E j \in DOMAIN tee_ctxes : tee_ctxes[j] = U[i]
           /\ \A i, j \in DOMAIN U : U[i] = U[j] => i = j
<1>1. PICK n \in Nat : n = Len(tee_ctxes)
  OBVIOUS
<1>2. DOMAIN tee_ctxes = 1 .. n /\ \A i \in 1 .. n : tee_ctxes[i] \in Ctxs
  BY <1>1
<1>3. \A i, j \in 1 .. n : tee_ctxes[i] = tee_ctxes[j] => i = j
  BY <1>2 DEF ListOK
<1>4. CASE ~\E i \in DOMAIN tee_ctxes : tee_ctxes[i] = c
  BY <1>2, <1>3, <1>4 DEF Unlisted
<1>5. CASE \E i \in DOMAIN tee_ctxes : tee_ctxes[i] = c
  <2>1. PICK k \in 1 .. n : /\ tee_ctxes[k] = c
                            /\ U = SubSeq(tee_ctxes, 1, k - 1) \o SubSeq(tee_ctxes, k + 1, n)
    BY <1>1, <1>2, <1>5 DEF Unlisted
  <2>2. PICK A : A = SubSeq(tee_ctxes, 1, k - 1)
    OBVIOUS
  <2>3. PICK B : B = SubSeq(tee_ctxes, k + 1, n)
    OBVIOUS
  <2>4. A \in Seq(Ctxs) /\ Len(A) = k - 1 /\ \A i \in 1 .. k - 1 : A[i] = tee_ctxes[i]
    BY <1>1, <1>2, <2>2
  <2>5. B \in Seq(Ctxs) /\ Len(B) = n - k /\ \A i \in 1 .. n - k : B[i] = tee_ctxes[i + k]
    BY <1>1, <1>2, <2>3
  <2>6. U \in Seq(Ctxs) /\ Len(U) = n - 1
    BY <2>1, <2>2, <2>3, <2>4, <2>5
  <2>7. \A i \in 1 .. n - 1 : U[i] = IF i < k THEN tee_ctxes[i] ELSE tee_ctxes[i + 1]
    BY SMTT(30), <2>1, <2>2, <2>3, <2>4, <2>5
  <2>8. DOMAIN U = 1 .. n - 1
    BY <2>6
  <2>9. ASSUME NEW i \in 1 .. n - 1
        PROVE  U[i] # c /\ \E j \in 1 .. n : tee_ctxes[j] = U[i]
    <3>1. CASE i < k
      BY <1>3, <2>1, <2>7, <3>1
    <3>2. CASE ~(i < k)
      <4>1. U[i] = tee_ctxes[i + 1] /\ i + 1 \in 1 .. n /\ i + 1 # k
        BY <2>7, <3>2
      <4> QED
        BY <1>3, <2>1, <4>1
    <3> QED
      BY <3>1, <3>2
  <2>10. \A i, j \in 1 .. n - 1 : U[i] = U[j] => i = j
    BY <1>3, <2>7
  <2> QED
    BY <1>2, <2>6, <2>8, <2>9, <2>10
<1> QED
  BY <1>4, <1>5

\* Only context c and the call at x change, which knows no other context; the
\* list may lose contexts and get c.
Around(c, x) ==
    /\ c \in Ctxs /\ \A d \in Ctxs \ {c} : ctx'[d] = ctx[d]
    /\ \A d \in Ctxs \ {c} : SessionsOf(d)' = SessionsOf(d)
    /\ Frames \ {x} \subseteq Frames' /\ Frames' \subseteq Frames \cup {x}
    /\ \A y \in Frames \ {x} : Call'[y] = Call[y]
    /\ x \in Frames => Call[x].c \in {c, None}
    /\ x \in Frames' => Call'[x].c \in {c, None}
    /\ \A i \in DOMAIN tee_ctxes' :
          tee_ctxes'[i] = c \/ \E j \in DOMAIN tee_ctxes : tee_ctxes[j] = tee_ctxes'[i]

\* What such a step must show for context c alone.
LEMMA CtxLocal ==
    ASSUME CtxOK, CtxNamed, None \notin Ctxs, NEW c, NEW x, Around(c, x), ListOK', InfoOK(c)', RefOK(c)',
           \A y \in Frames \ {x} : Call[y].c = c => /\ CtxCall(Call[y], ctx'[c])
                                                    /\ Call[y].pc \notin {"ldelf", "destroy"},
           x \in Frames' => IF Call'[x].c = None
                            THEN Call'[x].pc \notin {"ldelf", "destroy", "release", "body"}
                            ELSE CtxCall(Call'[x], ctx'[c]),
           x \in Frames' /\ Call'[x].pc = "ldelf" =>
               /\ ctx'[c].initializing /\ ctx'[c].uuid = Call'[x].uuid
               /\ \A y \in Frames \ {x} : Call[y].c # c
               /\ \A s \in Sessions : sess'[s].live /\ sess'[s].ctx = c => s = Call'[x].s,
           x \in Frames' /\ Call'[x].pc = "destroy" =>
               /\ ctx'[c].ref = 0
               /\ \A i \in DOMAIN tee_ctxes' : tee_ctxes'[i] # c
    PROVE  CtxOK'
<1>1. /\ c \in Ctxs /\ \A d \in Ctxs \ {c} : ctx'[d] = ctx[d]
      /\ \A d \in Ctxs \ {c} : SessionsOf(d)' = SessionsOf(d)
      /\ Frames \ {x} \subseteq Frames' /\ Frames' \subseteq Frames \cup {x}
      /\ \A y \in Frames \ {x} : Call'[y] = Call[y]
      /\ x \in Frames => Call[x].c \in {c, None}
      /\ x \in Frames' => Call'[x].c \in {c, None}
      /\ \A i \in DOMAIN tee_ctxes' :
            tee_ctxes'[i] = c \/ \E j \in DOMAIN tee_ctxes : tee_ctxes[j] = tee_ctxes'[i]
  BY DEF Around
<1>2. \A y \in Frames :
         /\ Call[y].c \in Ctxs \cup {None}
         /\ Call[y].pc \in {"ldelf", "destroy", "release", "body"} => Call[y].c \in Ctxs
  BY DEF CtxNamed
<1>3. CtxCalls'
  <2>1. ASSUME NEW y \in Frames' \ {x}, Call'[y].c # None
        PROVE  CtxCall(Call'[y], ctx'[Call'[y].c])
    <3>1. y \in Frames \ {x} /\ Call'[y] = Call[y] /\ Call[y].c \in Ctxs /\ CtxCall(Call[y], ctx[Call[y].c])
      BY <1>1, <1>2, <2>1 DEF CtxOK, CtxCalls
    <3> QED
      BY <1>1, <3>1
  <2>2. x \in Frames' /\ Call'[x].c # None => CtxCall(Call'[x], ctx'[Call'[x].c])
    BY <1>1
  <2> QED
    BY <2>1, <2>2 DEF CtxCalls, CtxCall
<1>4. LoadOK'
  <2>1. ASSUME NEW y \in Frames' \ {x}, Call'[y].pc = "ldelf"
        PROVE  /\ ctx'[Call'[y].c].initializing /\ ctx'[Call'[y].c].uuid = Call'[y].uuid
               /\ \A z \in Frames' : Call'[z].c = Call'[y].c => z = y
               /\ \A s \in Sessions : sess'[s].live /\ sess'[s].ctx = Call'[y].c => s = Call'[y].s
    <3>1. /\ y \in Frames \ {x} /\ Call'[y] = Call[y] /\ Call[y].c \in Ctxs \ {c}
          /\ ctx'[Call[y].c] = ctx[Call[y].c] /\ SessionsOf(Call[y].c)' = SessionsOf(Call[y].c)
      BY <1>1, <1>2, <2>1
    <3>2. /\ ctx[Call[y].c].initializing /\ ctx[Call[y].c].uuid = Call[y].uuid
          /\ \A z \in Frames : Call[z].c = Call[y].c => z = y
          /\ \A s \in Sessions : sess[s].live /\ sess[s].ctx = Call[y].c => s = Call[y].s
      BY <2>1, <3>1 DEF CtxOK, LoadOK
    <3>3. \A z \in Frames' : Call'[z].c = Call'[y].c => z = y
      BY <1>1, <3>1, <3>2
    <3>4. ASSUME NEW s \in Sessions, sess'[s].live, sess'[s].ctx = Call[y].c
          PROVE  s = Call[y].s
      <4>1. s \in SessionsOf(Call[y].c)'
        BY <3>1, <3>4 DEF SessionsOf
      <4> QED
        BY <3>1, <3>2, <4>1 DEF SessionsOf
    <3> QED
      BY <3>1, <3>2, <3>3, <3>4
  <2>2. ASSUME x \in Frames', Call'[x].pc = "ldelf"
        PROVE  /\ ctx'[Call'[x].c].initializing /\ ctx'[Call'[x].c].uuid = Call'[x].uuid
               /\ \A z \in Frames' : Call'[z].c = Call'[x].c => z = x
               /\ \A s \in Sessions : sess'[s].live /\ sess'[s].ctx = Call'[x].c => s = Call'[x].s
    <3>1. Call'[x].c = c
      BY <1>1, <2>2
    <3> QED
      BY <1>1, <2>2, <3>1
  <2> QED
    BY <2>1, <2>2 DEF LoadOK
<1>5. DestroyOK'
  <2>1. ASSUME NEW y \in Frames' \ {x}, Call'[y].pc = "destroy"
        PROVE  /\ ctx'[Call'[y].c].ref = 0
               /\ \A i \in DOMAIN tee_ctxes' : tee_ctxes'[i] # Call'[y].c
               /\ \A z \in Frames' : Call'[z].pc = "destroy" /\ Call'[z].c = Call'[y].c => z = y
    <3>1. /\ y \in Frames \ {x} /\ Call'[y] = Call[y] /\ Call[y].c \in Ctxs \ {c}
          /\ ctx'[Call[y].c] = ctx[Call[y].c]
      BY <1>1, <1>2, <2>1
    <3>2. /\ ctx[Call[y].c].ref = 0
          /\ \A i \in DOMAIN tee_ctxes : tee_ctxes[i] # Call[y].c
          /\ \A z \in Frames : Call[z].pc = "destroy" /\ Call[z].c = Call[y].c => z = y
      BY <2>1, <3>1 DEF CtxOK, DestroyOK
    <3>3. \A i \in DOMAIN tee_ctxes' : tee_ctxes'[i] # Call[y].c
      BY <1>1, <3>1, <3>2
    <3> QED
      BY <1>1, <3>1, <3>2, <3>3
  <2>2. ASSUME x \in Frames', Call'[x].pc = "destroy"
        PROVE  /\ ctx'[Call'[x].c].ref = 0
               /\ \A i \in DOMAIN tee_ctxes' : tee_ctxes'[i] # Call'[x].c
               /\ \A z \in Frames' : Call'[z].pc = "destroy" /\ Call'[z].c = Call'[x].c => z = x
    <3>1. Call'[x].c = c
      BY <1>1, <2>2
    <3> QED
      BY <1>1, <2>2, <3>1
  <2> QED
    BY <2>1, <2>2 DEF DestroyOK
<1>6. CtxInfo'
  <2>1. ASSUME NEW d \in Ctxs, d # c PROVE InfoOK(d)'
    <3>1. InfoOK(d) /\ ctx'[d] = ctx[d]
      BY <1>1, <2>1 DEF CtxOK, CtxInfo
    <3> QED
      BY <3>1 DEF InfoOK, Has
  <2> QED
    BY <1>1, <2>1 DEF CtxInfo
<1>7. CtxRefs'
  <2>1. ASSUME NEW d \in Ctxs, d # c PROVE RefOK(d)'
    <3>1. RefOK(d) /\ ctx'[d] = ctx[d] /\ SessionsOf(d)' = SessionsOf(d)
      BY <1>1, <2>1 DEF CtxOK, CtxRefs
    <3>2. ClosesOf(d)' = ClosesOf(d)
      BY <1>1, <2>1 DEF ClosesOf, Closing
    <3> QED
      BY <3>1, <3>2 DEF RefOK
  <2> QED
    BY <1>1, <2>1 DEF CtxRefs
<1> QED
  BY <1>3, <1>4, <1>5, <1>6, <1>7 DEF CtxOK

\* A context that a call uses is neither being loaded nor destroyed by another.
LEMMA OthersOf ==
    ASSUME Facts, NEW x \in Frames, Uses(Call[x]) \/ Closing(Call[x]), NEW c \in Ctxs, c = Call[x].c
    PROVE  \A y \in Frames \ {x} : Call[y].c = c => Call[y].pc \notin {"ldelf", "destroy"}
<1>1. ctx[c].ref # 0
  BY UsedContext
<1>2. \A y \in Frames \ {x} : Call[y].c = c => Call[y].pc # "ldelf"
  BY DEF Facts, CtxOK, LoadOK
<1>3. \A y \in Frames \ {x} : Call[y].c = c => Call[y].pc # "destroy"
  BY <1>1 DEF Facts, CtxOK, DestroyOK
<1> QED
  BY <1>2, <1>3

\* A step that moves a call, given the sessions and the contexts.
LEMMA CtxChange ==
    ASSUME Inv, NEW t, Here(t), stack' \in Stacks, NEW g, Changed(Place(t), g), TypeOK', SessOK', CtxOK',
           BusySame, UuidsKept(Place(t)), CallOK(g), g.owner = Top(t).owner, g.op = Top(t).op,
           g.busy <=> Top(t).busy, g.busy => g.c = Top(t).c
    PROVE  Inv'
<1>1. Facts /\ t \in Threads /\ stack[t] # <<>> /\ Call[Place(t)] = Top(t)
  BY InvFacts DEF Here
<1>2. StackOK'
  BY <1>1, StackChanged DEF Facts
<1>3. BusyOK' /\ SiOK'
  BY <1>1, BusyChanged DEF Facts
<1> QED
  BY <1>2, <1>3 DEF Inv

\* A step that returns, given the sessions and the contexts.
LEMMA CtxReturn ==
    ASSUME Inv, NEW t, Here(t), stack' \in Stacks, Popped(Place(t)), TypeOK', SessOK', CtxOK',
           BusySame, UuidsKept(Place(t)), ~Top(t).busy
    PROVE  Inv'
<1>1. Facts /\ t \in Threads /\ stack[t] # <<>> /\ Call[Place(t)] = Top(t)
  BY InvFacts DEF Here
<1>2. StackOK'
  BY <1>1, StackPopped DEF Facts
<1>3. BusyOK' /\ SiOK'
  BY <1>1, BusyPopped DEF Facts
<1> QED
  BY <1>2, <1>3 DEF Inv

\* A flag of the context of a call changes, and the context may leave the list.
LEMMA CtxFlag ==
    ASSUME Inv, NEW t, Here(t), NEW c \in Ctxs, c = Top(t).c, Uses(Top(t)), ~Closing(Top(t)),
           NEW k \in CtxType, ctx' = [ctx EXCEPT ![c] = k],
           k.live <=> ctx[c].live, k.uuid = ctx[c].uuid, k.ref = ctx[c].ref, k.busy <=> ctx[c].busy,
           UNCHANGED <<sess, siThread, siCount, dead>>,
           \/ tee_ctxes' = tee_ctxes /\ (k.releasing <=> ctx[c].releasing)
           \/ tee_ctxes' = Unlisted(c),
           k.uuid \notin Pseudo /\ ~k.panicked => k.vm, k.panicked => k.uuid \notin Pseudo,
           stack' \in Stacks, NEW g, Changed(Place(t), g), CallOK(g), SameUse(Top(t), g), g.c = c,
           ~Closing(g), g.busy <=> Top(t).busy, g.pc \notin {"ldelf", "destroy"},
           CtxCall(g, k), \A y \in Frames \ {Place(t)} : Call[y].c = c => CtxCall(Call[y], k)
    PROVE  Inv'
<1>1. Facts /\ t \in Threads /\ stack[t] # <<>> /\ Call[Place(t)] = Top(t) /\ Place(t) \in Frames
  BY InvFacts DEF Here
<1>2. PICK x : x = Place(t)
  OBVIOUS
<1>3. /\ x \in Frames /\ Frames' = Frames /\ Call'[x] = g /\ Call[x] = Top(t)
      /\ \A y \in Frames \ {x} : Call'[y] = Call[y]
  BY <1>1, <1>2 DEF Changed
<1>4. /\ TypeOK /\ ctx \in [Ctxs -> CtxType] /\ tee_ctxes \in Seq(Ctxs) /\ CtxOK /\ ListOK /\ InfoOK(c) /\ RefOK(c)
      /\ CtxNamed /\ None \notin Ctxs
  BY <1>1 DEF Facts, TypeOK, CtxOK, CtxInfo, CtxRefs
<1>5. ctx' \in [Ctxs -> CtxType] /\ ctx'[c] = k /\ \A d \in Ctxs \ {c} : ctx'[d] = ctx[d]
  BY <1>4
<1>6. /\ tee_ctxes' \in Seq(Ctxs)
      /\ \A i \in DOMAIN tee_ctxes' : \E j \in DOMAIN tee_ctxes : tee_ctxes[j] = tee_ctxes'[i]
      /\ \A i, j \in DOMAIN tee_ctxes' : tee_ctxes'[i] = tee_ctxes'[j] => i = j
      /\ (\E i \in DOMAIN tee_ctxes' : tee_ctxes'[i] = c) => (k.releasing <=> ctx[c].releasing)
  <2>1. CASE tee_ctxes' = tee_ctxes /\ (k.releasing <=> ctx[c].releasing)
    BY <1>4, <2>1 DEF ListOK
  <2>2. CASE tee_ctxes' = Unlisted(c)
    <3>1. PICK U : U = Unlisted(c)
      OBVIOUS
    <3>2. /\ U \in Seq(Ctxs)
          /\ \A i \in DOMAIN U : U[i] # c /\ \E j \in DOMAIN tee_ctxes : tee_ctxes[j] = U[i]
          /\ \A i, j \in DOMAIN U : U[i] = U[j] => i = j
      BY <1>4, <3>1, UnlistedIs
    <3> QED
      BY <2>2, <3>1, <3>2
  <2> QED
    BY <2>1, <2>2
<1>7. TypeOK'
  BY <1>4, <1>5, <1>6 DEF TypeOK, Stacks
<1>8. ListOK'
  <2>1. ASSUME NEW i \in DOMAIN tee_ctxes'
        PROVE  ctx'[tee_ctxes'[i]].live /\ ~ctx'[tee_ctxes'[i]].releasing
    <3>1. PICK j \in DOMAIN tee_ctxes : tee_ctxes[j] = tee_ctxes'[i]
      BY <1>6
    <3>2. tee_ctxes[j] \in Ctxs /\ ctx[tee_ctxes[j]].live /\ ~ctx[tee_ctxes[j]].releasing
      BY <1>4 DEF ListOK
    <3>3. CASE tee_ctxes[j] = c
      BY <1>5, <1>6, <3>1, <3>2, <3>3
    <3>4. CASE tee_ctxes[j] # c
      BY <1>5, <3>1, <3>2, <3>4
    <3> QED
      BY <3>3, <3>4
  <2> QED
    BY <1>6, <2>1 DEF ListOK
<1>9. InfoOK(c)'
  BY <1>4, <1>5 DEF InfoOK, Has
<1>10. \A d \in Ctxs : SessionsOf(d)' = SessionsOf(d)
  BY DEF SessionsOf
<1>11. ClosesOf(c)' = ClosesOf(c)
  BY <1>3 DEF ClosesOf, Closing
<1>12. RefOK(c)'
  BY <1>4, <1>5, <1>10, <1>11 DEF RefOK
<1>13. Around(c, x)
  BY <1>3, <1>5, <1>6, <1>10 DEF Around
<1>14. \A y \in Frames \ {x} : Call[y].c = c => /\ CtxCall(Call[y], ctx'[c])
                                                /\ Call[y].pc \notin {"ldelf", "destroy"}
  BY <1>1, <1>2, <1>3, <1>5, OthersOf
<1>15. CtxOK'
  <2>1. Call'[x].c # None /\ CtxCall(Call'[x], ctx'[c]) /\ Call'[x].pc \notin {"ldelf", "destroy"}
    BY <1>3, <1>4, <1>5
  <2> QED
    BY <1>4, <1>8, <1>9, <1>12, <1>13, <1>14, <2>1, CtxLocal
<1>16. SessOK'
  BY <1>1, SessChanged DEF Facts
<1>17. UuidsKept(Place(t))
  BY <1>4, <1>5 DEF UuidsKept, CtxNamed
<1>18. BusySame
  BY <1>5 DEF BusySame
<1> QED
  BY <1>7, <1>15, <1>16, <1>17, <1>18, CtxChange DEF SameUse

\* The fields of a context.
LEMMA CtxTyped ==
    ASSUME TypeOK, NEW c \in Ctxs
    PROVE  /\ ctx[c] \in CtxType /\ ctx[c].live \in BOOLEAN /\ ctx[c].uuid \in Uuids \cup {None}
           /\ ctx[c].ref \in Nat /\ ctx[c].busy \in BOOLEAN /\ ctx[c].panicked \in BOOLEAN
           /\ ctx[c].releasing \in BOOLEAN /\ ctx[c].initializing \in BOOLEAN /\ ctx[c].vm \in BOOLEAN
BY DEF TypeOK, CtxType

\* ldelf has loaded the TA.
LEMMA InitializedStep ==
    ASSUME Inv, NEW t \in Threads, Initialized(t)
    PROVE  Inv'
<1>1. Here(t) /\ Top(t).pc = "ldelf" /\ Facts
  BY HereIs, ResumeIs, InvFacts DEF Initialized
<1>2. /\ Top(t) \in CallType /\ Call[Place(t)] = Top(t) /\ CallOK(Top(t)) /\ Place(t) \in Frames
      /\ stack[t] # <<>> /\ stack \in Stacks
  BY <1>1 DEF Here
<1>3. Top(t).op = "open" /\ Uses(Top(t)) /\ ~Closing(Top(t)) /\ ~Top(t).busy
  BY <1>1, <1>2 DEF CallOK, CallType, InTa, Uses, Closing
<1>4. PICK c \in Ctxs : c = Top(t).c
  BY <1>1, <1>2 DEF CtxNamed, Facts
<1>5. TypeOK /\ ctx[c] \in CtxType /\ ctx[c].live /\ InfoOK(c)
  BY <1>1, <1>2, <1>4, CtxTyped DEF Facts, CtxOK, CtxCalls, CtxCall, CtxInfo
<1>6. PICK k : k = [ctx[c] EXCEPT !.initializing = FALSE]
  OBVIOUS
<1>7. /\ k \in CtxType /\ k.uuid = ctx[c].uuid /\ k.ref = ctx[c].ref
      /\ k.busy <=> ctx[c].busy
      /\ k.live <=> ctx[c].live
      /\ k.panicked <=> ctx[c].panicked
      /\ k.releasing <=> ctx[c].releasing
      /\ k.vm <=> ctx[c].vm
  BY <1>5, <1>6 DEF CtxType
<1>8. /\ ctx' = [ctx EXCEPT ![c] = k] /\ Move(t, Goto(t, "set_busy"), Waiting("wait_init"))
      /\ UNCHANGED <<sess, tee_ctxes, siThread, siCount, dead>>
  BY <1>4, <1>6 DEF Initialized
<1>9. \A u \in Waiting("wait_init") : Asleep(u)
  BY WakesSleepers, ResumeIs
<1>10. "set_busy" = (IF "set_busy" \in DOMAIN Resume THEN Resume["set_busy"] ELSE "set_busy")
       /\ "set_busy" \in Labels
  BY ResumeIs DEF Labels
<1>11. stack' \in Stacks
  BY <1>1, <1>8, <1>9, <1>10, GotoStep
<1>12. PICK g \in CallType :
          /\ Changed(Place(t), g)
          /\ g.pc = "set_busy" /\ g.op = Top(t).op /\ g.s = Top(t).s /\ g.c = Top(t).c
          /\ g.owner = Top(t).owner /\ g.uuid = Top(t).uuid /\ (g.busy <=> Top(t).busy)
  BY <1>1, <1>8, <1>9, <1>10, GotoStep
<1>13. CallOK(g) /\ SameUse(Top(t), g) /\ ~Closing(g)
  BY <1>1, <1>2, <1>3, <1>12 DEF CallOK, InTa, SameUse, Uses, Locks, Closing
<1>14. CtxCall(g, k)
  BY <1>5, <1>7, <1>12 DEF CtxCall
<1>15. \A y \in Frames \ {Place(t)} : Call[y].c = c => CtxCall(Call[y], k)
  BY <1>1, <1>2, <1>4 DEF Facts, CtxOK, LoadOK
<1>16. k.uuid \notin Pseudo /\ ~k.panicked => k.vm
  BY <1>5, <1>7 DEF InfoOK
<1>17. k.panicked => k.uuid \notin Pseudo
  BY <1>5, <1>7 DEF InfoOK
<1> QED
  BY <1>1, <1>3, <1>4, <1>7, <1>8, <1>11, <1>12, <1>13, <1>14, <1>15, <1>16, <1>17, CtxFlag

\* What the steps of a call in its TA start from.
LEMMA InTaIs ==
    ASSUME Inv, NEW t \in Threads, Here(t), Top(t).pc \in {"body", "leave", "release"}
    PROVE  /\ Facts /\ Uses(Top(t)) /\ ~Closing(Top(t)) /\ Top(t).busy /\ Top(t).c \in Ctxs
           /\ CtxCall(Top(t), ctx[Top(t).c]) /\ InfoOK(Top(t).c)
           /\ ctx[Top(t).c] \in CtxType
           /\ \A y \in Frames \ {Place(t)} : Call[y].c = Top(t).c => CtxCall(Call[y], ctx[Top(t).c])
<1>1. Facts
  BY InvFacts
<1>2. /\ Top(t) \in CallType /\ Call[Place(t)] = Top(t) /\ CallOK(Top(t)) /\ Place(t) \in Frames
  BY DEF Here
<1>3. Uses(Top(t)) /\ ~Closing(Top(t)) /\ Top(t).busy
  BY <1>2 DEF CallOK, CallType, InTa, Uses, Closing
<1>4. Top(t).c \in Ctxs
  BY <1>1, <1>2, <1>3 DEF Facts, BusyNamed
<1>5. CtxCall(Top(t), ctx[Top(t).c]) /\ InfoOK(Top(t).c) /\ ctx[Top(t).c] \in CtxType
  BY <1>1, <1>2, <1>4, CtxTyped DEF Facts, CtxOK, CtxCalls, CtxInfo
<1>6. \A y \in Frames \ {Place(t)} : Call[y].c = Top(t).c => CtxCall(Call[y], ctx[Top(t).c])
  BY <1>1, <1>4 DEF Facts, CtxOK, CtxCalls
<1> QED
  BY <1>1, <1>3, <1>4, <1>5, <1>6

\* A TA panics.
LEMMA TaPanicsStep ==
    ASSUME Inv, NEW t \in Threads, TaPanics(t)
    PROVE  Inv'
<1>1. Here(t) /\ Top(t).pc = "body"
  BY HereIs, ResumeIs DEF TaPanics
<1>2. /\ Top(t) \in CallType /\ CallOK(Top(t)) /\ stack[t] # <<>>
  BY <1>1 DEF Here
<1>3. PICK c : c = Top(t).c
  OBVIOUS
<1>4. /\ Facts /\ Uses(Top(t)) /\ ~Closing(Top(t)) /\ Top(t).busy /\ c \in Ctxs
      /\ CtxCall(Top(t), ctx[c]) /\ InfoOK(c) /\ ctx[c] \in CtxType
      /\ \A y \in Frames \ {Place(t)} : Call[y].c = c => CtxCall(Call[y], ctx[c])
  BY <1>1, <1>3, InTaIs
<1>5. PICK k : k = [ctx[c] EXCEPT !.panicked = TRUE]
  OBVIOUS
<1>6. /\ k \in CtxType /\ k.uuid = ctx[c].uuid /\ k.ref = ctx[c].ref /\ k.panicked
      /\ k.busy <=> ctx[c].busy
      /\ k.live <=> ctx[c].live
      /\ k.releasing <=> ctx[c].releasing
      /\ k.vm <=> ctx[c].vm
  BY <1>4, <1>5 DEF CtxType
<1>7. PICK pc : pc = AfterBody(t)
  OBVIOUS
<1>8. /\ ctx' = [ctx EXCEPT ![c] = k] /\ Move(t, Goto(t, pc), {}) /\ ctx[c].uuid \notin Pseudo
      /\ UNCHANGED <<sess, tee_ctxes, siThread, siCount, dead>> /\ \A u \in {} : Asleep(u)
  BY <1>3, <1>5, <1>7 DEF TaPanics
<1>9. /\ pc = (IF pc \in DOMAIN Resume THEN Resume[pc] ELSE pc) /\ pc \in Labels
      /\ pc = IF Top(t).op = "close" THEN "unlink" ELSE "leave"
  BY <1>7, ResumeIs DEF Labels, AfterBody
<1>10. stack' \in Stacks
  BY <1>1, <1>8, <1>9, GotoStep
<1>11. PICK g \in CallType :
          /\ Changed(Place(t), g)
          /\ g.pc = pc /\ g.op = Top(t).op /\ g.s = Top(t).s /\ g.c = Top(t).c
          /\ g.owner = Top(t).owner /\ g.uuid = Top(t).uuid /\ (g.busy <=> Top(t).busy)
  BY <1>1, <1>8, <1>9, GotoStep
<1>12. CallOK(g) /\ SameUse(Top(t), g) /\ ~Closing(g) /\ g.pc \in {"unlink", "leave"}
  BY <1>1, <1>2, <1>4, <1>9, <1>11 DEF CallOK, CallType, InTa, SameUse, Uses, Locks, Closing
<1>13. CtxCall(g, k) /\ \A y \in Frames \ {Place(t)} : Call[y].c = c => CtxCall(Call[y], k)
  BY <1>4, <1>6, <1>12 DEF CtxCall
<1>14. /\ k.uuid \notin Pseudo /\ ~k.panicked => k.vm
       /\ k.panicked => k.uuid \notin Pseudo
  BY <1>6, <1>8
<1> QED
  BY <1>1, <1>3, <1>4, <1>6, <1>8, <1>10, <1>11, <1>12, <1>13, <1>14, CtxFlag

\* The end of an open or an invoke, with release_ta_ctx() after a panic.
LEMMA LeaveTaStep ==
    ASSUME Inv, NEW t \in Threads, LeaveTa(t)
    PROVE  Inv'
<1>1. Here(t) /\ Top(t).pc = "leave"
  BY HereIs, ResumeIs DEF LeaveTa
<1>2. /\ Top(t) \in CallType /\ CallOK(Top(t)) /\ stack[t] # <<>> /\ stack \in Stacks
  BY <1>1 DEF Here
<1>3. PICK c : c = Top(t).c
  OBVIOUS
<1>4. /\ Facts /\ Uses(Top(t)) /\ ~Closing(Top(t)) /\ Top(t).busy /\ c \in Ctxs
      /\ CtxCall(Top(t), ctx[c]) /\ InfoOK(c) /\ ctx[c] \in CtxType
      /\ \A y \in Frames \ {Place(t)} : Call[y].c = c => CtxCall(Call[y], ctx[c])
  BY <1>1, <1>3, InTaIs
<1>5. UNCHANGED <<sess, siThread, siCount, dead>> /\ \A u \in {} : Asleep(u)
  BY DEF LeaveTa
<1>6. CASE ~ctx[c].panicked
  <2>1. UNCHANGED <<ctx, tee_ctxes>> /\ Move(t, Goto(t, "clear"), {})
    BY <1>3, <1>6 DEF LeaveTa
  <2>2. Quiet
    BY <1>5, <2>1 DEF Quiet, Inv, TypeOK
  <2>3. MovesOn(Top(t), "clear") /\ "clear" \in Labels /\ "clear" \notin DOMAIN Resume
    BY <1>1, ResumeIs DEF MovesOn, Labels
  <2> QED
    BY <1>1, <1>5, <2>1, <2>2, <2>3, GoOnTo
<1>7. CASE ctx[c].panicked
  <2>1. PICK k : k = [ctx[c] EXCEPT !.releasing = TRUE]
    OBVIOUS
  <2>2. /\ k \in CtxType /\ k.uuid = ctx[c].uuid /\ k.ref = ctx[c].ref
        /\ k.busy <=> ctx[c].busy
        /\ k.live <=> ctx[c].live
        /\ k.panicked <=> ctx[c].panicked
        /\ k.vm <=> ctx[c].vm
    BY <1>4, <2>1 DEF CtxType
  <2>3. PICK pc : pc = IF ctx[c].releasing THEN "clear" ELSE "release"
    OBVIOUS
  <2>4. PICK f : f = [Top(t) EXCEPT !.ok = FALSE, !.pc = pc]
    OBVIOUS
  <2>5. /\ ctx' = [ctx EXCEPT ![c] = k] /\ tee_ctxes' = Unlisted(c) /\ Move(t, With(t, f), {})
    BY <1>3, <1>7, <2>1, <2>3, <2>4 DEF LeaveTa
  <2>6. pc \in {"clear", "release"} /\ pc \in Labels /\ pc \notin DOMAIN Resume
    BY <2>3, ResumeIs DEF Labels
  <2>7. /\ f \in CallType /\ f.pc = pc /\ f.op = Top(t).op /\ f.s = Top(t).s /\ f.c = c
        /\ f.owner = Top(t).owner /\ f.uuid = Top(t).uuid /\ (f.busy <=> Top(t).busy)
    BY <1>2, <1>3, <2>4, <2>6 DEF CallType
  <2>8. Norm(f) = f
    BY <2>6, <2>7, NormIs
  <2>9. stack' \in Stacks /\ Changed(Place(t), f)
    BY <1>2, <1>5, <2>5, <2>7, <2>8, WithChanges
  <2>10. CallOK(f) /\ SameUse(Top(t), f) /\ ~Closing(f)
    BY <1>1, <1>2, <1>3, <1>4, <2>6, <2>7 DEF CallOK, CallType, InTa, SameUse, Uses, Locks, Closing
  <2>11. CtxCall(f, k)
    BY <1>4, <1>7, <2>2, <2>6, <2>7 DEF CtxCall
  <2>12. \A y \in Frames \ {Place(t)} : Call[y].c = c => CtxCall(Call[y], k)
    BY <1>4, <2>2 DEF CtxCall
  <2>13. k.uuid \notin Pseudo /\ ~k.panicked => k.vm
    BY <1>4, <2>2 DEF InfoOK, CtxCall
  <2>14. k.panicked => k.uuid \notin Pseudo
    BY <1>4, <2>2 DEF InfoOK, CtxCall
  <2>15. f.pc \notin {"ldelf", "destroy"}
    BY <2>6, <2>7
  <2> QED
    BY <1>1, <1>3, <1>4, <1>5, <2>2, <2>5, <2>7, <2>9, <2>10, <2>11, <2>12, <2>13, <2>14, <2>15, CtxFlag
<1> QED
  BY <1>6, <1>7

\* The end of release_utc_state(): no other call is in the TA whose mappings go.
LEMMA ReleaseStateStep ==
    ASSUME Inv, NEW t \in Threads, ReleaseState(t)
    PROVE  Inv'
<1>1. Here(t) /\ Top(t).pc = "release"
  BY HereIs, ResumeIs DEF ReleaseState
<1>2. /\ Top(t) \in CallType /\ CallOK(Top(t)) /\ stack[t] # <<>> /\ Place(t) \in Frames /\ Call[Place(t)] = Top(t)
  BY <1>1 DEF Here
<1>3. PICK c : c = Top(t).c
  OBVIOUS
<1>4. /\ Facts /\ Uses(Top(t)) /\ ~Closing(Top(t)) /\ Top(t).busy /\ c \in Ctxs
      /\ CtxCall(Top(t), ctx[c]) /\ InfoOK(c) /\ ctx[c] \in CtxType
      /\ \A y \in Frames \ {Place(t)} : Call[y].c = c => CtxCall(Call[y], ctx[c])
  BY <1>1, <1>3, InTaIs
<1>5. PICK k : k = [ctx[c] EXCEPT !.vm = FALSE]
  OBVIOUS
<1>6. /\ k \in CtxType /\ k.uuid = ctx[c].uuid /\ k.ref = ctx[c].ref
      /\ k.busy <=> ctx[c].busy
      /\ k.live <=> ctx[c].live
      /\ k.releasing <=> ctx[c].releasing
      /\ k.panicked <=> ctx[c].panicked
  BY <1>4, <1>5 DEF CtxType
<1>7. ctx[c].live /\ ctx[c].panicked /\ ctx[c].uuid \notin Pseudo
  BY <1>1, <1>4 DEF CtxCall, InfoOK
<1>8. /\ ctx' = [ctx EXCEPT ![c] = k] /\ Move(t, Goto(t, "clear"), {})
      /\ UNCHANGED <<sess, tee_ctxes, siThread, siCount, dead>> /\ \A u \in {} : Asleep(u)
  BY <1>3, <1>5 DEF ReleaseState
<1>9. /\ "clear" = (IF "clear" \in DOMAIN Resume THEN Resume["clear"] ELSE "clear") /\ "clear" \in Labels
  BY ResumeIs DEF Labels
<1>10. stack' \in Stacks
  BY <1>1, <1>8, <1>9, GotoStep
<1>11. PICK g \in CallType :
          /\ Changed(Place(t), g)
          /\ g.pc = "clear" /\ g.op = Top(t).op /\ g.s = Top(t).s /\ g.c = Top(t).c
          /\ g.owner = Top(t).owner /\ g.uuid = Top(t).uuid /\ (g.busy <=> Top(t).busy)
  BY <1>1, <1>8, <1>9, GotoStep
<1>12. CallOK(g) /\ SameUse(Top(t), g) /\ ~Closing(g)
  BY <1>1, <1>2, <1>4, <1>11 DEF CallOK, CallType, InTa, SameUse, Uses, Locks, Closing
<1>13. CtxCall(g, k)
  BY <1>6, <1>7, <1>11 DEF CtxCall
<1>14. ASSUME NEW y \in Frames \ {Place(t)}, Call[y].c = c
       PROVE  CtxCall(Call[y], k)
  <2>1. Call[y].pc # "body"
    <3>1. SUFFICES ASSUME Call[y].pc = "body" PROVE FALSE
      OBVIOUS
    <3>2. Call[y].busy
      <4>1. CallOK(Call[y])
        BY <1>4 DEF Facts, StackOK
      <4> QED
        BY <3>1, <4>1 DEF CallOK, InTa
    <3>3. ~Has(c, "CONCURRENT")
      BY <1>4, <1>7, PanickedIs
    <3> QED
      BY <1>2, <1>3, <1>4, <1>14, <3>2, <3>3 DEF Facts, BusyOK
  <2> QED
    BY <1>4, <1>6, <1>14, <2>1 DEF CtxCall
<1>15. /\ k.uuid \notin Pseudo /\ ~k.panicked => k.vm
       /\ k.panicked => k.uuid \notin Pseudo
  BY <1>6, <1>7
<1> QED
  BY <1>1, <1>3, <1>4, <1>6, <1>8, <1>10, <1>11, <1>12, <1>13, <1>14, <1>15, CtxFlag

-----------------------------------------------------------------------------
(* Opening a session *)

\* The session joins a context of the list.
LEMMA JoinStep ==
    ASSUME Inv, NEW t, Here(t), Top(t).pc \in {"open", "find"}, NEW s \in Sessions, NEW i \in DOMAIN tee_ctxes,
           NEW c, c = tee_ctxes[i], ~ctx[c].initializing, Has(c, "SINGLE_INSTANCE"),
           stack' \in Stacks, NEW g \in CallType, Changed(Place(t), g), CallOK(g), g.pc = "set_busy", g.c = c, g.s = s,
           g.op = "open", g.owner = Top(t).owner, ~g.busy,
           SessOK', sess' \in [Sessions -> SessType], \A q \in Sessions \ {s} : sess'[q] = sess[q],
           sess'[s].live, sess'[s].ctx = c, sess[s].live => sess[s].ctx = None,
           ctx' = [ctx EXCEPT ![c].ref = @ + 1],
           UNCHANGED <<tee_ctxes, siThread, siCount, dead>>
    PROVE  Inv'
<1>1. /\ Facts /\ TypeOK /\ tee_ctxes \in Seq(Ctxs) /\ CtxOK /\ ListOK /\ CtxNamed /\ None \notin Ctxs
      /\ Top(t) \in CallType /\ CallOK(Top(t)) /\ Call[Place(t)] = Top(t) /\ ctx \in [Ctxs -> CtxType]
  BY InvFacts DEF Here, Facts, TypeOK, CtxOK
<1>2. c \in Ctxs /\ ctx[c].live /\ ~ctx[c].releasing
  BY <1>1 DEF ListOK
<1>3. InfoOK(c) /\ RefOK(c) /\ ctx[c] \in CtxType /\ ctx[c].ref \in Nat
  BY <1>1, <1>2, CtxTyped DEF CtxOK, CtxInfo, CtxRefs
<1>4. Top(t).op = "open" /\ Top(t).c = None /\ ~Top(t).busy
  BY <1>1 DEF CallOK, CallType, InTa
<1>5. PICK k : k = [ctx[c] EXCEPT !.ref = @ + 1]
  OBVIOUS
<1>6. /\ k \in CtxType /\ k.uuid = ctx[c].uuid /\ k.ref = ctx[c].ref + 1
      /\ k.busy <=> ctx[c].busy
      /\ k.live <=> ctx[c].live
      /\ k.releasing <=> ctx[c].releasing
      /\ k.panicked <=> ctx[c].panicked
      /\ k.vm <=> ctx[c].vm
  BY <1>3, <1>5 DEF CtxType
<1>7. ctx' \in [Ctxs -> CtxType] /\ ctx'[c] = k /\ \A d \in Ctxs \ {c} : ctx'[d] = ctx[d]
  BY <1>1, <1>2, <1>5, <1>6
<1>8. PICK x : x = Place(t)
  OBVIOUS
<1>9. /\ x \in Frames /\ Frames' = Frames /\ Call'[x] = g /\ Call[x] = Top(t)
      /\ \A y \in Frames \ {x} : Call'[y] = Call[y]
  BY <1>1, <1>8 DEF Changed
<1>10. TypeOK'
  BY <1>1, <1>7 DEF TypeOK, Stacks
<1>11. ListOK'
  BY <1>1, <1>2, <1>6, <1>7 DEF ListOK
<1>12. InfoOK(c)'
  BY <1>2, <1>3, <1>6, <1>7 DEF InfoOK, Has
<1>13. \A d \in Ctxs \ {c} : SessionsOf(d)' = SessionsOf(d)
  BY <1>1 DEF SessionsOf
<1>14. SessionsOf(c)' = SessionsOf(c) \cup {s} /\ s \notin SessionsOf(c)
  BY <1>1, <1>2 DEF SessionsOf
<1>15. ClosesOf(c)' = ClosesOf(c)
  BY <1>4, <1>9 DEF ClosesOf, Closing
<1>16. IsFiniteSet(SessionsOf(c)) /\ IsFiniteSet(ClosesOf(c))
  BY <1>1, ConstantsAssumption, FS_Subset DEF SessionsOf, ClosesOf, Facts
<1>17. RefOK(c)'
  <2>1. Cardinality(SessionsOf(c)') = Cardinality(SessionsOf(c)) + 1
    BY ZenonT(60), <1>14, <1>16, FS_AddElement
  <2>2. Cardinality(SessionsOf(c)) \in Nat /\ Cardinality(ClosesOf(c)) \in Nat
    BY <1>16, FS_CardinalityType
  <2>3. ctx[c].ref = Cardinality(SessionsOf(c)) + Cardinality(ClosesOf(c))
    BY <1>2, <1>3 DEF RefOK
  <2>4. ctx'[c].ref = Cardinality(SessionsOf(c)') + Cardinality(ClosesOf(c)')
    BY <1>6, <1>7, <1>15, <2>1, <2>2, <2>3
  <2> QED
    BY <1>2, <1>6, <1>7, <2>4 DEF RefOK
<1>18. Around(c, x)
  BY <1>2, <1>4, <1>7, <1>9, <1>13 DEF Around
<1>19. \A y \in Frames \ {x} : Call[y].c = c => /\ CtxCall(Call[y], ctx'[c])
                                                /\ Call[y].pc \notin {"ldelf", "destroy"}
  BY <1>1, <1>2, <1>6, <1>7 DEF CtxOK, CtxCalls, CtxCall, LoadOK, DestroyOK
<1>20. CtxOK'
  <2>1. Call'[x].c # None /\ CtxCall(Call'[x], ctx'[c]) /\ Call'[x].pc \notin {"ldelf", "destroy"}
    BY <1>1, <1>2, <1>6, <1>7, <1>9 DEF CtxCall
  <2> QED
    BY <1>1, <1>11, <1>12, <1>17, <1>18, <1>19, <2>1, CtxLocal
<1>21. UuidsKept(Place(t))
  BY <1>1, <1>6, <1>7 DEF UuidsKept, CtxNamed
<1>22. BusySame
  BY <1>6, <1>7 DEF BusySame
<1> QED
  BY <1>4, <1>10, <1>20, <1>21, <1>22, CtxChange

\* tee_ta_init_session(), woken from tee_ta_init_cv.
LEMMA FindAgainStep ==
    ASSUME Inv, NEW t \in Threads, FindAgain(t)
    PROVE  Inv'
<1>1. Here(t) /\ Top(t).pc = "find" /\ Facts
  BY HereIs, ResumeIs, InvFacts DEF FindAgain
<1>2. /\ Top(t) \in CallType /\ CallOK(Top(t)) /\ stack[t] # <<>> /\ stack \in Stacks /\ Place(t) \in Frames
      /\ Call[Place(t)] = Top(t)
  BY <1>1 DEF Here
<1>3. /\ UNCHANGED <<tee_ctxes, siThread, siCount, dead>> /\ InitWithContext(t, Top(t), sess)
      /\ \A u \in {} : Asleep(u)
  BY DEF FindAgain
<1>4. CASE \E pc \in {"load", "wait_init", "undo"} :
              Move(t, With(t, [Top(t) EXCEPT !.pc = pc]), {}) /\ sess' = sess /\ UNCHANGED ctx
  <2>1. PICK pc \in {"load", "wait_init", "undo"} :
              Move(t, With(t, [Top(t) EXCEPT !.pc = pc]), {}) /\ sess' = sess /\ UNCHANGED ctx
    BY <1>4
  <2>2. Quiet /\ Move(t, Goto(t, pc), {})
    BY <1>3, <2>1 DEF Quiet, Inv, TypeOK, Goto
  <2>3. PICK q : q = IF pc \in DOMAIN Resume THEN Resume[pc] ELSE pc
    OBVIOUS
  <2>4. q \in {"load", "find", "undo"} /\ pc \in Labels
    BY <2>1, <2>3, ResumeIs DEF Labels
  <2>5. MovesOn(Top(t), q) /\ q \notin {"ldelf", "destroy", "release", "body"}
    BY <1>1, <2>4 DEF MovesOn
  <2> QED
    BY <1>1, <1>3, <2>2, <2>3, <2>4, <2>5, GoOnTo
<1>5. CASE \E i \in Found(Top(t).uuid) :
              /\ ~ctx[tee_ctxes[i]].initializing /\ Has(tee_ctxes[i], "SINGLE_INSTANCE")
              /\ Move(t, With(t, [Top(t) EXCEPT !.pc = "set_busy", !.c = tee_ctxes[i]]), {})
              /\ sess' = [sess EXCEPT ![Top(t).s].ctx = tee_ctxes[i]]
              /\ ctx' = [ctx EXCEPT ![tee_ctxes[i]].ref = @ + 1]
  <2>1. PICK i \in Found(Top(t).uuid) :
              /\ ~ctx[tee_ctxes[i]].initializing /\ Has(tee_ctxes[i], "SINGLE_INSTANCE")
              /\ Move(t, With(t, [Top(t) EXCEPT !.pc = "set_busy", !.c = tee_ctxes[i]]), {})
              /\ sess' = [sess EXCEPT ![Top(t).s].ctx = tee_ctxes[i]]
              /\ ctx' = [ctx EXCEPT ![tee_ctxes[i]].ref = @ + 1]
    BY <1>5
  <2>2. PICK c : c = tee_ctxes[i]
    OBVIOUS
  <2>3. i \in DOMAIN tee_ctxes /\ c \in Ctxs /\ c # None
    BY <1>1, <2>2 DEF Found, Facts
  <2>4. PICK s : s = Top(t).s
    OBVIOUS
  <2>5. Top(t).op = "open" /\ Top(t).c = None /\ Uses(Top(t)) /\ ~Top(t).busy
    BY <1>1, <1>2 DEF CallOK, CallType, InTa, Uses
  <2>6. s \in Sessions /\ sess[s].live /\ sess[s].ctx = None /\ sess[s] \in SessType /\ TypeOK
    BY <1>1, <1>2, <2>4, <2>5, UsedSession, SessTyped DEF UseOK, Facts
  <2>7. PICK g : g = [Top(t) EXCEPT !.pc = "set_busy", !.c = c]
    OBVIOUS
  <2>8. /\ g \in CallType /\ g.pc = "set_busy" /\ g.c = c /\ g.s = s /\ g.op = "open"
        /\ g.owner = Top(t).owner /\ g.uuid = Top(t).uuid /\ ~g.busy
    BY ZenonT(60), <1>2, <2>3, <2>4, <2>5, <2>7 DEF CallType, Labels
  <2>9. Norm(g) = g
    BY <2>8, NormIs, ResumeIs
  <2>10. stack' \in Stacks /\ Changed(Place(t), g)
    BY <1>2, <1>3, <2>1, <2>2, <2>7, <2>8, <2>9, WithChanges
  <2>11. CallOK(g) /\ Uses(g)
    BY <1>1, <1>2, <2>3, <2>4, <2>5, <2>8 DEF CallOK, CallType, InTa, Uses
  <2>12. PICK r : r = [sess[s] EXCEPT !.ctx = c]
    OBVIOUS
  <2>13. /\ r \in SessType /\ r.ref = sess[s].ref /\ r.owner = sess[s].owner /\ r.ctx = c
         /\ r.live <=> sess[s].live
         /\ r.open <=> sess[s].open
    BY <2>3, <2>6, <2>12 DEF SessType
  <2>14. sess' = [sess EXCEPT ![s] = r]
    BY <2>1, <2>2, <2>4, <2>12
  <2>15. /\ sess' \in [Sessions -> SessType] /\ sess'[s] = r
         /\ \A q \in Sessions \ {s} : sess'[q] = sess[q]
    BY <2>6, <2>13, <2>14, SessSet
  <2>16. Local(s, Place(t))
    BY <1>2, <2>4, <2>6, <2>8, <2>10, <2>15, LocalChange
  <2>17. SessOK'
    BY <1>1, <1>2, <2>4, <2>5, <2>8, <2>10, <2>11, <2>13, <2>15, <2>16, SessRebound DEF Facts
  <2>18. ctx' = [ctx EXCEPT ![c].ref = @ + 1] /\ ~ctx[c].initializing /\ Has(c, "SINGLE_INSTANCE")
    BY <2>1, <2>2
  <2> QED
    BY <1>1, <1>3, <2>2, <2>3, <2>6, <2>8, <2>10, <2>11, <2>13, <2>15, <2>17, <2>18, JoinStep
<1> QED
  BY <1>3, <1>4, <1>5 DEF InitWithContext

\* The first section of tee_ta_init_session().
LEMMA OpenSessionStep ==
    ASSUME Inv, NEW t \in Threads, OpenSession(t)
    PROVE  Inv'
<1>1. Here(t) /\ Top(t).pc = "open" /\ Facts
  BY HereIs, ResumeIs, InvFacts DEF OpenSession
<1>2. /\ Top(t) \in CallType /\ CallOK(Top(t)) /\ stack[t] # <<>> /\ stack \in Stacks /\ Place(t) \in Frames
      /\ Call[Place(t)] = Top(t)
  BY <1>1 DEF Here
<1>3. PICK s \in Sessions :
         /\ ~sess[s].live /\ \A x \in Frames : F(x).s # s
         /\ InitWithContext(t, [Top(t) EXCEPT !.s = s],
                [sess EXCEPT ![s] = [FreeSess EXCEPT !.live = TRUE, !.ref = 1, !.owner = Top(t).owner]])
  BY DEF OpenSession
<1>4. PICK f : f = [Top(t) EXCEPT !.s = s]
  OBVIOUS
<1>5. PICK r : r = [FreeSess EXCEPT !.live = TRUE, !.ref = 1, !.owner = Top(t).owner]
  OBVIOUS
<1>6. PICK S : S = [sess EXCEPT ![s] = r]
  OBVIOUS
<1>7. InitWithContext(t, f, S)
  BY <1>3, <1>4, <1>5, <1>6
<1>8. UNCHANGED <<tee_ctxes, siThread, siCount, dead>> /\ \A u \in {} : Asleep(u)
  BY DEF OpenSession
<1>9. Top(t).op = "open" /\ Top(t).c = None /\ Top(t).s = None /\ ~Uses(Top(t)) /\ ~Closing(Top(t)) /\ ~Top(t).busy
  BY <1>1, <1>2 DEF CallOK, CallType, InTa, Uses, Closing
<1>10. /\ f \in CallType /\ f.c = None /\ f.s = s /\ f.op = "open"
       /\ f.owner = Top(t).owner /\ f.uuid = Top(t).uuid /\ ~f.busy
  BY <1>2, <1>4, <1>9 DEF CallType
<1>11. /\ r \in SessType /\ r.live /\ r.ref = 1 /\ r.owner = Top(t).owner /\ r.ctx = None
       /\ ~r.open
  BY <1>2, <1>5 DEF SessType, CallType, FreeSess
<1>12. TypeOK /\ sess \in [Sessions -> SessType] /\ None \notin Ctxs /\ None \notin Sessions /\ s # None
  BY <1>1 DEF Facts, TypeOK
<1>13. S \in [Sessions -> SessType] /\ S[s] = r /\ \A q \in Sessions \ {s} : S[q] = sess[q]
  BY <1>6, <1>11, <1>12
<1>14. \A y \in Frames : Call[y].s # s
  BY <1>2, <1>3, FramePairs, NormIs
<1>15. CASE \E pc \in {"load", "wait_init", "undo"} :
               Move(t, With(t, [f EXCEPT !.pc = pc]), {}) /\ sess' = S /\ UNCHANGED ctx
  <2>1. PICK pc \in {"load", "wait_init", "undo"} :
              Move(t, With(t, [f EXCEPT !.pc = pc]), {}) /\ sess' = S /\ UNCHANGED ctx
    BY <1>15
  <2>2. PICK h : h = [f EXCEPT !.pc = pc]
    OBVIOUS
  <2>3. PICK g : g = Norm(h)
    OBVIOUS
  <2>4. /\ h \in CallType /\ h.pc = pc /\ h.c = None /\ h.s = s /\ h.op = "open"
        /\ h.owner = Top(t).owner /\ h.uuid = Top(t).uuid /\ ~h.busy
    BY <1>10, <2>2, ResumeIs DEF CallType, Labels
  <2>5. /\ g \in CallType /\ g.c = None /\ g.s = s /\ g.op = "open"
        /\ g.owner = Top(t).owner /\ g.uuid = Top(t).uuid /\ ~g.busy
        /\ g.pc \in {"load", "find", "undo"}
    BY <2>3, <2>4, NormIs, ResumeIs
  <2>6. stack' \in Stacks /\ Changed(Place(t), g)
    BY <1>2, <1>8, <2>1, <2>2, <2>3, <2>4, WithChanges
  <2>7. CallOK(g) /\ Uses(g) /\ ~Closing(g)
    BY <1>2, <1>9, <1>12, <2>5 DEF CallOK, CallType, InTa, Uses, Closing
  <2>8. Local(s, Place(t))
    BY <1>2, <1>9, <1>13, <2>1, <2>5, <2>6, LocalChange
  <2>9. sess'[s] = r
    BY <1>13, <2>1
  <2>10. SessOK'
    BY <1>1, <1>11, <1>14, <2>5, <2>6, <2>7, <2>8, <2>9, SessOpened DEF Facts
  <2>11. SessQuiet
    <3>1. ASSUME NEW q \in Sessions, NEW c \in Ctxs
          PROVE  (sess'[q].live /\ sess'[q].ctx = c) <=> (sess[q].live /\ sess[q].ctx = c)
      BY <1>3, <1>11, <1>12, <1>13, <2>1
    <3> QED
      BY <1>8, <1>12, <1>13, <2>1, <3>1 DEF SessQuiet, TypeOK
  <2>12. FitsCtx(Place(t), g)
    BY <2>5 DEF FitsCtx
  <2> QED
    BY <1>1, <1>9, <2>5, <2>6, <2>7, <2>10, <2>11, <2>12, SessChange
<1>16. CASE \E i \in Found(f.uuid) :
              /\ ~ctx[tee_ctxes[i]].initializing /\ Has(tee_ctxes[i], "SINGLE_INSTANCE")
              /\ Move(t, With(t, [f EXCEPT !.pc = "set_busy", !.c = tee_ctxes[i]]), {})
              /\ sess' = [S EXCEPT ![f.s].ctx = tee_ctxes[i]]
              /\ ctx' = [ctx EXCEPT ![tee_ctxes[i]].ref = @ + 1]
  <2>1. PICK i \in Found(f.uuid) :
              /\ ~ctx[tee_ctxes[i]].initializing /\ Has(tee_ctxes[i], "SINGLE_INSTANCE")
              /\ Move(t, With(t, [f EXCEPT !.pc = "set_busy", !.c = tee_ctxes[i]]), {})
              /\ sess' = [S EXCEPT ![f.s].ctx = tee_ctxes[i]]
              /\ ctx' = [ctx EXCEPT ![tee_ctxes[i]].ref = @ + 1]
    BY <1>16
  <2>2. PICK c : c = tee_ctxes[i]
    OBVIOUS
  <2>3. i \in DOMAIN tee_ctxes /\ c \in Ctxs /\ c # None
    BY <1>1, <2>2 DEF Found, Facts
  <2>4. PICK g : g = [f EXCEPT !.pc = "set_busy", !.c = c]
    OBVIOUS
  <2>5. /\ g \in CallType /\ g.pc = "set_busy" /\ g.c = c /\ g.s = s /\ g.op = "open"
        /\ g.owner = Top(t).owner /\ g.uuid = Top(t).uuid /\ ~g.busy
    BY <1>10, <2>3, <2>4 DEF CallType, Labels
  <2>6. Norm(g) = g
    BY <2>5, NormIs, ResumeIs
  <2>7. stack' \in Stacks /\ Changed(Place(t), g)
    BY <1>2, <1>8, <2>1, <2>2, <2>4, <2>5, <2>6, WithChanges
  <2>8. CallOK(g) /\ Uses(g)
    BY <1>2, <1>9, <1>12, <2>3, <2>5 DEF CallOK, CallType, InTa, Uses
  <2>9. PICK q : q = [r EXCEPT !.ctx = c]
    OBVIOUS
  <2>10. /\ q \in SessType /\ q.live /\ q.ref = 1 /\ q.owner = Top(t).owner /\ q.ctx = c
         /\ ~q.open
    BY <1>11, <2>3, <2>9 DEF SessType
  <2>11. sess' = [S EXCEPT ![s] = q]
    BY <1>10, <1>13, <2>1, <2>2, <2>9
  <2>12. sess' \in [Sessions -> SessType] /\ sess'[s] = q /\ \A p \in Sessions \ {s} : sess'[p] = sess[p]
    BY <1>13, <2>10, <2>11
  <2>13. Local(s, Place(t))
    BY <1>2, <1>9, <2>5, <2>7, <2>12, LocalChange
  <2>14. SessOK'
    BY <1>1, <1>14, <2>5, <2>7, <2>8, <2>10, <2>12, <2>13, SessOpened DEF Facts
  <2>15. ctx' = [ctx EXCEPT ![c].ref = @ + 1] /\ ~ctx[c].initializing /\ Has(c, "SINGLE_INSTANCE")
    BY <2>1, <2>2
  <2> QED
    BY <1>1, <1>3, <1>8, <2>2, <2>3, <2>5, <2>7, <2>8, <2>10, <2>12, <2>14, <2>15, JoinStep
<1> QED
  BY <1>7, <1>15, <1>16 DEF InitWithContext

\* A new context.
LEMMA LoadTaStep ==
    ASSUME Inv, NEW t \in Threads, LoadTa(t)
    PROVE  Inv'
<1>1. Here(t) /\ Top(t).pc = "load" /\ Facts
  BY HereIs, ResumeIs, InvFacts DEF LoadTa
<1>2. /\ Top(t) \in CallType /\ CallOK(Top(t)) /\ stack[t] # <<>> /\ stack \in Stacks /\ Place(t) \in Frames
      /\ Call[Place(t)] = Top(t)
  BY <1>1 DEF Here
<1>3. PICK user \in BOOLEAN : user <=> Top(t).uuid \notin Pseudo
  OBVIOUS
<1>4. PICK pc : pc = IF user THEN "ldelf" ELSE "set_busy"
  OBVIOUS
<1>5. PICK c \in Ctxs :
         /\ ~ctx[c].live
         /\ ctx' = [ctx EXCEPT ![c] = [FreeCtx EXCEPT !.live = TRUE, !.ref = 1,
                         !.uuid = Top(t).uuid, !.initializing = (Top(t).uuid \notin Pseudo),
                         !.vm = (Top(t).uuid \notin Pseudo)]]
         /\ sess' = [sess EXCEPT ![Top(t).s].ctx = c]
         /\ tee_ctxes' = Append(tee_ctxes, c)
         /\ Move(t, With(t, [Top(t) EXCEPT !.c = c,
                                           !.pc = IF Top(t).uuid \notin Pseudo THEN "ldelf" ELSE "set_busy"]), {})
  BY DEF LoadTa
<1>6. PICK s : s = Top(t).s
  OBVIOUS
<1>7. UNCHANGED <<siThread, siCount, dead>> /\ \A u \in {} : Asleep(u)
  BY DEF LoadTa
<1>8. Top(t).op = "open" /\ Top(t).c = None /\ Uses(Top(t)) /\ ~Closing(Top(t)) /\ ~Top(t).busy /\ Top(t).uuid \in Uuids
  BY <1>1, <1>2 DEF CallOK, CallType, InTa, Uses, Closing
<1>9. s \in Sessions /\ sess[s].live /\ sess[s].ctx = None /\ sess[s] \in SessType /\ TypeOK
  BY <1>1, <1>2, <1>6, <1>8, UsedSession, SessTyped DEF UseOK, Facts
<1>10. /\ tee_ctxes \in Seq(Ctxs) /\ CtxOK /\ ListOK /\ RefOK(c) /\ CtxNamed /\ None \notin Ctxs /\ c # None
       /\ ctx \in [Ctxs -> CtxType]
  BY <1>1 DEF Facts, TypeOK, CtxOK, CtxRefs
<1>11. PICK k : k = [FreeCtx EXCEPT !.live = TRUE, !.ref = 1, !.uuid = Top(t).uuid,
                                    !.initializing = (Top(t).uuid \notin Pseudo), !.vm = (Top(t).uuid \notin Pseudo)]
  OBVIOUS
<1>12. /\ k \in CtxType /\ k.live /\ k.ref = 1 /\ k.uuid = Top(t).uuid /\ ~k.busy /\ ~k.panicked /\ ~k.releasing
       /\ k.initializing <=> user
       /\ k.vm <=> user
  BY <1>3, <1>8, <1>11 DEF CtxType, FreeCtx
<1>13. ctx' \in [Ctxs -> CtxType] /\ ctx'[c] = k /\ \A d \in Ctxs \ {c} : ctx'[d] = ctx[d]
  BY <1>5, <1>10, <1>11, <1>12
<1>14. PICK g : g = [Top(t) EXCEPT !.c = c, !.pc = pc]
  OBVIOUS
<1>15. /\ g \in CallType /\ g.pc = pc /\ g.c = c /\ g.s = s /\ g.op = "open"
       /\ g.owner = Top(t).owner /\ g.uuid = Top(t).uuid /\ ~g.busy /\ pc \in {"ldelf", "set_busy"}
  BY ZenonT(60), <1>2, <1>4, <1>6, <1>8, <1>14 DEF CallType, Labels
<1>16. Norm(g) = g
  BY <1>15, NormIs, ResumeIs
<1>17. stack' \in Stacks /\ Changed(Place(t), g)
  <2>1. Move(t, With(t, g), {})
    BY <1>3, <1>4, <1>5, <1>14
  <2> QED
    BY <1>2, <1>7, <1>15, <1>16, <2>1, WithChanges
<1>18. CallOK(g) /\ Uses(g) /\ ~Closing(g)
  BY <1>1, <1>2, <1>6, <1>8, <1>10, <1>15 DEF CallOK, CallType, InTa, Uses, Closing
<1>19. PICK r : r = [sess[s] EXCEPT !.ctx = c]
  OBVIOUS
<1>20. /\ r \in SessType /\ r.ref = sess[s].ref /\ r.owner = sess[s].owner /\ r.ctx = c
       /\ r.live <=> sess[s].live
       /\ r.open <=> sess[s].open
  BY <1>9, <1>19 DEF SessType
<1>21. sess' = [sess EXCEPT ![s] = r]
  BY <1>5, <1>6, <1>19
<1>22. /\ sess' \in [Sessions -> SessType] /\ sess'[s] = r
       /\ \A q \in Sessions \ {s} : sess'[q] = sess[q]
  BY <1>9, <1>20, <1>21, SessSet
<1>23. Local(s, Place(t))
  BY <1>2, <1>6, <1>9, <1>15, <1>17, <1>22, LocalChange
<1>24. SessOK'
  BY <1>1, <1>2, <1>6, <1>8, <1>15, <1>17, <1>18, <1>20, <1>22, <1>23, SessRebound DEF Facts
<1>25. PICK x : x = Place(t)
  OBVIOUS
<1>26. /\ x \in Frames /\ Frames' = Frames /\ Call'[x] = g /\ Call[x] = Top(t)
       /\ \A y \in Frames \ {x} : Call'[y] = Call[y]
  BY <1>2, <1>17, <1>25 DEF Changed
<1>27. \A y \in Frames : Call[y].c # c
  BY <1>5, <1>10 DEF CtxOK, CtxCalls, CtxCall
<1>28. SessionsOf(c) = {} /\ ClosesOf(c) = {}
  BY <1>5, <1>10 DEF RefOK
<1>29. \A i \in DOMAIN tee_ctxes : tee_ctxes[i] # c
  BY <1>5, <1>10 DEF ListOK
<1>30. PICK n \in Nat : n = Len(tee_ctxes)
  BY <1>10
<1>31. /\ tee_ctxes' \in Seq(Ctxs) /\ DOMAIN tee_ctxes' = 1 .. n + 1 /\ DOMAIN tee_ctxes = 1 .. n
       /\ tee_ctxes'[n + 1] = c /\ \A i \in 1 .. n : tee_ctxes'[i] = tee_ctxes[i] /\ tee_ctxes[i] \in Ctxs
  BY <1>5, <1>10, <1>30
<1>32. TypeOK'
  BY <1>7, <1>9, <1>13, <1>17, <1>22, <1>31 DEF TypeOK, Stacks
<1>33. ListOK'
  <2>1. ASSUME NEW i \in 1 .. n
        PROVE  /\ tee_ctxes'[i] = tee_ctxes[i] /\ tee_ctxes[i] \in Ctxs \ {c}
               /\ ctx'[tee_ctxes'[i]].live /\ ~ctx'[tee_ctxes'[i]].releasing
    BY <1>10, <1>13, <1>29, <1>31 DEF ListOK
  <2>2. \A i \in 1 .. n + 1 : i \in 1 .. n \/ i = n + 1
    BY <1>30
  <2>3. \A i, j \in 1 .. n : tee_ctxes[i] = tee_ctxes[j] => i = j
    BY <1>10, <1>31 DEF ListOK
  <2>4. \A i, j \in 1 .. n + 1 : tee_ctxes'[i] = tee_ctxes'[j] => i = j
    BY <1>31, <2>1, <2>2, <2>3
  <2>5. \A i \in 1 .. n + 1 : ctx'[tee_ctxes'[i]].live /\ ~ctx'[tee_ctxes'[i]].releasing
    BY <1>12, <1>13, <1>31, <2>1, <2>2
  <2> QED
    BY <1>31, <2>4, <2>5 DEF ListOK
<1>34. InfoOK(c)'
  BY <1>3, <1>8, <1>12, <1>13 DEF InfoOK
<1>35. \A d \in Ctxs \ {c} : SessionsOf(d)' = SessionsOf(d)
  BY <1>9, <1>10, <1>20, <1>22 DEF SessionsOf
<1>36. SessionsOf(c)' = {s}
  BY <1>9, <1>20, <1>22, <1>28 DEF SessionsOf
<1>37. ClosesOf(c)' = {}
  BY <1>18, <1>26, <1>27 DEF ClosesOf, Closing
<1>38. RefOK(c)'
  <2>1. Cardinality(SessionsOf(c)') = 1 /\ Cardinality(ClosesOf(c)') = 0
    BY <1>36, <1>37, FS_Singleton, FS_EmptySet
  <2> QED
    BY <1>12, <1>13, <2>1 DEF RefOK
<1>39. Around(c, x)
  <2>1. ASSUME NEW i \in DOMAIN tee_ctxes'
        PROVE  tee_ctxes'[i] = c \/ \E j \in DOMAIN tee_ctxes : tee_ctxes[j] = tee_ctxes'[i]
    <3>1. i \in 1 .. n \/ i = n + 1
      BY <1>30, <1>31
    <3> QED
      BY <1>31, <3>1
  <2> QED
    BY <1>8, <1>13, <1>15, <1>26, <1>35, <2>1 DEF Around
<1>40. CtxOK'
  <2>1. Call'[x].c = c /\ c # None /\ CtxCall(Call'[x], ctx'[c]) /\ Call'[x].pc # "destroy"
    BY <1>10, <1>12, <1>13, <1>15, <1>26 DEF CtxCall
  <2>2. Call'[x].pc = "ldelf" =>
               /\ ctx'[c].initializing /\ ctx'[c].uuid = Call'[x].uuid
               /\ \A y \in Frames \ {x} : Call[y].c # c
               /\ \A q \in Sessions : sess'[q].live /\ sess'[q].ctx = c => q = Call'[x].s
    <3>1. \A q \in Sessions : sess'[q].live /\ sess'[q].ctx = c => q = s
      BY <1>36 DEF SessionsOf
    <3> QED
      BY <1>4, <1>12, <1>13, <1>15, <1>26, <1>27, <3>1
  <2>3. \A y \in Frames \ {x} : Call[y].c = c => /\ CtxCall(Call[y], ctx'[c])
                                                 /\ Call[y].pc \notin {"ldelf", "destroy"}
    BY <1>27
  <2> QED
    BY <1>10, <1>33, <1>34, <1>38, <1>39, <2>1, <2>2, <2>3, CtxLocal
<1>41. UuidsKept(Place(t))
  BY <1>10, <1>13, <1>27 DEF UuidsKept, CtxNamed
<1>42. BusySame
  BY <1>7, <1>12, <1>13, <1>27 DEF BusySame
<1> QED
  BY <1>1, <1>8, <1>15, <1>17, <1>18, <1>24, <1>32, <1>40, <1>41, <1>42, CtxChange

\* TAILQ_REMOVE() of c keeps the list right if the other contexts stay as they are.
LEMMA ListWithout ==
    ASSUME tee_ctxes \in Seq(Ctxs), ListOK, NEW c, tee_ctxes' = Unlisted(c),
           \A d \in Ctxs \ {c} : ctx'[d] = ctx[d]
    PROVE  /\ ListOK' /\ tee_ctxes' \in Seq(Ctxs)
           /\ \A i \in DOMAIN tee_ctxes' : /\ tee_ctxes'[i] # c
                                           /\ \E j \in DOMAIN tee_ctxes : tee_ctxes[j] = tee_ctxes'[i]
<1>1. PICK U : U = Unlisted(c)
  OBVIOUS
<1>2. /\ U \in Seq(Ctxs)
      /\ \A i \in DOMAIN U : U[i] # c /\ \E j \in DOMAIN tee_ctxes : tee_ctxes[j] = U[i]
      /\ \A i, j \in DOMAIN U : U[i] = U[j] => i = j
  BY <1>1, UnlistedIs
<1>3. tee_ctxes' = U
  BY <1>1
<1>4. ASSUME NEW i \in DOMAIN U
      PROVE  ctx'[U[i]].live /\ ~ctx'[U[i]].releasing
  <2>1. PICK j \in DOMAIN tee_ctxes : tee_ctxes[j] = U[i]
    BY <1>2
  <2> QED
    BY <1>2, <2>1 DEF ListOK
<1> QED
  BY <1>2, <1>3, <1>4 DEF ListOK

\* ldelf has failed.
LEMMA LoadFailsStep ==
    ASSUME Inv, NEW t \in Threads, LoadFails(t)
    PROVE  Inv'
<1>1. Here(t) /\ Top(t).pc = "ldelf" /\ Facts
  BY HereIs, ResumeIs, InvFacts DEF LoadFails
<1>2. /\ Top(t) \in CallType /\ CallOK(Top(t)) /\ stack[t] # <<>> /\ stack \in Stacks /\ Place(t) \in Frames
      /\ Call[Place(t)] = Top(t)
  BY <1>1 DEF Here
<1>3. PICK s : s = Top(t).s
  OBVIOUS
<1>4. PICK c \in Ctxs : c = Top(t).c
  BY <1>1, <1>2 DEF CtxNamed, Facts
<1>5. /\ ctx' = [ctx EXCEPT ![c] = FreeCtx] /\ sess' = [sess EXCEPT ![s].ctx = None]
      /\ tee_ctxes' = Unlisted(c) /\ UNCHANGED <<siThread, siCount, dead>>
      /\ Move(t, With(t, [Top(t) EXCEPT !.pc = "undo", !.c = None]), Waiting("wait_init"))
  BY <1>3, <1>4 DEF LoadFails
<1>6. \A u \in Waiting("wait_init") : Asleep(u)
  BY WakesSleepers, ResumeIs
<1>7. Top(t).op = "open" /\ Uses(Top(t)) /\ ~Closing(Top(t)) /\ ~Top(t).busy
  BY <1>1, <1>2 DEF CallOK, CallType, InTa, Uses, Closing
<1>8. s \in Sessions /\ sess[s].live /\ sess[s] \in SessType /\ TypeOK
  BY <1>1, <1>2, <1>3, <1>7, UsedSession, SessTyped DEF Facts
<1>9. /\ tee_ctxes \in Seq(Ctxs) /\ CtxOK /\ ListOK /\ CtxNamed /\ None \notin Ctxs
      /\ ctx \in [Ctxs -> CtxType]
  BY <1>1 DEF Facts, TypeOK, CtxOK
<1>10. FreeCtx \in CtxType /\ ~FreeCtx.live /\ ~FreeCtx.busy
  BY DEF CtxType, FreeCtx
<1>11. ctx' \in [Ctxs -> CtxType] /\ ctx'[c] = FreeCtx /\ \A d \in Ctxs \ {c} : ctx'[d] = ctx[d]
  BY <1>5, <1>9, <1>10
<1>12. PICK g : g = [Top(t) EXCEPT !.pc = "undo", !.c = None]
  OBVIOUS
<1>13. /\ g \in CallType /\ g.pc = "undo" /\ g.c = None /\ g.s = s /\ g.op = "open"
       /\ g.owner = Top(t).owner /\ g.uuid = Top(t).uuid /\ ~g.busy
  BY <1>2, <1>3, <1>7, <1>12 DEF CallType, Labels
<1>14. Norm(g) = g
  BY <1>13, NormIs, ResumeIs
<1>15. stack' \in Stacks /\ Changed(Place(t), g)
  BY <1>2, <1>5, <1>6, <1>12, <1>13, <1>14, WithChanges
<1>16. CallOK(g) /\ Uses(g) /\ ~Closing(g)
  BY <1>1, <1>2, <1>3, <1>7, <1>13 DEF CallOK, CallType, InTa, Uses, Closing
<1>17. PICK r : r = [sess[s] EXCEPT !.ctx = None]
  OBVIOUS
<1>18. /\ r \in SessType /\ r.ref = sess[s].ref /\ r.owner = sess[s].owner /\ r.ctx = None
       /\ r.live <=> sess[s].live
       /\ r.open <=> sess[s].open
  BY <1>8, <1>17 DEF SessType
<1>19. sess' = [sess EXCEPT ![s] = r]
  BY <1>5, <1>17
<1>20. /\ sess' \in [Sessions -> SessType] /\ sess'[s] = r
       /\ \A q \in Sessions \ {s} : sess'[q] = sess[q]
  BY <1>8, <1>18, <1>19, SessSet
<1>21. Local(s, Place(t))
  BY <1>2, <1>3, <1>8, <1>13, <1>15, <1>20, LocalChange
<1>22. SessOK'
  BY <1>1, <1>2, <1>3, <1>7, <1>13, <1>15, <1>16, <1>18, <1>20, <1>21, SessRebound DEF Facts
<1>23. PICK x : x = Place(t)
  OBVIOUS
<1>24. /\ x \in Frames /\ Frames' = Frames /\ Call'[x] = g /\ Call[x] = Top(t)
       /\ \A y \in Frames \ {x} : Call'[y] = Call[y]
  BY <1>2, <1>15, <1>23 DEF Changed
<1>25. /\ \A y \in Frames : Call[y].c = c => y = x
       /\ \A q \in Sessions : sess[q].live /\ sess[q].ctx = c => q = s
  BY <1>1, <1>3, <1>4, <1>9, <1>24 DEF CtxOK, LoadOK
<1>26. /\ ListOK' /\ tee_ctxes' \in Seq(Ctxs)
       /\ \A i \in DOMAIN tee_ctxes' : /\ tee_ctxes'[i] # c
                                       /\ \E j \in DOMAIN tee_ctxes : tee_ctxes[j] = tee_ctxes'[i]
  BY <1>5, <1>9, <1>11, ListWithout
<1>27. TypeOK'
  BY <1>5, <1>8, <1>11, <1>15, <1>20, <1>26 DEF TypeOK, Stacks
<1>28. InfoOK(c)'
  BY <1>10, <1>11 DEF InfoOK
<1>29. \A d \in Ctxs \ {c} : SessionsOf(d)' = SessionsOf(d)
  <2>1. sess[s].ctx = c
    BY <1>1, <1>2, <1>3, <1>4, <1>7, <1>9, UsedSession DEF UseOK, Facts
  <2> QED
    BY <1>8, <1>9, <1>18, <1>20, <2>1 DEF SessionsOf
<1>30. SessionsOf(c)' = {}
  BY <1>9, <1>18, <1>20, <1>25 DEF SessionsOf
<1>31. ClosesOf(c)' = {}
  BY <1>9, <1>13, <1>24, <1>25 DEF ClosesOf, Closing
<1>32. RefOK(c)'
  BY <1>10, <1>11, <1>30, <1>31 DEF RefOK
<1>33. Around(c, x)
  BY <1>4, <1>11, <1>13, <1>24, <1>26, <1>29 DEF Around
<1>34. CtxOK'
  <2>1. Call'[x].c = None /\ Call'[x].pc = "undo"
    BY <1>13, <1>24
  <2>2. \A y \in Frames \ {x} : Call[y].c = c => /\ CtxCall(Call[y], ctx'[c])
                                                 /\ Call[y].pc \notin {"ldelf", "destroy"}
    BY <1>25
  <2> QED
    BY <1>9, <1>26, <1>28, <1>32, <1>33, <2>1, <2>2, CtxLocal
<1>35. UuidsKept(Place(t))
  BY <1>9, <1>11, <1>23, <1>25 DEF UuidsKept, CtxNamed
<1>36. BusySame
  <2>1. \A y \in Frames : Call[y].c = c => ~Call[y].busy
    BY <1>7, <1>24, <1>25
  <2> QED
    BY <1>5, <1>10, <1>11, <2>1 DEF BusySame
<1> QED
  BY <1>1, <1>7, <1>13, <1>15, <1>16, <1>22, <1>27, <1>34, <1>35, <1>36, CtxChange

-----------------------------------------------------------------------------
(* Closing a session *)

\* destroy_session(): the reference to the context passes from the session to
\* the call.
LEMMA FreedStep ==
    ASSUME Inv, NEW t, Here(t), Top(t).pc \in {"unlink", "unlinked"}, NEW s, s = Top(t).s, sess[s].ref = 1,
           NEW W, \A u \in W : Asleep(u), Move(t, AfterDestroy(t), W),
           sess' = [sess EXCEPT ![s] = FreeSess],
           UNCHANGED <<ctx, tee_ctxes, siThread, siCount, dead>>
    PROVE  Inv'
<1>1. Facts
  BY InvFacts
<1>2. /\ Top(t) \in CallType /\ CallOK(Top(t)) /\ stack[t] # <<>> /\ stack \in Stacks /\ Place(t) \in Frames
      /\ Call[Place(t)] = Top(t)
  BY DEF Here
<1>3. Top(t).op = "close" /\ Uses(Top(t)) /\ ~Closing(Top(t)) /\ Top(t).c # None
  BY <1>2 DEF CallOK, CallType, InTa, Uses, Closing
<1>4. PICK c \in Ctxs : c = Top(t).c
  BY <1>2, <1>3 DEF CallType
<1>5. s \in Sessions /\ sess[s].live /\ sess[s].ctx = c /\ TypeOK
  BY <1>1, <1>2, <1>3, <1>4, UsedSession DEF UseOK, Facts
<1>6. /\ tee_ctxes \in Seq(Ctxs) /\ CtxOK /\ ListOK /\ InfoOK(c) /\ RefOK(c) /\ CtxNamed /\ None \notin Ctxs
  BY <1>1 DEF Facts, CtxOK, CtxInfo, CtxRefs
<1>7. FreeSess \in SessType /\ ~FreeSess.live /\ ~FreeSess.open
  BY DEF FreeSess, SessType
<1>8. /\ sess' \in [Sessions -> SessType] /\ sess'[s] = FreeSess
      /\ \A q \in Sessions \ {s} : sess'[q] = sess[q]
  BY <1>5, <1>7, SessSet
<1>9. PICK pc : pc = IF Top(t).busy THEN "clear" ELSE "drop"
  OBVIOUS
<1>10. /\ Move(t, Goto(t, pc), W) /\ pc \in Labels /\ pc = (IF pc \in DOMAIN Resume THEN Resume[pc] ELSE pc)
  BY <1>9, ResumeIs DEF AfterDestroy, Labels
<1>11. stack' \in Stacks
  BY <1>10, GotoStep
<1>12. PICK g \in CallType :
          /\ Changed(Place(t), g)
          /\ g.pc = pc /\ g.op = Top(t).op /\ g.s = Top(t).s /\ g.c = Top(t).c
          /\ g.owner = Top(t).owner /\ g.uuid = Top(t).uuid /\ (g.busy <=> Top(t).busy)
  BY <1>10, GotoStep
<1>13. CallOK(g) /\ ~Uses(g) /\ Closing(g) /\ g.pc \in {"clear", "drop"}
  BY <1>2, <1>3, <1>9, <1>12 DEF CallOK, CallType, InTa, Uses, Closing
<1>14. Local(s, Place(t))
  BY <1>2, <1>5, <1>8, <1>12, LocalChange
<1>15. SessOK'
  BY <1>1, <1>2, <1>3, <1>7, <1>8, <1>12, <1>13, <1>14, SessFreed DEF Facts
<1>16. PICK x : x = Place(t)
  OBVIOUS
<1>17. /\ x \in Frames /\ Frames' = Frames /\ Call'[x] = g /\ Call[x] = Top(t)
       /\ \A y \in Frames \ {x} : Call'[y] = Call[y]
  BY <1>2, <1>12, <1>16 DEF Changed
<1>18. TypeOK'
  BY <1>5, <1>8, <1>11 DEF TypeOK, Stacks
<1>19. ListOK' /\ InfoOK(c)'
  BY <1>6 DEF ListOK, InfoOK, Has
<1>20. \A d \in Ctxs \ {c} : SessionsOf(d)' = SessionsOf(d)
  BY <1>5, <1>7, <1>8 DEF SessionsOf
<1>21. SessionsOf(c)' = SessionsOf(c) \ {s} /\ s \in SessionsOf(c)
  BY <1>5, <1>7, <1>8 DEF SessionsOf
<1>22. ClosesOf(c)' = ClosesOf(c) \cup {x} /\ x \notin ClosesOf(c)
  <2>1. x \notin ClosesOf(c) /\ x \in ClosesOf(c)'
    BY <1>3, <1>4, <1>12, <1>13, <1>17 DEF ClosesOf, Closing
  <2>2. \A y \in Frames \ {x} : y \in ClosesOf(c)' <=> y \in ClosesOf(c)
    BY <1>17 DEF ClosesOf, Closing
  <2>3. ClosesOf(c) \subseteq Frames /\ ClosesOf(c)' \subseteq Frames
    BY <1>17 DEF ClosesOf
  <2> QED
    BY <2>1, <2>2, <2>3
<1>23. RefOK(c)'
  <2>1. IsFiniteSet(SessionsOf(c)) /\ IsFiniteSet(ClosesOf(c))
    BY <1>1, ConstantsAssumption, FS_Subset DEF SessionsOf, ClosesOf, Facts
  <2>2. /\ Cardinality(SessionsOf(c)') = Cardinality(SessionsOf(c)) - 1
        /\ Cardinality(ClosesOf(c)') = Cardinality(ClosesOf(c)) + 1
    <3>1. Cardinality(SessionsOf(c)') = Cardinality(SessionsOf(c)) - 1
      <4>1. Cardinality(SessionsOf(c) \ {s}) = Cardinality(SessionsOf(c)) - 1
        BY <1>21, <2>1, FS_RemoveElement
      <4> QED
        BY <1>21, <4>1
    <3>2. Cardinality(ClosesOf(c)') = Cardinality(ClosesOf(c)) + 1
      BY <1>22, <2>1, FS_AddElement
    <3> QED
      BY <3>1, <3>2
  <2>3. Cardinality(SessionsOf(c)) \in Nat /\ Cardinality(ClosesOf(c)) \in Nat
    BY <2>1, FS_CardinalityType
  <2>4. ctx[c].live /\ ctx[c].ref = Cardinality(SessionsOf(c)) + Cardinality(ClosesOf(c))
    BY <1>6, <1>21 DEF RefOK
  <2>5. ctx[c].ref = Cardinality(SessionsOf(c)') + Cardinality(ClosesOf(c)')
    BY <2>2, <2>3, <2>4
  <2> QED
    BY <2>4, <2>5 DEF RefOK
<1>24. Around(c, x)
  BY <1>4, <1>12, <1>17, <1>20 DEF Around
<1>25. \A y \in Frames \ {x} : Call[y].c = c => /\ CtxCall(Call[y], ctx'[c])
                                                /\ Call[y].pc \notin {"ldelf", "destroy"}
  <2>1. \A y \in Frames \ {x} : Call[y].c = c => Call[y].pc \notin {"ldelf", "destroy"}
    BY <1>1, <1>3, <1>4, <1>17, OthersOf
  <2> QED
    BY <1>6, <2>1 DEF CtxOK, CtxCalls
<1>26. CtxOK'
  <2>1. ctx[c].live
    BY <1>1, <1>3, <1>4, <1>17, UsedContext
  <2>2. Call'[x].c # None /\ CtxCall(Call'[x], ctx'[c]) /\ Call'[x].pc \notin {"ldelf", "destroy"}
    BY <1>3, <1>12, <1>13, <1>17, <2>1 DEF CtxCall
  <2> QED
    BY <1>6, <1>19, <1>23, <1>24, <1>25, <2>2, CtxLocal
<1>27. UuidsKept(Place(t)) /\ BusySame
  BY DEF UuidsKept, BusySame
<1> QED
  BY <1>11, <1>12, <1>13, <1>15, <1>18, <1>26, <1>27, CtxChange

\* tee_ta_unlink_session().
LEMMA UnlinkStep ==
    ASSUME Inv, NEW t \in Threads, Unlink(t)
    PROVE  Inv'
<1>1. Here(t) /\ Top(t).pc = "unlink"
  BY HereIs, ResumeIs DEF Unlink
<1>2. PICK s : s = Top(t).s
  OBVIOUS
<1>3. PICK W : W = WaitingFor("wait_lock", s)
  OBVIOUS
<1>4. \A u \in W : Asleep(u)
  BY <1>3, WakesSleepers, ResumeIs
<1>5. UNCHANGED <<ctx, tee_ctxes, siThread, siCount, dead>>
  BY DEF Unlink
<1>6. CASE sess[s].ref = 1
  <2>1. sess' = [sess EXCEPT ![s] = FreeSess] /\ Move(t, AfterDestroy(t), W)
    BY <1>2, <1>3, <1>6 DEF Unlink
  <2> QED
    BY <1>1, <1>2, <1>4, <1>5, <1>6, <2>1, FreedStep
<1>7. CASE sess[s].ref # 1
  <2>1. sess' = [sess EXCEPT ![s].unlink = TRUE] /\ Move(t, Goto(t, "wait_refc"), W)
    BY <1>2, <1>3, <1>7 DEF Unlink
  <2> QED
    BY <1>1, <1>2, <1>4, <1>5, <2>1, UnlinkWaits
<1> QED
  BY <1>6, <1>7

\* tee_ta_unlink_session(), woken from refc_cv.
LEMMA UnlinkedStep ==
    ASSUME Inv, NEW t \in Threads, Unlinked(t)
    PROVE  Inv'
<1>1. Here(t) /\ Top(t).pc = "unlinked" /\ Top(t).pc \in {"unlink", "unlinked"}
  BY HereIs, ResumeIs DEF Unlinked
<1>2. PICK s : s = Top(t).s
  OBVIOUS
<1>3. UNCHANGED <<ctx, tee_ctxes, siThread, siCount, dead>> /\ \A u \in {} : Asleep(u)
  BY DEF Unlinked
<1>4. CASE sess[s].ref = 1
  <2>1. sess' = [sess EXCEPT ![s] = FreeSess] /\ Move(t, AfterDestroy(t), {})
    BY <1>2, <1>4 DEF Unlinked
  <2>2. PICK W : W = {}
    OBVIOUS
  <2>3. (\A u \in W : Asleep(u)) /\ Move(t, AfterDestroy(t), W)
    BY <2>1, <2>2
  <2> QED
    BY <1>1, <1>2, <1>3, <1>4, <2>1, <2>3, FreedStep
<1>5. CASE sess[s].ref # 1
  <2>1. Quiet /\ Move(t, Goto(t, "wait_refc"), {})
    BY <1>2, <1>3, <1>5 DEF Unlinked, Quiet, Inv, TypeOK
  <2>2. MovesOn(Top(t), Resume["wait_refc"]) /\ "wait_refc" \in Labels /\ "wait_refc" \in DOMAIN Resume
    BY <1>1, ResumeIs DEF MovesOn, Labels
  <2> QED
    BY <1>1, <1>3, <2>1, <2>2, GoOnTo, ResumeIs
<1> QED
  BY <1>4, <1>5

\* The last section of tee_ta_close_session().
LEMMA DropContextStep ==
    ASSUME Inv, NEW t \in Threads, DropContext(t)
    PROVE  Inv'
<1>1. Here(t) /\ Top(t).pc = "drop" /\ Facts
  BY HereIs, ResumeIs, InvFacts DEF DropContext
<1>2. /\ Top(t) \in CallType /\ CallOK(Top(t)) /\ stack[t] # <<>> /\ stack \in Stacks /\ Place(t) \in Frames
      /\ Call[Place(t)] = Top(t)
  BY <1>1 DEF Here
<1>3. Top(t).op = "close" /\ ~Uses(Top(t)) /\ Closing(Top(t)) /\ Top(t).c # None /\ ~Top(t).busy
  BY <1>1, <1>2 DEF CallOK, CallType, InTa, Uses, Closing
<1>4. PICK c \in Ctxs : c = Top(t).c
  BY <1>2, <1>3 DEF CallType
<1>5. PICK x : x = Place(t)
  OBVIOUS
<1>6. x \in Frames /\ Call[x] = Top(t)
  BY <1>2, <1>5
<1>7. /\ TypeOK /\ tee_ctxes \in Seq(Ctxs) /\ CtxOK /\ ListOK /\ InfoOK(c) /\ RefOK(c) /\ CtxNamed /\ None \notin Ctxs
      /\ ctx \in [Ctxs -> CtxType] /\ ctx[c] \in CtxType /\ ctx[c].ref \in Nat
  BY <1>1, CtxTyped DEF Facts, TypeOK, CtxOK, CtxInfo, CtxRefs
<1>8. ctx[c].live /\ ctx[c].ref # 0
  BY <1>1, <1>3, <1>4, <1>6, UsedContext
<1>9. \A y \in Frames \ {x} : Call[y].c = c => CtxCall(Call[y], ctx[c]) /\ Call[y].pc \notin {"ldelf", "destroy"}
  <2>1. \A y \in Frames \ {x} : Call[y].c = c => Call[y].pc \notin {"ldelf", "destroy"}
    BY <1>1, <1>3, <1>4, <1>6, OthersOf
  <2> QED
    BY <1>7, <2>1 DEF CtxOK, CtxCalls
<1>10. /\ Cardinality(SessionsOf(c)) \in Nat /\ Cardinality(ClosesOf(c)) \in Nat
       /\ Cardinality(ClosesOf(c) \ {x}) = Cardinality(ClosesOf(c)) - 1
       /\ ctx[c].ref = Cardinality(SessionsOf(c)) + Cardinality(ClosesOf(c))
  <2>1. IsFiniteSet(SessionsOf(c)) /\ IsFiniteSet(ClosesOf(c))
    BY <1>1, ConstantsAssumption, FS_Subset DEF SessionsOf, ClosesOf, Facts
  <2>2. x \in ClosesOf(c)
    BY <1>3, <1>4, <1>6 DEF ClosesOf
  <2>3. Cardinality(SessionsOf(c)) \in Nat /\ Cardinality(ClosesOf(c)) \in Nat
    BY <2>1, FS_CardinalityType
  <2>4. Cardinality(ClosesOf(c) \ {x}) = Cardinality(ClosesOf(c)) - 1
    BY <2>1, <2>2, FS_RemoveElement
  <2> QED
    BY <1>7, <1>8, <2>3, <2>4 DEF RefOK
<1>11. UNCHANGED <<sess, siThread, siCount, dead>> /\ \A u \in {} : Asleep(u)
  BY DEF DropContext
<1>12. \A d \in Ctxs : SessionsOf(d)' = SessionsOf(d)
  BY <1>11 DEF SessionsOf
<1>13. CASE /\ ctx' = [ctx EXCEPT ![c].ref = 0, ![c].releasing = TRUE] /\ ctx[c].ref = 1
            /\ tee_ctxes' = Unlisted(c) /\ Move(t, Goto(t, "destroy"), {})
  <2>1. PICK k : k = [ctx[c] EXCEPT !.ref = 0, !.releasing = TRUE]
    OBVIOUS
  <2>2. /\ k \in CtxType /\ k.uuid = ctx[c].uuid /\ k.ref = 0
        /\ k.live <=> ctx[c].live
        /\ k.busy <=> ctx[c].busy
        /\ k.panicked <=> ctx[c].panicked
        /\ k.vm <=> ctx[c].vm
    BY <1>7, <2>1 DEF CtxType
  <2>3. ctx' \in [Ctxs -> CtxType] /\ ctx'[c] = k /\ \A d \in Ctxs \ {c} : ctx'[d] = ctx[d]
    BY <1>7, <1>13, <2>1, <2>2
  <2>4. /\ "destroy" \in Labels /\ "destroy" = (IF "destroy" \in DOMAIN Resume THEN Resume["destroy"] ELSE "destroy")
    BY ResumeIs DEF Labels
  <2>5. stack' \in Stacks
    BY <1>1, <1>11, <1>13, <2>4, GotoStep
  <2>6. PICK g \in CallType :
          /\ Changed(Place(t), g)
          /\ g.pc = "destroy" /\ g.op = Top(t).op /\ g.s = Top(t).s /\ g.c = Top(t).c
          /\ g.owner = Top(t).owner /\ g.uuid = Top(t).uuid /\ (g.busy <=> Top(t).busy)
    BY <1>1, <1>11, <1>13, <2>4, GotoStep
  <2>7. CallOK(g) /\ SameUse(Top(t), g) /\ ~Closing(g)
    BY <1>1, <1>2, <1>3, <2>6 DEF CallOK, CallType, InTa, SameUse, Uses, Locks, Closing
  <2>8. /\ Frames' = Frames /\ Call'[x] = g
        /\ \A y \in Frames \ {x} : Call'[y] = Call[y]
    BY <1>5, <2>6 DEF Changed
  <2>9. SessOK'
    BY <1>1, <1>2, <1>11, <2>6, <2>7, SessChanged DEF Facts
  <2>10. /\ ListOK' /\ tee_ctxes' \in Seq(Ctxs)
         /\ \A i \in DOMAIN tee_ctxes' : /\ tee_ctxes'[i] # c
                                         /\ \E j \in DOMAIN tee_ctxes : tee_ctxes[j] = tee_ctxes'[i]
    BY <1>7, <1>13, <2>3, ListWithout
  <2>11. TypeOK'
    BY <1>7, <1>11, <2>3, <2>5, <2>10 DEF TypeOK, Stacks
  <2>12. InfoOK(c)'
    BY <1>7, <2>2, <2>3 DEF InfoOK, Has
  <2>13. ClosesOf(c)' = ClosesOf(c) \ {x}
    BY <1>4, <1>6, <2>7, <2>8 DEF ClosesOf, Closing
  <2>14. RefOK(c)'
    <3>1. Cardinality(SessionsOf(c)') + Cardinality(ClosesOf(c)') = 0
      BY <1>10, <1>12, <1>13, <2>13
    <3> QED
      BY <1>8, <2>2, <2>3, <3>1 DEF RefOK
  <2>15. Around(c, x)
    BY <1>4, <1>6, <1>12, <2>3, <2>6, <2>8, <2>10 DEF Around
  <2>16. \A y \in Frames \ {x} : Call[y].c = c => /\ CtxCall(Call[y], ctx'[c])
                                                  /\ Call[y].pc \notin {"ldelf", "destroy"}
    BY <1>9, <2>2, <2>3 DEF CtxCall
  <2>17. CtxOK'
    <3>1. Call'[x].c # None /\ CtxCall(Call'[x], ctx'[c]) /\ Call'[x].pc = "destroy"
      BY <1>3, <1>8, <2>2, <2>3, <2>6, <2>8 DEF CtxCall
    <3>2. ctx'[c].ref = 0 /\ \A i \in DOMAIN tee_ctxes' : tee_ctxes'[i] # c
      BY <2>2, <2>3, <2>10
    <3> QED
      BY <1>7, <2>10, <2>12, <2>14, <2>15, <2>16, <3>1, <3>2, CtxLocal
  <2>18. UuidsKept(Place(t))
    BY <1>7, <2>2, <2>3 DEF UuidsKept, CtxNamed
  <2>19. BusySame
    BY <1>11, <2>2, <2>3 DEF BusySame
  <2> QED
    BY <1>1, <2>5, <2>6, <2>7, <2>9, <2>11, <2>17, <2>18, <2>19, CtxChange
<1>14. CASE ctx' = [ctx EXCEPT ![c].ref = @ - 1] /\ tee_ctxes' = tee_ctxes /\ Move(t, Return(t), {})
  <2>0. PICK n \in Nat : n = ctx[c].ref - 1
    BY <1>7, <1>8
  <2>1. PICK k : k = [ctx[c] EXCEPT !.ref = n]
    OBVIOUS
  <2>2. /\ k \in CtxType /\ k.uuid = ctx[c].uuid /\ k.ref = ctx[c].ref - 1
        /\ k.live <=> ctx[c].live
        /\ k.busy <=> ctx[c].busy
        /\ k.panicked <=> ctx[c].panicked
        /\ k.releasing <=> ctx[c].releasing
        /\ k.vm <=> ctx[c].vm
    BY <1>7, <2>0, <2>1 DEF CtxType
  <2>3. ctx' \in [Ctxs -> CtxType] /\ ctx'[c] = k /\ \A d \in Ctxs \ {c} : ctx'[d] = ctx[d]
    BY <1>7, <1>14, <2>0, <2>1, <2>2
  <2>4. stack' \in Stacks /\ Popped(Place(t))
    BY <1>2, <1>11, <1>14, ReturnPops
  <2>5. /\ Frames' = Frames \ {x}
        /\ \A y \in Frames \ {x} : Call'[y] = Call[y]
    BY <1>5, <2>4 DEF Popped
  <2>6. SessOK'
    BY <1>1, <1>2, <1>3, <1>11, <2>4, SessPopped DEF Facts
  <2>7. TypeOK'
    BY <1>7, <1>11, <1>14, <2>3, <2>4 DEF TypeOK, Stacks
  <2>8. ListOK'
    BY <1>7, <1>14, <2>2, <2>3 DEF ListOK
  <2>9. InfoOK(c)'
    BY <1>7, <2>2, <2>3 DEF InfoOK, Has
  <2>10. ClosesOf(c)' = ClosesOf(c) \ {x}
    BY <1>4, <1>6, <2>5 DEF ClosesOf, Closing
  <2>11. RefOK(c)'
    <3>1. ctx'[c].ref = Cardinality(SessionsOf(c)') + Cardinality(ClosesOf(c)')
      BY <1>10, <1>12, <2>2, <2>3, <2>10
    <3> QED
      BY <1>8, <2>2, <2>3, <3>1 DEF RefOK
  <2>12. Around(c, x)
    BY <1>4, <1>6, <1>12, <1>14, <2>3, <2>5 DEF Around
  <2>13. \A y \in Frames \ {x} : Call[y].c = c => /\ CtxCall(Call[y], ctx'[c])
                                                  /\ Call[y].pc \notin {"ldelf", "destroy"}
    BY <1>9, <2>2, <2>3 DEF CtxCall
  <2>14. CtxOK'
    <3>1. x \notin Frames'
      BY <2>5
    <3> QED
      BY <1>7, <2>8, <2>9, <2>11, <2>12, <2>13, <3>1, CtxLocal
  <2>15. UuidsKept(Place(t))
    BY <1>7, <2>2, <2>3 DEF UuidsKept, CtxNamed
  <2>16. BusySame
    BY <1>11, <2>2, <2>3 DEF BusySame
  <2> QED
    BY <1>1, <1>3, <2>4, <2>6, <2>7, <2>14, <2>15, <2>16, CtxReturn
<1> QED
  BY <1>4, <1>13, <1>14 DEF DropContext

\* A context that is being destroyed is known to no other call.
LEMMA DestroyedAlone ==
    ASSUME Facts, NEW x \in Frames, Call[x].pc = "destroy", NEW c \in Ctxs, c = Call[x].c
    PROVE  \A y \in Frames \ {x} : Call[y].c # c
<1>1. SUFFICES ASSUME NEW y \in Frames \ {x}, Call[y].c = c PROVE FALSE
  OBVIOUS
<1>2. CallOK(Call[y]) /\ Call[y] \in CallType /\ c # None
  BY DEF Facts, StackOK, CallTypes
<1>3. ctx[c].ref = 0 /\ Call[y].pc # "destroy"
  BY <1>1 DEF Facts, CtxOK, DestroyOK
<1>4. Uses(Call[y]) \/ Closing(Call[y])
  BY <1>1, <1>2, <1>3 DEF Uses, Closing, CallOK, CallType, InTa
<1> QED
  BY <1>1, <1>3, <1>4, UsedContext

\* destroy_context().
LEMMA DestroyContextStep ==
    ASSUME Inv, NEW t \in Threads, DestroyContext(t)
    PROVE  Inv'
<1>1. Here(t) /\ Top(t).pc = "destroy" /\ Facts
  BY HereIs, ResumeIs, InvFacts DEF DestroyContext
<1>2. /\ Top(t) \in CallType /\ CallOK(Top(t)) /\ stack[t] # <<>> /\ stack \in Stacks /\ Place(t) \in Frames
      /\ Call[Place(t)] = Top(t)
  BY <1>1 DEF Here
<1>3. Top(t).op = "close" /\ ~Uses(Top(t)) /\ ~Closing(Top(t)) /\ Top(t).c # None /\ ~Top(t).busy
  BY <1>1, <1>2 DEF CallOK, CallType, InTa, Uses, Closing
<1>4. PICK c \in Ctxs : c = Top(t).c
  BY <1>2, <1>3 DEF CallType
<1>5. PICK x : x = Place(t)
  OBVIOUS
<1>6. x \in Frames /\ Call[x] = Top(t)
  BY <1>2, <1>5
<1>7. /\ TypeOK /\ tee_ctxes \in Seq(Ctxs) /\ CtxOK /\ ListOK /\ RefOK(c) /\ CtxNamed /\ None \notin Ctxs
      /\ ctx \in [Ctxs -> CtxType]
  BY <1>1 DEF Facts, TypeOK, CtxOK, CtxRefs
<1>8. /\ ctx' = [ctx EXCEPT ![c] = FreeCtx] /\ Move(t, Return(t), {}) /\ \A u \in {} : Asleep(u)
      /\ UNCHANGED <<sess, tee_ctxes, siThread, siCount, dead>>
  BY <1>4 DEF DestroyContext
<1>9. FreeCtx \in CtxType /\ ~FreeCtx.live /\ ~FreeCtx.busy
  BY DEF CtxType, FreeCtx
<1>10. ctx' \in [Ctxs -> CtxType] /\ ctx'[c] = FreeCtx /\ \A d \in Ctxs \ {c} : ctx'[d] = ctx[d]
  BY <1>7, <1>8, <1>9
<1>11. stack' \in Stacks /\ Popped(Place(t))
  BY <1>2, <1>8, ReturnPops
<1>12. /\ Frames' = Frames \ {x}
       /\ \A y \in Frames \ {x} : Call'[y] = Call[y]
  BY <1>5, <1>11 DEF Popped
<1>13. SessOK'
  BY <1>1, <1>2, <1>3, <1>8, <1>11, SessPopped DEF Facts
<1>14. \A y \in Frames \ {x} : Call[y].c # c
  BY <1>1, <1>4, <1>6, DestroyedAlone
<1>15. /\ ctx[c].live /\ ctx[c].ref = 0 /\ \A i \in DOMAIN tee_ctxes : tee_ctxes[i] # c
  BY <1>1, <1>4, <1>6, <1>7 DEF CtxOK, DestroyOK, CtxCalls, CtxCall
<1>16. TypeOK'
  BY <1>7, <1>8, <1>10, <1>11 DEF TypeOK, Stacks
<1>17. ListOK'
  BY <1>7, <1>8, <1>10, <1>15 DEF ListOK
<1>18. InfoOK(c)'
  BY <1>9, <1>10 DEF InfoOK
<1>19. \A d \in Ctxs : SessionsOf(d)' = SessionsOf(d)
  BY <1>8 DEF SessionsOf
<1>20. ClosesOf(c)' = {}
  BY <1>12, <1>14 DEF ClosesOf
<1>21. SessionsOf(c) = {}
  <2>1. IsFiniteSet(SessionsOf(c)) /\ IsFiniteSet(ClosesOf(c))
    BY <1>1, ConstantsAssumption, FS_Subset DEF SessionsOf, ClosesOf, Facts
  <2>2. Cardinality(SessionsOf(c)) \in Nat /\ Cardinality(ClosesOf(c)) \in Nat
    BY <2>1, FS_CardinalityType
  <2>3. Cardinality(SessionsOf(c)) = 0
    BY <1>7, <1>15, <2>2 DEF RefOK
  <2> QED
    BY <2>1, <2>3, FS_EmptySet
<1>22. RefOK(c)'
  BY <1>9, <1>10, <1>19, <1>20, <1>21 DEF RefOK
<1>23. Around(c, x)
  BY <1>4, <1>6, <1>8, <1>10, <1>12, <1>19 DEF Around
<1>24. CtxOK'
  <2>1. x \notin Frames'
    BY <1>12
  <2>2. \A y \in Frames \ {x} : Call[y].c = c => /\ CtxCall(Call[y], ctx'[c])
                                                 /\ Call[y].pc \notin {"ldelf", "destroy"}
    BY <1>14
  <2> QED
    BY <1>7, <1>17, <1>18, <1>22, <1>23, <2>1, <2>2, CtxLocal
<1>25. UuidsKept(Place(t))
  BY <1>5, <1>7, <1>10, <1>14 DEF UuidsKept, CtxNamed
<1>26. BusySame
  <2>1. \A y \in Frames : Call[y].c = c => ~Call[y].busy
    BY <1>3, <1>6, <1>14
  <2> QED
    BY <1>8, <1>9, <1>10, <2>1 DEF BusySame
<1> QED
  BY <1>1, <1>3, <1>11, <1>13, <1>16, <1>24, <1>25, <1>26, CtxReturn

-----------------------------------------------------------------------------
(* The invariant *)

\* The invariant holds at the start.
LEMMA InitInv == Init => Inv
<1>1. SUFFICES ASSUME Init PROVE Inv
  OBVIOUS
<1>2. FreeSess \in SessType /\ ~FreeSess.live /\ ~FreeSess.open
  BY DEF FreeSess, SessType
<1>3. FreeCtx \in CtxType /\ ~FreeCtx.live /\ ~FreeCtx.busy
  BY DEF FreeCtx, CtxType
<1>4. TypeOK
  <2>1. <<>> \in Seq(Ctxs) /\ <<>> \in Seq(CallType)
    OBVIOUS
  <2> QED
    BY <1>1, <1>2, <1>3, <2>1 DEF Init, TypeOK
<1>5. Frames = {}
  BY <1>1 DEF Init, Frames
<1>6. IsFiniteSet(Frames) /\ Cardinality({}) = 0
  BY <1>5, FS_EmptySet
<1>7. StackOK
  BY <1>5, <1>6 DEF StackOK
<1>8. SessOK
  BY <1>1, <1>2, <1>5 DEF Init, SessOK, UsesOK, AloneOK, OpenOK, HandleOK, SessRefs
<1>9. \A c \in Ctxs : SessionsOf(c) = {} /\ ClosesOf(c) = {} /\ ~ctx[c].live
  BY <1>1, <1>2, <1>3, <1>5 DEF Init, SessionsOf, ClosesOf
<1>10. CtxOK
  <2>1. CtxInfo /\ CtxRefs
    BY <1>9 DEF CtxInfo, InfoOK, CtxRefs, RefOK
  <2>2. CtxCalls /\ LoadOK /\ DestroyOK
    BY <1>5 DEF CtxCalls, LoadOK, DestroyOK
  <2>3. ListOK
    BY <1>1 DEF Init, ListOK
  <2> QED
    BY <2>1, <2>2, <2>3 DEF CtxOK
<1>11. BusyOK
  BY <1>1, <1>3, <1>5 DEF Init, BusyOK
<1>12. SiOK
  <2>1. SiCalls = {}
    BY <1>5 DEF SiCalls
  <2> QED
    BY <1>1, <1>6, <2>1 DEF Init, SiOK
<1> QED
  BY <1>4, <1>7, <1>8, <1>10, <1>11, <1>12 DEF Inv

\* Every step of the manager keeps it.
LEMMA StepInv ==
    ASSUME Inv, NEW t \in Threads, Step(t)
    PROVE  Inv'
<1>1. OpenSession(t) \/ OpenNoMemory(t) \/ FindAgain(t) \/ LoadTa(t) \/ LoadNoMemory(t)
      \/ Initialized(t) \/ LoadFails(t) \/ UndoOpen(t) => Inv'
  BY OpenSessionStep, OpenNoMemoryStep, FindAgainStep, LoadTaStep, LoadNoMemoryStep,
     InitializedStep, LoadFailsStep, UndoOpenStep
<1>2. SetBusyConcurrent(t) \/ WaitSingleInstance(t) \/ RefuseBusy(t) \/ WaitBusy(t) \/ SetBusy(t) \/ ClearBusy(t)
      => Inv'
  BY SetBusyConcurrentStep, WaitSingleInstanceStep, RefuseBusyStep, WaitBusyStep, SetBusyStep, ClearBusyStep
<1>3. EnterTa(t) \/ TaReturns(t) \/ TaPanics(t) \/ LeaveTa(t) \/ ReleaseSession(t) \/ ReleaseState(t) => Inv'
  BY EnterTaStep, TaReturnsStep, TaPanicsStep, LeaveTaStep, ReleaseSessionStep, ReleaseStateStep
<1>4. GetSession(t) \/ Relock(t) \/ GotSession(t) \/ PutSession(t) \/ Unlink(t) \/ Unlinked(t)
      \/ DropContext(t) \/ DestroyContext(t) => Inv'
  BY GetSessionStep, RelockStep, GotSessionStep, PutSessionStep, UnlinkStep, UnlinkedStep,
     DropContextStep, DestroyContextStep
<1> QED
  BY <1>1, <1>2, <1>3, <1>4 DEF Step

\* Every step keeps it.
LEMMA NextInv == Inv /\ [Next]_vars => Inv'
<1>1. ASSUME Inv, UNCHANGED vars PROVE Inv'
  BY <1>1, Halt DEF vars, Quiet, Inv, TypeOK
<1>2. ASSUME Inv, NEW t \in Threads, NormalWorldCalls(t) \/ TaCalls(t) \/ Step(t) PROVE Inv'
  BY <1>2, NormalWorldStep, TaCallsStep, StepInv
<1> QED
  BY <1>1, <1>2 DEF Next, Panicked

\* The inductive invariant: who may name, use, lock and count each session and
\* each context at every place of the code.
THEOREM Invariant == Spec => []Inv
BY InitInv, NextInv, PTL DEF Spec

\* The type invariant of the manager: the reference counts never go below zero,
\* so no put, close or failed open drops a reference twice.
THEOREM TypeCorrect == Spec => []TypeOK
<1>1. Inv => TypeOK
  BY DEF Inv
<1> QED
  BY <1>1, Invariant, PTL

\* What the calls are, in terms of their records.
LEMMA CallFields ==
    ASSUME Inv, NEW x \in Frames
    PROVE  /\ F(x) \in CallType /\ Call[x].op = F(x).op /\ Call[x].s = F(x).s /\ Call[x].c = F(x).c
           /\ Call[x].busy <=> F(x).busy
           /\ Call[x].pc = IF F(x).pc \in DOMAIN Resume THEN Resume[F(x).pc] ELSE F(x).pc
<1>1. F(x) \in CallType /\ Call[x] = Norm(F(x))
  BY FramePairs, InvFacts DEF Facts
<1> QED
  BY <1>1, NormIs

\* The calls in a context, in terms of the invariant.
LEMMA InsideIs ==
    ASSUME Inv, NEW c
    PROVE  Inside(c) = {x \in Frames : Call[x].busy /\ Call[x].c = c}
BY CallFields DEF Inside

\* ctx->busy is set exactly when a call is in the TA, and a TA that is not
\* concurrent never runs two, for any number of threads, sessions and TAs.
THEOREM BusyCorrect == Spec => []BusyExclusion
<1>1. ASSUME Inv PROVE BusyExclusion
  <2>1. ASSUME NEW c \in Ctxs, ctx[c].live, ~Has(c, "CONCURRENT")
        PROVE  Cardinality(Inside(c)) <= 1 /\ (ctx[c].busy <=> Inside(c) # {})
    <3>1. Inside(c) = {x \in Frames : Call[x].busy /\ Call[x].c = c}
      BY <1>1, InsideIs
    <3>2. \A x, y \in Inside(c) : x = y
      BY <1>1, <2>1, <3>1 DEF Inv, BusyOK
    <3>3. ctx[c].busy <=> Inside(c) # {}
      BY <1>1, <2>1, <3>1 DEF Inv, BusyOK
    <3>4. CASE Inside(c) = {}
      BY <3>3, <3>4, FS_EmptySet
    <3>5. CASE Inside(c) # {}
      <4>1. PICK x : Inside(c) = {x}
        BY <3>2, <3>5
      <4> QED
        BY <3>3, <4>1, FS_Singleton
    <3> QED
      BY <3>4, <3>5
  <2> QED
    BY <2>1 DEF BusyExclusion
<1> QED
  BY <1>1, Invariant, PTL

\* tee_ta_single_instance_count counts the calls in single-instance TAs, and
\* tee_ta_single_instance_thread makes all of them.
THEOREM LockCorrect == Spec => []SingleInstanceLock
<1>1. ASSUME Inv PROVE SingleInstanceLock
  <2>1. PICK X : X = UNION {Inside(c) : c \in {d \in Ctxs : /\ ctx[d].live
                                                            /\ NeedsSiLock(d)
                                                            /\ ~Has(d, "CONCURRENT")}}
    OBVIOUS
  <2>2. \A x \in Frames : Call[x].busy => Call[x].c \in Ctxs /\ ctx[Call[x].c].live
    BY <1>1, InvFacts DEF Facts, BusyNamed, CtxOK, CtxCalls, CtxCall
  <2>3. X = SiCalls
    BY <1>1, <2>1, <2>2, InsideIs DEF SiCalls, SiCall
  <2> QED
    BY <1>1, <2>1, <2>3 DEF Inv, SiOK, SingleInstanceLock
<1> QED
  BY <1>1, Invariant, PTL

\* The calls that hold a reference to a session, in terms of the invariant.
LEMMA HoldsRefIs ==
    ASSUME Inv, NEW x \in Frames, NEW s \in Sessions
    PROVE  HoldsRef(x, s) <=> Uses(Call[x]) /\ Call[x].s = s
<1>1. /\ F(x) \in CallType /\ Call[x].op = F(x).op /\ Call[x].s = F(x).s
      /\ Call[x].pc = IF F(x).pc \in DOMAIN Resume THEN Resume[F(x).pc] ELSE F(x).pc
  BY CallFields
<1>2. Call[x].s = s => Call[x].pc # "open"
  <2>1. CallOK(Call[x]) /\ s # None
    BY InvFacts DEF Facts, StackOK
  <2> QED
    BY <2>1 DEF CallOK
<1> QED
  BY <1>1, <1>2, ResumeIs DEF HoldsRef, Uses

\* The reference count of a session is the number of calls that use it:
\* tee_ta_unlink_session() never frees a session under a call.
THEOREM SessionRefsCorrect == Spec => []SessionRefs
<1>1. ASSUME Inv PROVE SessionRefs
  <2>1. ASSUME NEW s \in Sessions
        PROVE  LET n == Cardinality({x \in Frames : HoldsRef(x, s)})
               IN  IF sess[s].live THEN sess[s].ref = n ELSE n = 0
    <3>1. {x \in Frames : HoldsRef(x, s)} = UsersOf(s)
      BY <1>1, HoldsRefIs DEF UsersOf
    <3>2. CASE sess[s].live
      BY <1>1, <3>1, <3>2 DEF Inv, SessOK, SessRefs
    <3>3. CASE ~sess[s].live
      <4>1. UsersOf(s) = {}
        BY <1>1, <3>3 DEF Inv, SessOK, UsesOK, UseOK, UsersOf
      <4> QED
        BY <3>1, <3>3, <4>1, FS_EmptySet
    <3> QED
      BY <3>2, <3>3
  <2> QED
    BY <2>1 DEF SessionRefs
<1> QED
  BY <1>1, Invariant, PTL

\* The reference count of a context is the number of its sessions and of the
\* closes on their way to drop it, and every call that names a context finds it
\* allocated.
THEOREM ContextRefsCorrect == Spec => []ContextRefs
<1>1. ASSUME Inv PROVE ContextRefs
  <2>1. ASSUME NEW c \in Ctxs
        PROVE  LET users == {s \in Sessions : sess[s].live /\ sess[s].ctx = c}
                   closing == {x \in Frames : /\ F(x).op = "close" /\ F(x).c = c
                                              /\ F(x).pc \in {"clear", "drop"}}
                   n == Cardinality(users) + Cardinality(closing)
               IN  /\ IF ctx[c].live THEN ctx[c].ref = n ELSE n = 0
                   /\ \A x \in Frames : (F(x).c = c /\ F(x).pc # "put") => ctx[c].live
    <3>1. {x \in Frames : F(x).op = "close" /\ F(x).c = c /\ F(x).pc \in {"clear", "drop"}} = ClosesOf(c)
      <4>1. ASSUME NEW x \in Frames
            PROVE  (F(x).op = "close" /\ F(x).c = c /\ F(x).pc \in {"clear", "drop"})
                      <=> (Closing(Call[x]) /\ Call[x].c = c)
        BY <1>1, CallFields, ResumeIs DEF Closing
      <4> QED
        BY <4>1 DEF ClosesOf
    <3>2. RefOK(c)
      BY <1>1 DEF Inv, CtxOK, CtxRefs
    <3>3. \A x \in Frames : F(x).c = c => ctx[c].live
      BY <1>1, CallFields, InvFacts DEF Facts, CtxOK, CtxCalls, CtxCall
    <3>4. IF ctx[c].live THEN ctx[c].ref = Cardinality(SessionsOf(c)) + Cardinality(ClosesOf(c))
          ELSE Cardinality(SessionsOf(c)) + Cardinality(ClosesOf(c)) = 0
      BY <3>2, FS_EmptySet DEF RefOK
    <3> QED
      BY <3>1, <3>3, <3>4 DEF SessionsOf
  <2> QED
    BY <2>1 DEF ContextRefs
<1> QED
  BY <1>1, Invariant, PTL

\* tee_ctxes holds no context that is freed or released.
THEOREM ListCorrect == Spec => []ListedIsUsable
<1>1. Inv => ListedIsUsable
  BY DEF Inv, CtxOK, ListOK, ListedIsUsable
<1> QED
  BY <1>1, Invariant, PTL

\* No code of a TA runs once release_utc_state() has freed its mappings.
THEOREM ReleaseCorrect == Spec => []ReleasedNeverRuns
<1>1. ASSUME Inv PROVE ReleasedNeverRuns
  <2>1. ASSUME NEW x \in Frames, F(x).pc = "body", ctx[F(x).c].uuid \notin Pseudo
        PROVE  ctx[F(x).c].vm
    <3>1. Call[x].pc = "body" /\ Call[x].c = F(x).c
      BY <1>1, <2>1, CallFields, ResumeIs
    <3> QED
      BY <1>1, <2>1, <3>1, InvFacts DEF Facts, CtxNamed, CtxOK, CtxCalls, CtxCall
  <2> QED
    BY <2>1 DEF ReleasedNeverRuns
<1> QED
  BY <1>1, Invariant, PTL
=============================================================================
