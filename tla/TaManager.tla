----------------------------- MODULE TaManager ------------------------------
(***************************************************************************)
(* Sessions and contexts of trusted applications                           *)
(* (core/kernel/tee_ta_manager.c), with the callers that drive them: the   *)
(* entries from normal world (core/tee/entry_std.c), the system calls of a *)
(* TA that is itself a client (core/tee/tee_svc.c), and the loading, entry *)
(* and release of user and pseudo TAs (core/kernel/user_ta.c,              *)
(* core/kernel/pseudo_ta.c).                                               *)
(*                                                                         *)
(* One step is one section of tee_ta_mutex, or one stretch of code outside *)
(* it that touches shared state.  A condvar_wait() ends a step: the thread *)
(* moves to a wait label and a signal moves it on.  A signal wakes any one *)
(* of the waiters, which allows more than the order the wait queue keeps.  *)
(*                                                                         *)
(* A thread is a stack of calls, the top one running: a TA in user mode    *)
(* may call other TAs, and closing a context closes the sessions it owns.  *)
(*                                                                         *)
(* Clients follow their contract: they name sessions they have opened,     *)
(* close each one once, and an identifier is not given out again while a   *)
(* late call still names the closed session (new_session_id() avoids the   *)
(* identifiers in use, and that of the last session of the list).          *)
(***************************************************************************)
EXTENDS Integers, Sequences, FiniteSets

CONSTANTS Threads,          \* threads of OP-TEE core
          Sessions,         \* memory for struct tee_ta_session
          Ctxs,             \* memory for struct tee_ta_ctx
          Uuids,            \* the TAs of the system
          Pseudo,           \* the pseudo TAs among them
          Flags,            \* [Uuids -> SUBSET FlagNames]: TA properties
          Callers,          \* the user TAs that are clients of other TAs
          MaxRecursion,     \* CFG_CORE_MAX_SYSCALL_RECURSION
          ConcurrentSI,     \* CFG_CONCURRENT_SINGLE_INSTANCE_TA
          None              \* THREAD_ID_INVALID, NULL, and normal world as owner

FlagNames == {"SINGLE_INSTANCE", "MULTI_SESSION", "KEEP_ALIVE", "CONCURRENT"}

\* verify_pseudo_tas_conformance(), and TA_FLAG_CONCURRENT is for pseudo TAs.
ASSUME FlagsAssumption ==
    /\ Flags \in [Uuids -> SUBSET FlagNames]
    /\ Pseudo \subseteq Uuids
    /\ \A u \in Pseudo : {"SINGLE_INSTANCE", "MULTI_SESSION", "KEEP_ALIVE"} \subseteq Flags[u]
    /\ \A u \in Uuids \ Pseudo : "CONCURRENT" \notin Flags[u]
    /\ Callers \subseteq Uuids \ Pseudo
    /\ MaxRecursion \in Nat
    /\ ConcurrentSI \in BOOLEAN

\* The heap is finite, and None is none of the objects.
ASSUME ConstantsAssumption ==
    /\ IsFiniteSet(Sessions)
    /\ None \notin Threads \cup Sessions \cup Ctxs \cup Uuids

VARIABLES
    sess,       \* struct tee_ta_session
    ctx,        \* struct tee_ta_ctx
    tee_ctxes,  \* the list of contexts
    siThread,   \* tee_ta_single_instance_thread
    siCount,    \* tee_ta_single_instance_count
    stack,      \* the calls each thread is in, innermost last
    dead        \* panic() of OP-TEE core: nothing runs any more

vars == <<sess, ctx, tee_ctxes, siThread, siCount, stack, dead>>

\* A session that is not allocated.  "owner" is the context whose
\* open_sessions list holds it, None for tee_open_sessions; "open" says that
\* its client was given the identifier and has not closed it.
FreeSess == [live |-> FALSE, owner |-> None, ctx |-> None, ref |-> 0,
             lock |-> None, unlink |-> FALSE, open |-> FALSE]

\* A context that is not allocated.  "vm" says that its user mappings exist.
FreeCtx == [live |-> FALSE, uuid |-> None, ref |-> 0, busy |-> FALSE,
            panicked |-> FALSE, releasing |-> FALSE, initializing |-> FALSE,
            vm |-> FALSE]

Init ==
    /\ sess = [s \in Sessions |-> FreeSess]
    /\ ctx = [c \in Ctxs |-> FreeCtx]
    /\ tee_ctxes = <<>>
    /\ siThread = None
    /\ siCount = 0
    /\ stack = [t \in Threads |-> <<>>]
    /\ dead = FALSE

Has(c, flag) == flag \in Flags[ctx[c].uuid]

\* The list of contexts after TAILQ_REMOVE() of c, which it may not have.
Unlisted(c) ==
    IF \E i \in DOMAIN tee_ctxes : tee_ctxes[i] = c
      THEN LET i == CHOOSE j \in DOMAIN tee_ctxes : tee_ctxes[j] = c
           IN  SubSeq(tee_ctxes, 1, i - 1) \o SubSeq(tee_ctxes, i + 1, Len(tee_ctxes))
      ELSE tee_ctxes

-----------------------------------------------------------------------------
(* Calls and condition variables *)

\* A call: the function, where it is in it, its session and context, the
\* owner of the list it looks in, the TA to open, whether it is in the TA
\* (tee_ta_try_set_busy() was successful) and, for an open, its result so far,
\* which stays FALSE in the tee_ta_close_session() that ends a failed open.
Frame(op, pc, s, owner, uuid) ==
    [op |-> op, pc |-> pc, s |-> s, c |-> None, owner |-> owner, uuid |-> uuid,
     busy |-> FALSE, ok |-> TRUE]

\* All the calls under way, and the call at one of these places.
Frames == UNION {{<<t, i>> : i \in DOMAIN stack[t]} : t \in Threads}
F(x) == stack[x[1]][x[2]]

Runs(t) == stack[t] # <<>> /\ ~dead
Top(t) == stack[t][Len(stack[t])]
At(t, pc) == Runs(t) /\ Top(t).pc = pc

With(t, f) == [stack[t] EXCEPT ![Len(stack[t])] = f]
Goto(t, pc) == With(t, [Top(t) EXCEPT !.pc = pc])
Return(t) == SubSeq(stack[t], 1, Len(stack[t]) - 1)

\* Where a thread goes on when it is woken: it tests its condition again.
Resume == [wait_init |-> "find", wait_si |-> "set_busy", wait_busy |-> "set_busy",
           wait_lock |-> "relock", wait_refc |-> "unlinked"]

Waiting(label) == {t \in Threads : stack[t] # <<>> /\ Top(t).pc = label}
WaitingFor(label, o) ==
    {t \in Waiting(label) : o = IF label = "wait_busy" THEN Top(t).c ELSE Top(t).s}

\* condvar_signal(): the sets of threads it may wake.
OneOf(S) == IF S = {} THEN {{}} ELSE {{t} : t \in S}

\* Thread t goes on with the calls of st, the threads of W are woken.
Move(t, st, W) ==
    stack' = [u \in Threads |->
                 IF u = t THEN st
                 ELSE IF u \in W
                 THEN [stack[u] EXCEPT ![Len(stack[u])].pc = Resume[@]]
                 ELSE stack[u]]

-----------------------------------------------------------------------------
(* tee_ta_init_session() *)

\* tee_ta_context_find(): the first context of the TA in the list.
Found(uuid) ==
    {i \in DOMAIN tee_ctxes :
        /\ ctx[tee_ctxes[i]].uuid = uuid
        /\ \A j \in 1 .. i - 1 : ctx[tee_ctxes[j]].uuid # uuid}

\* tee_ta_init_session_with_context(), from the session in table S: wait for a
\* context being initialized, share a single instance, refuse a second session,
\* or load a new instance.
InitWithContext(t, f, S) ==
    \/ /\ \A i \in Found(f.uuid) : /\ ~ctx[tee_ctxes[i]].initializing
                                   /\ "SINGLE_INSTANCE" \notin Flags[f.uuid]
       /\ Move(t, With(t, [f EXCEPT !.pc = "load"]), {})
       /\ sess' = S
       /\ UNCHANGED ctx
    \/ \E i \in Found(f.uuid) :
          LET c == tee_ctxes[i] IN
          \/ /\ ctx[c].initializing
             /\ Move(t, With(t, [f EXCEPT !.pc = "wait_init"]), {})
             /\ sess' = S
             /\ UNCHANGED ctx
          \/ /\ ~ctx[c].initializing
             /\ Has(c, "SINGLE_INSTANCE")
             /\ IF ~Has(c, "MULTI_SESSION") /\ ctx[c].ref # 0
                  THEN /\ Move(t, With(t, [f EXCEPT !.pc = "undo"]), {})
                       /\ sess' = S
                       /\ UNCHANGED ctx
                  ELSE /\ Move(t, With(t, [f EXCEPT !.pc = "set_busy", !.c = c]), {})
                       /\ sess' = [S EXCEPT ![f.s].ctx = c]
                       /\ ctx' = [ctx EXCEPT ![c].ref = @ + 1]

\* The first section of tee_ta_init_session(): a new session in its owner's
\* list, then the search for its context.  The caller is the call below, or
\* normal world.
OpenSession(t) ==
    /\ At(t, "open")
    /\ \E s \in Sessions :
          /\ ~sess[s].live
          /\ \A x \in Frames : F(x).s # s
          /\ InitWithContext(t, [Top(t) EXCEPT !.s = s],
                 [sess EXCEPT ![s] = [FreeSess EXCEPT !.live = TRUE, !.ref = 1,
                                                      !.owner = Top(t).owner]])
    /\ UNCHANGED <<tee_ctxes, siThread, siCount, dead>>

\* calloc() of the session fails.
OpenNoMemory(t) ==
    /\ At(t, "open")
    /\ Move(t, Return(t), {})
    /\ UNCHANGED <<sess, ctx, tee_ctxes, siThread, siCount, dead>>

\* Woken from tee_ta_init_cv: look for the context again.
FindAgain(t) ==
    /\ At(t, "find")
    /\ InitWithContext(t, Top(t), sess)
    /\ UNCHANGED <<tee_ctxes, siThread, siCount, dead>>

\* tee_ta_init_user_ta_session() up to ldelf, or the whole of
\* tee_ta_init_pseudo_ta_session(): a new context at the tail of the list.
LoadTa(t) ==
    /\ At(t, "load")
    /\ LET user == Top(t).uuid \notin Pseudo IN
       \E c \in Ctxs :
          /\ ~ctx[c].live
          /\ ctx' = [ctx EXCEPT ![c] = [FreeCtx EXCEPT !.live = TRUE, !.ref = 1,
                         !.uuid = Top(t).uuid, !.initializing = user, !.vm = user]]
          /\ sess' = [sess EXCEPT ![Top(t).s].ctx = c]
          /\ tee_ctxes' = Append(tee_ctxes, c)
          /\ Move(t, With(t, [Top(t) EXCEPT !.c = c, !.pc = IF user THEN "ldelf" ELSE "set_busy"]), {})
    /\ UNCHANGED <<siThread, siCount, dead>>

\* calloc() of the context fails.
LoadNoMemory(t) ==
    /\ At(t, "load")
    /\ Move(t, Goto(t, "undo"), {})
    /\ UNCHANGED <<sess, ctx, tee_ctxes, siThread, siCount, dead>>

\* ldelf has loaded the TA: the context is ready, the threads that wait for it
\* look again.
Initialized_NoBroadcast(t) ==
    /\ At(t, "ldelf")
    /\ ctx' = [ctx EXCEPT ![Top(t).c].initializing = FALSE]
    /\ Move(t, Goto(t, "set_busy"), {})
    /\ UNCHANGED <<sess, tee_ctxes, siThread, siCount, dead>>

Initialized(t) ==
    /\ At(t, "ldelf")
    /\ ctx' = [ctx EXCEPT ![Top(t).c].initializing = FALSE]
    /\ Move(t, Goto(t, "set_busy"), Waiting("wait_init"))
    /\ UNCHANGED <<sess, tee_ctxes, siThread, siCount, dead>>

\* ldelf has failed: the context is taken out of the list and freed (it owns
\* no session).
LoadFails(t) ==
    /\ At(t, "ldelf")
    /\ ctx' = [ctx EXCEPT ![Top(t).c] = FreeCtx]
    /\ sess' = [sess EXCEPT ![Top(t).s].ctx = None]
    /\ tee_ctxes' = Unlisted(Top(t).c)
    /\ Move(t, With(t, [Top(t) EXCEPT !.pc = "undo", !.c = None]),
            Waiting("wait_init"))
    /\ UNCHANGED <<siThread, siCount, dead>>

\* The last section of tee_ta_init_session() after an error.
UndoOpen(t) ==
    /\ At(t, "undo")
    /\ sess' = [sess EXCEPT ![Top(t).s] = FreeSess]
    /\ Move(t, Return(t), {})
    /\ UNCHANGED <<ctx, tee_ctxes, siThread, siCount, dead>>

-----------------------------------------------------------------------------
(* tee_ta_try_set_busy() and tee_ta_clear_busy() *)

\* The call has the TA to itself.
Entered(t) == With(t, [Top(t) EXCEPT !.pc = "enter", !.busy = TRUE])

\* What tee_ta_try_set_busy() returning false means: TEE_ERROR_BUSY for
\* tee_ta_open_session(), panic() in tee_ta_set_busy() for the others.
Refused(t) ==
    IF Top(t).op = "open"
      THEN /\ Move(t, With(t, [Top(t) EXCEPT !.pc = "put", !.ok = FALSE]), {})
           /\ UNCHANGED dead
      ELSE /\ dead' = TRUE
           /\ UNCHANGED stack

\* The TA whose calls take the single-instance lock.
NeedsSiLock(c) == ~ConcurrentSI /\ Has(c, "SINGLE_INSTANCE")

\* lock_single_instance() does not have to wait.
SiLockFree_Always(t, c) == TRUE

SiLockFree(t, c) == NeedsSiLock(c) => siThread \in {None, t}

\* has_single_instance_lock() after lock_single_instance().
HasSiLock_Never(t, c) == FALSE

HasSiLock(t, c) == NeedsSiLock(c) \/ siThread = t

\* tee_ta_try_set_busy() of a concurrent TA.
SetBusyConcurrent(t) ==
    /\ At(t, "set_busy")
    /\ Has(Top(t).c, "CONCURRENT")
    /\ Move(t, Entered(t), {})
    /\ UNCHANGED <<sess, ctx, tee_ctxes, siThread, siCount, dead>>

\* lock_single_instance() waits for tee_ta_cv.
WaitSingleInstance(t) ==
    /\ At(t, "set_busy")
    /\ ~Has(Top(t).c, "CONCURRENT")
    /\ ~SiLockFree(t, Top(t).c)
    /\ Move(t, Goto(t, "wait_si"), {})
    /\ UNCHANGED <<sess, ctx, tee_ctxes, siThread, siCount, dead>>

\* The thread has the single-instance lock and the TA is busy: waiting would
\* be a deadlock.  The lock just counted is given back.
RefuseBusy(t) ==
    /\ At(t, "set_busy")
    /\ LET c == Top(t).c
       IN  ~Has(c, "CONCURRENT") /\ SiLockFree(t, c) /\ HasSiLock(t, c) /\ ctx[c].busy
    /\ Refused(t)
    /\ UNCHANGED <<sess, ctx, tee_ctxes, siThread, siCount>>

\* Without that lock the thread waits for busy_cv.
WaitBusy(t) ==
    /\ At(t, "set_busy")
    /\ LET c == Top(t).c
       IN  ~Has(c, "CONCURRENT") /\ SiLockFree(t, c) /\ ~HasSiLock(t, c) /\ ctx[c].busy
    /\ Move(t, Goto(t, "wait_busy"), {})
    /\ UNCHANGED <<sess, ctx, tee_ctxes, siThread, siCount, dead>>

SetBusy_NoTest(t) ==
    /\ At(t, "set_busy")
    /\ LET c == Top(t).c
       IN  /\ ~Has(c, "CONCURRENT") /\ SiLockFree(t, c)
           /\ siThread' = IF NeedsSiLock(c) THEN t ELSE siThread
           /\ siCount' = IF NeedsSiLock(c) THEN siCount + 1 ELSE siCount
           /\ ctx' = [ctx EXCEPT ![c].busy = TRUE]
    /\ Move(t, Entered(t), {})
    /\ UNCHANGED <<sess, tee_ctxes, dead>>

SetBusy_CountOnce(t) ==
    /\ At(t, "set_busy")
    /\ LET c == Top(t).c
       IN  /\ ~Has(c, "CONCURRENT") /\ SiLockFree(t, c) /\ ~ctx[c].busy
           /\ siThread' = IF NeedsSiLock(c) THEN t ELSE siThread
           /\ siCount' = IF NeedsSiLock(c) THEN 1 ELSE siCount
           /\ ctx' = [ctx EXCEPT ![c].busy = TRUE]
    /\ Move(t, Entered(t), {})
    /\ UNCHANGED <<sess, tee_ctxes, dead>>

SetBusy(t) ==
    /\ At(t, "set_busy")
    /\ LET c == Top(t).c
       IN  /\ ~Has(c, "CONCURRENT") /\ SiLockFree(t, c) /\ ~ctx[c].busy
           /\ siThread' = IF NeedsSiLock(c) THEN t ELSE siThread
           /\ siCount' = IF NeedsSiLock(c) THEN siCount + 1 ELSE siCount
           /\ ctx' = [ctx EXCEPT ![c].busy = TRUE]
    /\ Move(t, Entered(t), {})
    /\ UNCHANGED <<sess, tee_ctxes, dead>>

\* Where a call goes after tee_ta_clear_busy().
Cleared(t) ==
    With(t, [Top(t) EXCEPT !.busy = FALSE, !.pc = IF Top(t).op = "close" THEN "drop" ELSE "put"])

\* tee_ta_clear_busy(), with unlock_single_instance().
ClearBusy_NoSignal(t) ==
    /\ At(t, "clear")
    /\ LET c == Top(t).c
           si == NeedsSiLock(c) /\ ~Has(c, "CONCURRENT")
       IN  /\ ctx' = [ctx EXCEPT ![c].busy = FALSE]
           /\ siCount' = IF si THEN siCount - 1 ELSE siCount
           /\ siThread' = IF si /\ siCount' = 0 THEN None ELSE siThread
           /\ Move(t, Cleared(t), {})
    /\ UNCHANGED <<sess, tee_ctxes, dead>>

ClearBusy_AlwaysUncount(t) ==
    /\ At(t, "clear")
    /\ LET c == Top(t).c
       IN  /\ ctx' = [ctx EXCEPT ![c].busy = FALSE]
           /\ siCount' = siCount - 1
           /\ siThread' = IF siCount' = 0 THEN None ELSE siThread
           /\ \E W \in OneOf(WaitingFor("wait_busy", c)) : Move(t, Cleared(t), W)
    /\ UNCHANGED <<sess, tee_ctxes, dead>>

ClearBusy(t) ==
    /\ At(t, "clear")
    /\ LET c == Top(t).c
           si == NeedsSiLock(c)
       IN  IF Has(c, "CONCURRENT")
             THEN /\ Move(t, Cleared(t), {})
                  /\ UNCHANGED <<ctx, siThread, siCount>>
             ELSE /\ ctx' = [ctx EXCEPT ![c].busy = FALSE]
                  /\ siCount' = IF si THEN siCount - 1 ELSE siCount
                  /\ siThread' = IF si /\ siCount' = 0 THEN None ELSE siThread
                  /\ \E W1 \in OneOf(WaitingFor("wait_busy", c)),
                        W2 \in IF si /\ siCount' = 0 THEN OneOf(Waiting("wait_si")) ELSE {{}} :
                           Move(t, Cleared(t), W1 \cup W2)
    /\ UNCHANGED <<sess, tee_ctxes, dead>>

-----------------------------------------------------------------------------
(* Entering a TA *)

\* thread_specific_data.syscall_recursion: entries of user TAs under this call.
Recursion(t) == Cardinality({i \in 1 .. Len(stack[t]) - 1 : stack[t][i].pc = "body"})

\* ops->enter_open_session(), enter_invoke_cmd() or enter_close_session().  An
\* open or an invoke tests ctx->panicked here, with the TA its own;
\* tee_ta_close_session() tested it before, and clear_user() refuses to write
\* the parameters of a context whose mappings are gone.
CanEnter_TrustEarlierTest(t) ==
    LET c == Top(t).c IN
    /\ ctx[c].uuid \notin Pseudo => Recursion(t) < MaxRecursion
    /\ Top(t).op = "close" \/ ~ctx[c].panicked

CanEnter(t) ==
    LET c == Top(t).c IN
    /\ ctx[c].uuid \notin Pseudo => Recursion(t) < MaxRecursion
    /\ IF Top(t).op = "close" THEN ctx[c].vm \/ ctx[c].uuid \in Pseudo
                              ELSE ~ctx[c].panicked

AfterBody(t) == IF Top(t).op = "close" THEN "unlink" ELSE "leave"

EnterTa(t) ==
    /\ At(t, "enter")
    /\ Move(t, IF CanEnter(t) THEN Goto(t, "body")
               ELSE With(t, [Top(t) EXCEPT !.pc = AfterBody(t), !.ok = @ /\ Top(t).op # "open"]),
            {})
    /\ UNCHANGED <<sess, ctx, tee_ctxes, siThread, siCount, dead>>

\* The entry point returns; only the result of an open matters to the manager.
TaReturns(t) ==
    /\ At(t, "body")
    /\ \E ok \in IF Top(t).op = "open" THEN BOOLEAN ELSE {Top(t).ok} :
          Move(t, With(t, [Top(t) EXCEPT !.pc = AfterBody(t), !.ok = ok]), {})
    /\ UNCHANGED <<sess, ctx, tee_ctxes, siThread, siCount, dead>>

\* A user TA panics.
TaPanics(t) ==
    /\ At(t, "body")
    /\ ctx[Top(t).c].uuid \notin Pseudo
    /\ ctx' = [ctx EXCEPT ![Top(t).c].panicked = TRUE]
    /\ Move(t, Goto(t, AfterBody(t)), {})
    /\ UNCHANGED <<sess, tee_ctxes, siThread, siCount, dead>>

\* After an open or an invoke: release_ta_ctx() if the TA has panicked.
LeaveTa(t) ==
    /\ At(t, "leave")
    /\ LET c == Top(t).c IN
       IF ctx[c].panicked
         THEN /\ ctx' = [ctx EXCEPT ![c].releasing = TRUE]
              /\ tee_ctxes' = Unlisted(c)
              /\ Move(t, With(t, [Top(t) EXCEPT !.ok = FALSE,
                                          !.pc = IF ctx[c].releasing THEN "clear" ELSE "release"]), {})
         ELSE /\ Move(t, Goto(t, "clear"), {})
              /\ UNCHANGED <<ctx, tee_ctxes>>
    /\ UNCHANGED <<sess, siThread, siCount, dead>>

Owned(c) == {s \in Sessions : sess[s].live /\ sess[s].owner = c}

\* release_utc_state(), from release_ta_ctx() or from destroy_context(): close
\* the sessions the context owns one after the other, then free its mappings.
ReleaseSession(t) ==
    /\ At(t, "release") \/ At(t, "destroy")
    /\ \E s \in Owned(Top(t).c) :
          /\ Move(t, Append(stack[t], Frame("close", "get", s, Top(t).c, None)), {})
          /\ sess' = [sess EXCEPT ![s].open = FALSE]
    /\ UNCHANGED <<ctx, tee_ctxes, siThread, siCount, dead>>

ReleaseState(t) ==
    /\ At(t, "release")
    /\ Owned(Top(t).c) = {}
    /\ ctx' = [ctx EXCEPT ![Top(t).c].vm = FALSE]
    /\ Move(t, Goto(t, "clear"), {})
    /\ UNCHANGED <<sess, tee_ctxes, siThread, siCount, dead>>

-----------------------------------------------------------------------------
(* Looking up and putting back sessions *)

\* tee_ta_get_session(), non-exclusive for a cancel.  A session that is gone
\* or being unlinked ends the call.
GetSession(t) ==
    /\ At(t, "get")
    /\ LET s == Top(t).s
           gone == ~sess[s].live \/ sess[s].owner # Top(t).owner \/ sess[s].unlink
       IN  IF gone
             THEN /\ Move(t, Return(t), {})
                  /\ UNCHANGED sess
           ELSE IF Top(t).op = "cancel"
             THEN /\ sess' = [sess EXCEPT ![s].ref = @ + 1]
                  /\ Move(t, Goto(t, "put"), {})
           ELSE IF sess[s].lock # None
             THEN /\ sess' = [sess EXCEPT ![s].ref = @ + 1]
                  /\ Move(t, Goto(t, "wait_lock"), {})
           ELSE /\ sess' = [sess EXCEPT ![s].ref = @ + 1, ![s].lock = t]
                /\ Move(t, Goto(t, "got"), {})
    /\ UNCHANGED <<ctx, tee_ctxes, siThread, siCount, dead>>

\* dec_session_ref_count(): the threads that may be woken.
DecWakes(s) == IF sess[s].ref = 2 THEN OneOf(WaitingFor("wait_refc", s)) ELSE {{}}

\* Woken from lock_cv: the session is being unlinked, still locked, or ours.
Relock(t) ==
    /\ At(t, "relock")
    /\ LET s == Top(t).s IN
       \/ /\ sess[s].unlink
          /\ sess' = [sess EXCEPT ![s].ref = @ - 1]
          /\ \E W \in DecWakes(s) : Move(t, Return(t), W)
       \/ /\ ~sess[s].unlink /\ sess[s].lock # None
          /\ Move(t, Goto(t, "wait_lock"), {})
          /\ UNCHANGED sess
       \/ /\ ~sess[s].unlink /\ sess[s].lock = None
          /\ sess' = [sess EXCEPT ![s].lock = t]
          /\ Move(t, Goto(t, "got"), {})
    /\ UNCHANGED <<ctx, tee_ctxes, siThread, siCount, dead>>

\* The session is locked: an invoke goes on to its TA; a close looks at the
\* context first, without tee_ta_mutex.
GotSession(t) ==
    /\ At(t, "got")
    /\ LET c == sess[Top(t).s].ctx
           pc == IF Top(t).op = "close" /\ ctx[c].panicked THEN "unlink" ELSE "set_busy"
       IN  Move(t, With(t, [Top(t) EXCEPT !.c = c, !.pc = pc]), {})
    /\ UNCHANGED <<sess, ctx, tee_ctxes, siThread, siCount, dead>>

\* tee_ta_put_session(), the end of an open, an invoke and a cancel.  An open
\* that failed goes on with tee_ta_close_session().
PutSession(t) ==
    /\ At(t, "put")
    /\ LET s == Top(t).s
           locked == sess[s].lock = t
       IN  /\ sess' = [sess EXCEPT ![s].ref = @ - 1,
                                   ![s].lock = IF locked THEN None ELSE @,
                                   ![s].open = @ \/ (Top(t).op = "open" /\ Top(t).ok)]
           /\ \E W1 \in DecWakes(s),
                 W2 \in IF locked THEN OneOf(WaitingFor("wait_lock", s)) ELSE {{}} :
                 Move(t, IF Top(t).op = "open" /\ ~Top(t).ok
                         THEN With(t, [Frame("close", "get", s, Top(t).owner, None) EXCEPT !.ok = FALSE])
                         ELSE Return(t), W1 \cup W2)
    /\ UNCHANGED <<ctx, tee_ctxes, siThread, siCount, dead>>

-----------------------------------------------------------------------------
(* tee_ta_close_session() *)

\* The end of destroy_session(): the session is out of its list and freed.
AfterDestroy(t) == Goto(t, IF Top(t).busy THEN "clear" ELSE "drop")

\* tee_ta_unlink_session(): refuse new users, wake those that wait for the
\* session, wait until only this reference is left.
Unlink_NoWait(t) ==
    /\ At(t, "unlink")
    /\ LET s == Top(t).s
       IN  /\ sess' = [sess EXCEPT ![s] = FreeSess]
           /\ Move(t, AfterDestroy(t), WaitingFor("wait_lock", s))
    /\ UNCHANGED <<ctx, tee_ctxes, siThread, siCount, dead>>

Unlink(t) ==
    /\ At(t, "unlink")
    /\ LET s == Top(t).s
           W == WaitingFor("wait_lock", s)
       IN  IF sess[s].ref = 1
             THEN /\ sess' = [sess EXCEPT ![s] = FreeSess]
                  /\ Move(t, AfterDestroy(t), W)
             ELSE /\ sess' = [sess EXCEPT ![s].unlink = TRUE]
                  /\ Move(t, Goto(t, "wait_refc"), W)
    /\ UNCHANGED <<ctx, tee_ctxes, siThread, siCount, dead>>

\* Woken from refc_cv.
Unlinked(t) ==
    /\ At(t, "unlinked")
    /\ LET s == Top(t).s
       IN  IF sess[s].ref = 1
             THEN /\ sess' = [sess EXCEPT ![s] = FreeSess]
                  /\ Move(t, AfterDestroy(t), {})
             ELSE /\ Move(t, Goto(t, "wait_refc"), {})
                  /\ UNCHANGED sess
    /\ UNCHANGED <<ctx, tee_ctxes, siThread, siCount, dead>>

\* The last section of tee_ta_close_session(): the context loses a reference;
\* the last one takes it out of the list unless it is kept alive.
DropContext_ForgetReleasing(t) ==
    /\ At(t, "drop")
    /\ LET c == Top(t).c
           keepAlive == Has(c, "KEEP_ALIVE") /\ Has(c, "SINGLE_INSTANCE")
       IN  /\ ctx' = [ctx EXCEPT ![c].ref = @ - 1]
           /\ Move(t, IF ctx[c].ref = 1 /\ (ctx[c].panicked \/ ~keepAlive)
                      THEN Goto(t, "destroy") ELSE Return(t), {})
    /\ UNCHANGED <<sess, tee_ctxes, siThread, siCount, dead>>

DropContext_Eager(t) ==
    /\ At(t, "drop")
    /\ LET c == Top(t).c
       IN  IF ctx[c].ref = 1 \/ ctx[c].panicked
             THEN /\ ctx' = [ctx EXCEPT ![c].ref = 0, ![c].releasing = TRUE]
                  /\ tee_ctxes' = Unlisted(c)
                  /\ Move(t, Goto(t, "destroy"), {})
             ELSE /\ ctx' = [ctx EXCEPT ![c].ref = @ - 1]
                  /\ Move(t, Return(t), {})
                  /\ UNCHANGED tee_ctxes
    /\ UNCHANGED <<sess, siThread, siCount, dead>>

DropContext(t) ==
    /\ At(t, "drop")
    /\ LET c == Top(t).c
           keepAlive == Has(c, "KEEP_ALIVE") /\ Has(c, "SINGLE_INSTANCE")
       IN  IF ctx[c].ref = 1 /\ (ctx[c].panicked \/ ~keepAlive)
             THEN /\ ctx' = [ctx EXCEPT ![c].ref = 0, ![c].releasing = TRUE]
                  /\ tee_ctxes' = Unlisted(c)
                  /\ Move(t, Goto(t, "destroy"), {})
             ELSE /\ ctx' = [ctx EXCEPT ![c].ref = @ - 1]
                  /\ Move(t, Return(t), {})
                  /\ UNCHANGED tee_ctxes
    /\ UNCHANGED <<sess, siThread, siCount, dead>>

\* destroy_context(), once ReleaseSession has emptied the list of the context.
DestroyContext(t) ==
    /\ At(t, "destroy")
    /\ Owned(Top(t).c) = {}
    /\ ctx' = [ctx EXCEPT ![Top(t).c] = FreeCtx]
    /\ Move(t, Return(t), {})
    /\ UNCHANGED <<sess, tee_ctxes, siThread, siCount, dead>>

-----------------------------------------------------------------------------
(* Clients *)

\* A client with the open_sessions list of "owner" makes a call on thread t.
\* Only normal world cancels.
Client(t, owner) ==
    \/ /\ \E u \in Uuids : Move(t, Append(stack[t], Frame("open", "open", None, owner, u)), {})
       /\ UNCHANGED sess
    \/ \E s \in Sessions, op \in {"invoke", "close", "cancel"} :
          /\ sess[s].open /\ sess[s].owner = owner
          /\ op = "cancel" => owner = None
          /\ Move(t, Append(stack[t], Frame(op, "get", s, owner, None)), {})
          /\ sess' = [sess EXCEPT ![s].open = (op # "close")]

\* entry_open_session(), entry_invoke_command(), entry_close_session() and
\* entry_cancel() on a thread that runs nothing.
NormalWorldCalls(t) ==
    /\ stack[t] = <<>> /\ ~dead
    /\ Client(t, None)
    /\ UNCHANGED <<ctx, tee_ctxes, siThread, siCount, dead>>

\* syscall_open_ta_session(), syscall_invoke_ta_command() and
\* syscall_close_ta_session() of the TA in user mode.
TaCalls(t) ==
    /\ At(t, "body")
    /\ ctx[Top(t).c].uuid \in Callers
    /\ Client(t, Top(t).c)
    /\ UNCHANGED <<ctx, tee_ctxes, siThread, siCount, dead>>

Step(t) ==
    \/ OpenSession(t) \/ OpenNoMemory(t) \/ FindAgain(t)
    \/ LoadTa(t) \/ LoadNoMemory(t) \/ Initialized(t) \/ LoadFails(t) \/ UndoOpen(t)
    \/ SetBusyConcurrent(t) \/ WaitSingleInstance(t) \/ RefuseBusy(t) \/ WaitBusy(t)
    \/ SetBusy(t) \/ ClearBusy(t)
    \/ EnterTa(t) \/ TaReturns(t) \/ TaPanics(t) \/ LeaveTa(t)
    \/ ReleaseSession(t) \/ ReleaseState(t)
    \/ GetSession(t) \/ Relock(t) \/ GotSession(t) \/ PutSession(t)
    \/ Unlink(t) \/ Unlinked(t) \/ DropContext(t) \/ DestroyContext(t)

\* After panic() OP-TEE core loops for ever.
Panicked == dead /\ UNCHANGED vars

Next ==
    \/ \E t \in Threads : NormalWorldCalls(t) \/ TaCalls(t) \/ Step(t)
    \/ Panicked

Spec == Init /\ [][Next]_vars

-----------------------------------------------------------------------------
(* Properties *)

Labels == {"open", "find", "load", "ldelf", "undo", "set_busy", "enter", "body", "leave",
           "release", "clear", "put", "get", "relock", "got", "unlink", "unlinked", "drop",
           "destroy"} \cup DOMAIN Resume

\* Sessions, contexts and the calls on the stack of a thread.
SessType ==
    [live : BOOLEAN, owner : Ctxs \cup {None}, ctx : Ctxs \cup {None}, ref : Nat,
     lock : Threads \cup {None}, unlink : BOOLEAN, open : BOOLEAN]
CtxType ==
    [live : BOOLEAN, uuid : Uuids \cup {None}, ref : Nat, busy : BOOLEAN, panicked : BOOLEAN,
     releasing : BOOLEAN, initializing : BOOLEAN, vm : BOOLEAN]
CallType ==
    [op : {"open", "invoke", "close", "cancel"}, pc : Labels, s : Sessions \cup {None},
     c : Ctxs \cup {None}, owner : Ctxs \cup {None}, uuid : Uuids \cup {None},
     busy : BOOLEAN, ok : BOOLEAN]

\* Every variable has its type.
TypeOK ==
    /\ sess \in [Sessions -> SessType]
    /\ ctx \in [Ctxs -> CtxType]
    /\ tee_ctxes \in Seq(Ctxs)
    /\ siThread \in Threads \cup {None}
    /\ siCount \in Nat
    /\ stack \in [Threads -> Seq(CallType)]
    /\ dead \in BOOLEAN

\* The calls that are in the context, between set_busy and clear_busy.
Inside(c) == {x \in Frames : F(x).busy /\ F(x).c = c}

\* A TA that is not concurrent runs one call at a time, whatever mix of opens,
\* invokes, closes and releases of panicked instances is under way, and
\* ctx->busy is set exactly when a call is in it.
BusyExclusion ==
    \A c \in Ctxs :
        (ctx[c].live /\ ~Has(c, "CONCURRENT")) =>
            /\ Cardinality(Inside(c)) <= 1
            /\ ctx[c].busy <=> Inside(c) # {}

\* tee_ta_single_instance_count counts the calls in single-instance TAs, and
\* one thread makes all of them.
SingleInstanceLock ==
    LET X == UNION {Inside(c) : c \in {d \in Ctxs : /\ ctx[d].live
                                                    /\ NeedsSiLock(d)
                                                    /\ ~Has(d, "CONCURRENT")}}
    IN  /\ siCount = Cardinality(X)
        /\ \A x \in X : x[1] = siThread
        /\ siCount = 0 <=> siThread = None

\* The calls that hold a reference to the session.
HoldsRef(x, s) ==
    /\ F(x).s = s
    /\ F(x).pc \notin {"get", "drop", "destroy"}
    /\ ~(F(x).op = "close" /\ F(x).pc = "clear")

\* s->ref_count is the number of calls that use the session, so that
\* tee_ta_unlink_session() frees it when nobody else does.
SessionRefs ==
    \A s \in Sessions :
        LET n == Cardinality({x \in Frames : HoldsRef(x, s)})
        IN  IF sess[s].live THEN sess[s].ref = n ELSE n = 0

\* ctx->ref_count is the number of sessions of the context, plus the closes
\* that have freed theirs and not yet dropped the reference: a context is
\* destroyed when no session and no call uses it, and not before.
ContextRefs ==
    \A c \in Ctxs :
        LET users == {s \in Sessions : sess[s].live /\ sess[s].ctx = c}
            closing == {x \in Frames : /\ F(x).op = "close" /\ F(x).c = c
                                       /\ F(x).pc \in {"clear", "drop"}}
            n == Cardinality(users) + Cardinality(closing)
        IN  /\ IF ctx[c].live THEN ctx[c].ref = n ELSE n = 0
            /\ \A x \in Frames : (F(x).c = c /\ F(x).pc # "put") => ctx[c].live

\* A context in the list can be opened: it is allocated and not released.
ListedIsUsable ==
    \A i \in DOMAIN tee_ctxes : ctx[tee_ctxes[i]].live /\ ~ctx[tee_ctxes[i]].releasing

\* No wake-up is lost: a thread sleeps on a condition variable only while its
\* condition is false or another thread has been woken to look at it.
NoLostWakeup ==
    \A t \in Threads : stack[t] # <<>> =>
        LET f == Top(t)
            SetsBusy(P(_)) == \E u \in Threads : /\ stack[u] # <<>>
                                                 /\ Top(u).pc = "set_busy" /\ P(Top(u).c)
        IN  /\ f.pc = "wait_busy" => ctx[f.c].busy \/ SetsBusy(LAMBDA c : c = f.c)
            /\ f.pc = "wait_si" =>
                  siThread # None \/ SetsBusy(NeedsSiLock)
            /\ f.pc = "wait_lock" =>
                  /\ ~sess[f.s].unlink
                  /\ \/ sess[f.s].lock # None
                     \/ \E u \in Threads : /\ stack[u] # <<>>
                                           /\ Top(u).pc = "relock" /\ Top(u).s = f.s
            /\ f.pc = "wait_refc" => sess[f.s].ref > 1
            /\ f.pc = "wait_init" =>
                  \E c \in Ctxs : ctx[c].live /\ ctx[c].uuid = f.uuid /\ ctx[c].initializing

\* The threads that must move before thread t, asleep, can.
WaitsOn(t) ==
    LET f == Top(t) IN
    CASE f.pc = "wait_busy" -> {x[1] : x \in Inside(f.c)}
      [] f.pc = "wait_si" -> {siThread}
      [] f.pc = "wait_lock" -> {sess[f.s].lock}
      [] f.pc = "wait_refc" -> {x[1] : x \in {y \in Frames : HoldsRef(y, f.s)}} \ {t}
      [] f.pc = "wait_init" -> {x[1] : x \in {y \in Frames : F(y).pc = "ldelf"}}
      [] OTHER -> {}

\* Threads that call TAs from TAs never wait for each other in a circle: a
\* thread with the single-instance lock never waits for a busy TA.
NoWaitCycle ==
    \A S \in (SUBSET Threads) \ {{}} :
        \E t \in S : stack[t] = <<>> \/ WaitsOn(t) \cap S = {}

\* The panic() of tee_ta_set_busy() is reached only by a call back into a TA
\* that the same thread is already in, never by the timing of other threads.
PanicOnlyOnReentry ==
    dead => \E t \in Threads : /\ stack[t] # <<>> /\ Top(t).pc = "set_busy"
                               /\ \E x \in Inside(Top(t).c) : x[1] = t

\* No code of a TA runs once its state was released after a panic, although
\* tee_ta_close_session() reads ctx->panicked before it waits for the TA.
ReleasedNeverRuns ==
    \A x \in Frames :
        (F(x).pc = "body" /\ ctx[F(x).c].uuid \notin Pseudo) => ctx[F(x).c].vm

\* Opening a session to a TA that the thread is already in fails with
\* TEE_ERROR_BUSY: no panic() follows from the deadlock that was avoided.
BusyOpenFails ==
    dead => \A t \in Threads :
                (/\ stack[t] # <<>> /\ Top(t).pc = "set_busy"
                 /\ \E x \in Inside(Top(t).c) : x[1] = t) => Top(t).ok

\* A single-instance TA never has two instances loaded and ready.
OneInstance ==
    \A i, j \in DOMAIN tee_ctxes :
        LET c == tee_ctxes[i]
            d == tee_ctxes[j]
        IN  (/\ ctx[c].uuid = ctx[d].uuid /\ Has(c, "SINGLE_INSTANCE")
             /\ ~ctx[c].initializing /\ ~ctx[d].initializing) => c = d

=============================================================================
