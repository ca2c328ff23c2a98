--------------------------- MODULE ModelExecutor ---------------------------
(***************************************************************************)
(* The bounded model executor (app/runtime/model_execution.py, class       *)
(* ModelExecutor): one admission gate in front of a process pool that is   *)
(* replaced when a worker dies, a thread pool, and inline work.            *)
(*                                                                         *)
(* A call takes a slot of the gate, its calculation becomes a future of a  *)
(* pool, and the caller waits.  The caller may leave (timeout, disconnect) *)
(* long before the calculation ends; the slot belongs to the calculation   *)
(* and is given back by the future's done callback.  Workers, the pool's   *)
(* manager thread, the callbacks and the callers run concurrently; what    *)
(* _pool_lock or the gate makes atomic is one action here.                 *)
(*                                                                         *)
(* submit() of the standard library queues a call before it spawns the     *)
(* process or thread that is to run it.  When the spawn raises, the        *)
(* executor gives the slot back and answers FAILED, while the call stays   *)
(* queued: it is a stray, that nobody waits for and no slot counts.        *)
(*                                                                         *)
(* warm_up() runs before the application serves requests, so its outcomes  *)
(* are the initial states; shutdown() runs at interpreter exit and is not  *)
(* modelled.                                                               *)
(***************************************************************************)
EXTENDS Naturals, FiniteSets

CONSTANTS
    Calls,           \* callers; each makes one call after another
    Concurrency,     \* slots of the gate, and workers of a pool
    MaxRetirements,  \* MAX_POOL_RETIREMENTS
    MaxPools         \* bound: process pools created

ASSUME ExecutorAssumption ==
    /\ IsFiniteSet(Calls)
    /\ Concurrency \in Nat \ {0}
    /\ MaxRetirements \in Nat \ {0}
    /\ MaxPools \in Nat \ {0}

VARIABLES
    gate,     \* _gate: free permits
    current,  \* generation of _process_pool, 0 for None
    created,  \* _pools_created
    broken,   \* generations a worker of which died
    recent,   \* _retirements within the window
    warm,     \* generation whose workers _warm speaks of, 0 for not warm
    call      \* what each caller and its calculation are doing

pools == <<current, created, recent, warm>>
vars == <<gate, current, created, broken, recent, warm, call>>

----------------------------------------------------------------------------
(* run_process, run_process_sync, run_thread and admit_inline.             *)
Vias == {"process", "sync", "thread", "inline"}

\* refused, raised: submit() raised BrokenProcessPool, or anything else, and
\* the slot is still held.
Pcs == {"idle", "refused", "raised", "waiting"}

Futures == {"none", "pending", "running", "finished", "broken", "cancelled"}
Unfinished == {"pending", "running"}
Ended == {"finished", "broken", "cancelled"}

Replies == {"NONE", "BUSY", "FAILED", "TIMEOUT", "RESULT"}

\* held: the slot was not given back yet.  pool: finco_pool, 0 for threads.
\* stray: queued by a submit() that raised; it has no done callback.
Call == [pc : Pcs, via : Vias, pool : 0..MaxPools, future : Futures,
         held : BOOLEAN, stray : BOOLEAN, reply : Replies]

NoCall == [pc |-> "idle", via |-> "process", pool |-> 0, future |-> "none",
           held |-> FALSE, stray |-> FALSE, reply |-> "NONE"]

\* A call that took its slot.
Admitted(via, pc, pool, future) ==
    [pc |-> pc, via |-> via, pool |-> pool, future |-> future, held |-> TRUE,
     stray |-> FALSE, reply |-> "NONE"]

InWorkers(via) == via \in {"process", "sync"}

Async(via) == via \in {"process", "thread"}

Answer(q, reply) ==
    call' = [call EXCEPT ![q].pc = "idle", ![q].reply = reply]

AnswerAndRelease(q, reply) ==
    /\ call' = [call EXCEPT ![q].pc = "idle", ![q].reply = reply,
                            ![q].held = FALSE]
    /\ gate' = gate + 1

\* Faulty: whatever pool is current is retired.
RetireCurrent(g) ==
    IF current # 0
    THEN current' = 0 /\ recent' = recent + 1 /\ warm' = 0 /\ UNCHANGED created
    ELSE UNCHANGED pools

\* _retire_process_pool(pool): exactly this generation, and only once.
Retire(g) ==
    IF g # 0 /\ current = g
    THEN /\ current' = 0
         /\ recent' = recent + 1
         /\ warm' = 0
         /\ UNCHANGED created
    ELSE UNCHANGED pools

NoPool == current = 0

\* The circuit breaker of _pool_locked.
MayReplace == recent < MaxRetirements

----------------------------------------------------------------------------
(* What warm_up() leaves: every worker warm, or some; a pool that was      *)
(* retired because a worker died or a probe was not answered in time, so   *)
(* broken or only slow; or no pool, when none could be made.               *)
Init ==
    /\ gate = Concurrency
    /\ call = [q \in Calls |-> NoCall]
    /\ \/ current = 1 /\ created = 1 /\ broken = {} /\ recent = 0 /\ warm \in {0, 1}
       \/ current = 0 /\ created = 1 /\ broken \in {{}, {1}} /\ recent = 1 /\ warm = 0
       \/ current = 0 /\ created = 0 /\ broken = {} /\ recent = 0 /\ warm = 0

\* A caller whose earlier call has come to its end.
Ready(q) ==
    call[q].pc = "idle" /\ ~call[q].held /\ call[q].future \notin Unfinished

(* _admit: no slot is free.                                                *)
Busy(q) ==
    /\ Ready(q)
    /\ gate = 0
    /\ call' = [call EXCEPT ![q] = [NoCall EXCEPT !.reply = "BUSY"]]
    /\ UNCHANGED <<gate, broken, pools>>

\* _pool_locked: the pool for a call is g, the threads' (0), the one there is,
\* or a new one.
PoolFor(via, g) ==
    \/ ~InWorkers(via) /\ g = 0 /\ UNCHANGED pools
    \/ InWorkers(via) /\ ~NoPool /\ g = current /\ UNCHANGED pools
    \/ /\ InWorkers(via) /\ NoPool /\ MayReplace /\ created < MaxPools
       /\ g = created + 1
       /\ current' = g /\ created' = g /\ UNCHANGED <<recent, warm>>

(* _submit: a slot is taken, the pool chosen or made, the call queued, all *)
(* of the latter under _pool_lock.                                         *)
Submit(q, via) ==
    /\ Ready(q) /\ gate > 0
    /\ gate' = gate - 1
    /\ \E g \in (0..MaxPools) \ broken :
          /\ PoolFor(via, g)
          /\ call' = [call EXCEPT ![q] = Admitted(via, "waiting", g,
                        IF via = "inline" THEN "running" ELSE "pending")]
    /\ UNCHANGED broken

\* The call is queued, but the worker it needs cannot be spawned; a pool all
\* of whose workers are warm needs none.
SpawnFails(q, via) ==
    /\ Ready(q) /\ gate > 0
    /\ via # "inline"
    /\ InWorkers(via) /\ ~NoPool => warm # current
    /\ gate' = gate - 1
    /\ \E g \in (0..MaxPools) \ broken :
          /\ PoolFor(via, g)
          /\ call' = [call EXCEPT ![q] =
                      [Admitted(via, "raised", g, "pending") EXCEPT !.stray = TRUE]]
    /\ UNCHANGED broken

\* The breaker allows no new pool, or the pool cannot be made.
NoPoolMade(q, via) ==
    /\ Ready(q) /\ gate > 0
    /\ via # "inline"
    /\ InWorkers(via) => NoPool
    /\ gate' = gate - 1
    /\ call' = [call EXCEPT ![q] = Admitted(via, "raised", 0, "none")]
    /\ UNCHANGED <<broken, pools>>

\* The pool is broken and submit() raises before it queues anything.
SubmitRefused(q, via) ==
    /\ Ready(q) /\ gate > 0
    /\ InWorkers(via)
    /\ current \in broken
    /\ gate' = gate - 1
    /\ call' = [call EXCEPT ![q] = Admitted(via, "refused", current, "none")]
    /\ UNCHANGED <<broken, pools>>

\* Faulty: the except branch forgets the gate.
GiveUpWithoutRelease(q) ==
    /\ call[q].pc = "refused"
    /\ Retire(call[q].pool)
    /\ call' = [call EXCEPT ![q].pc = "idle", ![q].reply = "FAILED",
                            ![q].held = FALSE]
    /\ UNCHANGED <<gate, broken>>

\* except BrokenProcessPool, after _pool_lock was released.
GiveUp(q) ==
    /\ call[q].pc = "refused"
    /\ Retire(call[q].pool)
    /\ AnswerAndRelease(q, "FAILED")
    /\ UNCHANGED broken

\* except BaseException: the same without a retirement, whatever was queued.
GiveUpAnyway(q) ==
    /\ call[q].pc = "raised"
    /\ AnswerAndRelease(q, "FAILED")
    /\ UNCHANGED <<broken, pools>>

----------------------------------------------------------------------------
(* The pools.                                                              *)

\* The workers of a pool that calculate.
Working(g) ==
    {q \in Calls : /\ call[q].future = "running" /\ call[q].via # "inline"
                   /\ call[q].pool = g}

Take(q) ==
    /\ call[q].future = "pending"
    /\ call[q].pool \notin broken
    /\ Cardinality(Working(call[q].pool)) < Concurrency
    /\ call' = [call EXCEPT ![q].future = "running"]
    /\ UNCHANGED <<gate, broken, pools>>

\* The calculation ends, with a result or with an error envelope.
Finish(q) ==
    /\ call[q].future = "running" /\ call[q].via # "inline"
    /\ call[q].pool \notin broken
    /\ call' = [call EXCEPT ![q].future = "finished"]
    /\ UNCHANGED <<gate, broken, pools>>

\* A worker process dies; its pool is broken from now on.
Break ==
    /\ current # 0 /\ current \notin broken
    /\ broken' = broken \cup {current}
    /\ UNCHANGED <<gate, pools, call>>

\* The manager thread fails the futures of a broken pool one by one.
FailFuture(q) ==
    /\ call[q].future \in Unfinished
    /\ call[q].pool \in broken
    /\ call' = [call EXCEPT ![q].future = "broken"]
    /\ UNCHANGED <<gate, broken, pools>>

\* Faulty: the slot is given back by the caller that waits for it.
ReleaseByWaiter(q) ==
    /\ call[q].pc = "waiting"
    /\ call[q].future \in Ended /\ call[q].held
    /\ call' = [call EXCEPT ![q].held = FALSE]
    /\ gate' = gate + 1
    /\ UNCHANGED <<broken, pools>>

\* _finish: the done callback gives the slot back; a stray has none.
Release(q) ==
    /\ call[q].future \in Ended /\ call[q].held /\ ~call[q].stray
    /\ call' = [call EXCEPT ![q].held = FALSE]
    /\ gate' = gate + 1
    /\ UNCHANGED <<broken, pools>>

\* admit_inline's __exit__.
InlineEnds(q) ==
    /\ call[q].pc = "waiting" /\ call[q].via = "inline"
    /\ call' = [call EXCEPT ![q].pc = "idle", ![q].reply = "RESULT",
                            ![q].future = "finished", ![q].held = FALSE]
    /\ gate' = gate + 1
    /\ UNCHANGED <<broken, pools>>

----------------------------------------------------------------------------
(* The callers.                                                            *)

\* The event loop hears of the end after _finish; a thread may be sooner.
Heard(q) ==
    /\ call[q].pc = "waiting"
    /\ Async(call[q].via) => ~call[q].held

ReceiveResult(q) ==
    /\ Heard(q)
    /\ call[q].future = "finished"
    /\ Answer(q, "RESULT")
    /\ UNCHANGED <<gate, broken, pools>>

\* _translate: the pool this future was submitted to is retired.
ReceiveFailure(q) ==
    /\ Heard(q)
    /\ call[q].future = "broken"
    /\ Retire(call[q].pool)
    /\ Answer(q, "FAILED")
    /\ UNCHANGED <<gate, broken>>

\* wait_for cancels the wrapped future: a pending call is withdrawn, one that
\* a worker has goes on.  A thread that waits withdraws nothing.
Leave(q, reply) ==
    call' = [call EXCEPT ![q].pc = "idle", ![q].reply = reply,
               ![q].future = IF Async(call[q].via) /\ @ = "pending"
                             THEN "cancelled" ELSE @]

\* Faulty: a timeout gives the slot back instead of _finish;
\* is reported as a failure; ends only the wait for a queued call.
TimeoutReleases(q) ==
    /\ call[q].pc = "waiting" /\ call[q].future \in Unfinished
    /\ AnswerAndRelease(q, "TIMEOUT")
    /\ UNCHANGED <<broken, pools>>

TimeoutAsFailure(q) ==
    /\ call[q].pc = "waiting" /\ call[q].via # "inline"
    /\ Async(call[q].via) \/ call[q].future \in Unfinished
    /\ Leave(q, "FAILED")
    /\ UNCHANGED <<gate, broken, pools>>

TimeoutOfQueued(q) ==
    /\ call[q].pc = "waiting" /\ call[q].future = "pending"
    /\ Leave(q, "TIMEOUT")
    /\ UNCHANGED <<gate, broken, pools>>

Timeout(q) ==
    /\ call[q].pc = "waiting" /\ call[q].via # "inline"
    /\ Async(call[q].via) \/ call[q].future \in Unfinished
    /\ Leave(q, "TIMEOUT")
    /\ UNCHANGED <<gate, broken, pools>>

Disconnect(q) ==
    /\ call[q].pc = "waiting" /\ Async(call[q].via)
    /\ Leave(q, "NONE")
    /\ UNCHANGED <<gate, broken, pools>>

\* A retirement leaves the 60-second window.
WindowPasses ==
    /\ recent > 0
    /\ recent' = recent - 1
    /\ UNCHANGED <<gate, current, created, broken, warm, call>>

----------------------------------------------------------------------------
Next ==
    \/ \E q \in Calls, via \in Vias :
            \/ Submit(q, via) \/ SpawnFails(q, via) \/ NoPoolMade(q, via)
            \/ SubmitRefused(q, via)
    \/ \E q \in Calls :
            \/ Busy(q) \/ GiveUp(q) \/ GiveUpAnyway(q)
            \/ Take(q) \/ Finish(q) \/ FailFuture(q) \/ Release(q)
            \/ InlineEnds(q) \/ ReceiveResult(q) \/ ReceiveFailure(q)
            \/ Timeout(q) \/ Disconnect(q)
    \/ Break
    \/ WindowPasses

Spec == Init /\ [][Next]_vars

Calculating == {q \in Calls : call[q].future \in Unfinished}

\* Queued or running although its caller was told FAILED, or soon will be.
Stray == {q \in Calculating : call[q].stray}

\* Threads and callbacks are scheduled and clocks run; no calculation need
\* ever end.  A pool whose spawns failed may lack a worker, or the thread that
\* serves it, until its strays are done: nothing is assumed of it before.
FairSpec ==
    /\ Spec
    /\ \A q \in Calls :
         /\ WF_vars(GiveUp(q) \/ GiveUpAnyway(q))
         /\ WF_vars(Stray = {} /\ Take(q))
         /\ WF_vars(FailFuture(q)) /\ WF_vars(Release(q))
         /\ WF_vars(ReceiveResult(q) \/ ReceiveFailure(q) \/ Timeout(q))

----------------------------------------------------------------------------
(* Properties.                                                             *)

TypeOK ==
    /\ gate \in 0..Concurrency
    /\ current \in 0..created
    /\ created \in 0..MaxPools
    /\ broken \subseteq 1..MaxPools
    /\ recent \in Nat
    /\ warm \in 0..MaxPools
    /\ call \in [Calls -> Call]

Held == {q \in Calls : call[q].held}

\* The gate's permits and the calls that owe one add up, through timeouts,
\* disconnects, broken pools and refused submissions ("capacity ... can never
\* leak"), and none is given back twice.
SlotsAddUp == gate + Cardinality(Held) = Concurrency

\* "Total concurrent expensive computation is one number": the calculations
\* queued or running, in the current pool, in retired ones, in threads and
\* inline, abandoned by their callers or not, never exceed the gate's bound.
\* Only strays come on top: one for every spawn that failed.
BoundedCalculation ==
    /\ Calculating \ Stray \subseteq Held
    /\ Cardinality(Calculating \ Stray) <= Concurrency

\* No calculation is left behind in a pool that was replaced while it worked:
\* an unfinished one is in the pool that serves now, or in one that is broken
\* and fails it.
NoneLeftBehind ==
    \A q \in Calculating :
        call[q].pool # 0 => call[q].pool = current \/ call[q].pool \in broken

\* The breaker: no more than MAX_POOL_RETIREMENTS pools are replaced in a
\* window, so the bounded deque never forgets a retirement that counts.
RetirementsBounded == recent <= MaxRetirements

\* Warm evidence is about the pool that serves now, never about a retired
\* generation.
WarmIsCurrent == warm # 0 => warm = current

\* A caller that was told BUSY or FAILED got no calculation done behind its
\* back: nothing of it is queued, running or finished ("nothing ran").  The
\* exception are strays, and only a failed spawn makes one.
RefusedMeansNotRun ==
    \A q \in Calls :
        /\ call[q].reply \in {"BUSY", "FAILED"} /\ call[q].pc = "idle"
        /\ ~call[q].stray
        => call[q].future \in {"none", "broken"}

\* "A newer healthy pool is never discarded": only a generation that a
\* failure was seen on is retired, whoever saw it and however late.
HealthyPoolKept ==
    [][current # current' /\ current # 0 => current \in broken]_vars

\* Every caller is answered, even by a calculation that never ends.
EveryoneAnswered ==
    \A q \in Calls :
        call[q].pc # "idle" /\ call[q].via # "inline" ~> call[q].pc = "idle"

\* A slot comes back unless its calculation, or a stray, runs for ever: a
\* queued call, a failed pool or a caller that left never keeps one.
OnlyRunningKeepsSlot ==
    \A q \in Calls :
        []<>(~call[q].held \/ call[q].future = "running" \/ Stray # {})
=============================================================================
