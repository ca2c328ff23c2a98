---------------------------- MODULE EngineProofs ----------------------------
(***************************************************************************)
(* Proofs about the calculations: the executor that runs them              *)
(* (ModelExecutor) and the tax losses they carry forward (LossLedger).  The*)
(* two modules share nothing; each theorem is about one of them.           *)
(*                                                                         *)
(* The executor, for any number of callers, any concurrency and any number *)
(* of pools.  The invariant Inv adds to the properties what each caller's  *)
(* record says about its slot and its pool: an unfinished calculation holds*)
(* a slot or is a stray, a failed one belongs to a broken pool, and a      *)
(* refused submission has queued nothing.  One lemma per part says that    *)
(* every step keeps it.                                                    *)
(*                                                                         *)
(* The ledger, for any opening vintages, incomes and policy and any number *)
(* of years.  All of it rests on what the first i vintages of a pool hold, *)
(* Carried(p)[i]: how expiry, a use and a new vintage change those sums is *)
(* proved by induction on i, from the well-foundedness of < on Nat.        *)
(* LedgerInv compares the ledger with its twin and with its rival,         *)
(* ScheduleInv with the rolling schedule.                                  *)
(***************************************************************************)
EXTENDS ModelExecutor, LossLedger, FiniteSetTheorems, WellFoundedInduction, TLAPS

----------------------------------------------------------------------------
(* The executor.                                                           *)

Typed ==
    /\ gate \in Nat
    /\ current \in 0..created
    /\ created \in 0..MaxPools
    /\ broken \subseteq 1..MaxPools
    /\ recent \in Nat
    /\ warm \in 0..MaxPools
    /\ call \in [Calls -> Call]

\* What one caller's record says about its slot and its pool.
Consistent(c) ==
    /\ c.future \in Unfinished => c.held \/ c.stray
    /\ c.pc \in {"refused", "raised"} => c.held
    /\ c.pc \in {"refused", "raised"} /\ ~c.stray => c.future = "none"
    /\ c.stray => c.pc \in {"raised", "idle"}
    /\ c.stray /\ c.pc = "idle" => ~c.held
    /\ c.pc = "waiting" /\ c.via = "inline" => c.held /\ c.future = "running"
    /\ ~InWorkers(c.via) => c.pool = 0
    /\ c.future = "broken" => c.pool \in broken
    /\ c.pc = "refused" => c.pool \in broken
    /\ c.reply \in {"BUSY", "FAILED"} /\ c.pc = "idle" /\ ~c.stray =>
         c.future \in {"none", "broken"}

AllConsistent == \A q \in Calls : Consistent(call[q])

\* The pools: one that serves may still be retired.
PoolsConsistent ==
    /\ recent <= MaxRetirements
    /\ current # 0 => recent < MaxRetirements
    /\ WarmIsCurrent

Inv == Typed /\ AllConsistent /\ PoolsConsistent /\ NoneLeftBehind /\ SlotsAddUp

----------------------------------------------------------------------------
(* What an action of one caller does to the records.                       *)

\* Only the record of q changes.
Only(q) == \A p \in Calls : p # q => call'[p] = call[p]

\* The actions of one caller.
CallStep(q) ==
    \/ \E via \in Vias :
         \/ Submit(q, via) \/ SpawnFails(q, via) \/ NoPoolMade(q, via)
         \/ SubmitRefused(q, via)
    \/ Busy(q) \/ GiveUp(q) \/ GiveUpAnyway(q)
    \/ Take(q) \/ Finish(q) \/ FailFuture(q) \/ Release(q)
    \/ InlineEnds(q) \/ ReceiveResult(q) \/ ReceiveFailure(q)
    \/ Timeout(q) \/ Disconnect(q)

\* Every step is one of a caller, a worker that dies, or time that passes.
LEMMA NextCases ==
    ASSUME [Next]_vars
    PROVE  (\E q \in Calls : CallStep(q)) \/ Break \/ WindowPasses \/ UNCHANGED vars
BY DEF Next, CallStep

\* Every action of a caller changes that caller's record only.
LEMMA OthersKept ==
    ASSUME Typed, NEW q \in Calls, CallStep(q)
    PROVE  Only(q)
BY DEF CallStep, Only, Typed, Busy, Submit, SpawnFails, NoPoolMade, SubmitRefused,
       GiveUp, GiveUpAnyway, Take, Finish, FailFuture, Release, InlineEnds, ReceiveResult, ReceiveFailure,
       Timeout, Disconnect, Answer, AnswerAndRelease, Leave

\* A retirement touches the pools only, and keeps their types.
LEMMA RetireEffect ==
    ASSUME Typed, NEW g \in 0..MaxPools, Retire(g)
    PROVE  /\ current' \in {0, current} /\ created' = created
           /\ recent' \in Nat /\ warm' \in {0, warm}
           /\ current' # current =>
                current = g /\ g # 0 /\ current' = 0 /\ warm' = 0 /\ recent' = recent + 1
           /\ current' = current => recent' = recent /\ warm' = warm
BY DEF Typed, Retire, pools

----------------------------------------------------------------------------
(* Slots.                                                                  *)

\* The three things a step may do to a caller's slot.
SlotKept(q) == call'[q].held = call[q].held /\ gate' = gate
SlotTaken(q) == ~call[q].held /\ call'[q].held /\ gate > 0 /\ gate' = gate - 1
SlotReturned(q) == call[q].held /\ ~call'[q].held /\ gate' = gate + 1

\* No other action of a caller touches the gate.
LEMMA SlotEffect ==
    ASSUME Typed, AllConsistent, NEW q \in Calls, CallStep(q)
    PROVE  SlotKept(q) \/ SlotTaken(q) \/ SlotReturned(q)
<1>1. call[q] \in Call /\ Consistent(call[q])
  BY DEF Typed, AllConsistent
<1>2. ASSUME Busy(q) PROVE SlotKept(q)
  BY <1>1, <1>2 DEF Busy, Ready, SlotKept, Typed, Call, NoCall
<1>3. ASSUME NEW via \in Vias,
             \/ Submit(q, via) \/ SpawnFails(q, via) \/ NoPoolMade(q, via)
             \/ SubmitRefused(q, via)
      PROVE  SlotTaken(q)
  <2>1. ~call[q].held /\ gate > 0 /\ gate' = gate - 1
    BY <1>3 DEF Submit, SpawnFails, NoPoolMade, SubmitRefused, Ready
  <2>2. \E pc, g, future :
          \/ call'[q] = Admitted(via, pc, g, future)
          \/ call'[q] = [Admitted(via, pc, g, future) EXCEPT !.stray = TRUE]
    <3>1. CASE SpawnFails(q, via)
      BY <3>1 DEF SpawnFails, Typed
    <3>2. CASE Submit(q, via) \/ NoPoolMade(q, via) \/ SubmitRefused(q, via)
      BY <3>2 DEF Submit, NoPoolMade, SubmitRefused, Typed
    <3>3. QED
      BY <1>3, <3>1, <3>2
  <2>3. call'[q].held
    BY <2>2 DEF Admitted
  <2>4. QED
    BY <2>1, <2>3 DEF SlotTaken
<1>4. ASSUME GiveUp(q) \/ GiveUpAnyway(q) \/ Release(q) \/ InlineEnds(q)
      PROVE  SlotReturned(q)
  <2>1. CASE GiveUp(q) \/ GiveUpAnyway(q)
    BY <1>1, <2>1
       DEF GiveUp, GiveUpAnyway, AnswerAndRelease, SlotReturned, Consistent, Typed, Call
  <2>2. CASE Release(q)
    BY <1>1, <2>2 DEF Release, SlotReturned, Typed, Call
  <2>3. CASE InlineEnds(q)
    BY <1>1, <2>3 DEF InlineEnds, SlotReturned, Consistent, Typed, Call
  <2>4. QED
    BY <1>4, <2>1, <2>2, <2>3
<1>5. ASSUME \/ Take(q) \/ Finish(q) \/ FailFuture(q) \/ ReceiveResult(q)
             \/ ReceiveFailure(q) \/ Timeout(q) \/ Disconnect(q)
      PROVE  SlotKept(q)
  BY <1>1, <1>5 DEF Take, Finish, FailFuture, ReceiveResult, ReceiveFailure, Timeout,
                    Disconnect, Answer, Leave, SlotKept, Typed, Call
<1>6. QED
  BY <1>2, <1>3, <1>4, <1>5 DEF CallStep

\* Permits and held slots add up after every action of a caller.
LEMMA SlotsStep ==
    ASSUME Inv, NEW q \in Calls, CallStep(q)
    PROVE  gate' \in Nat /\ SlotsAddUp'
<1>1. Only(q) /\ (SlotKept(q) \/ SlotTaken(q) \/ SlotReturned(q))
  BY OthersKept, SlotEffect DEF Inv
<1>2. IsFiniteSet(Held) /\ Cardinality(Held) \in Nat
  BY ExecutorAssumption, FS_Subset, FS_CardinalityType DEF Held
<1>3. gate \in Nat /\ gate + Cardinality(Held) = Concurrency
  BY DEF Inv, Typed, SlotsAddUp
<1>4. CASE SlotKept(q)
  <2>1. Held' = Held
    BY <1>1, <1>4 DEF Held, Only, SlotKept
  <2>2. QED
    BY <1>3, <1>4, <2>1 DEF SlotKept, SlotsAddUp
<1>5. CASE SlotTaken(q)
  <2>1. Held' = Held \cup {q} /\ q \notin Held
    BY <1>1, <1>5 DEF Held, Only, SlotTaken
  <2>2. Cardinality(Held') = Cardinality(Held) + 1
    BY <1>2, <2>1, FS_AddElement
  <2>3. QED
    BY <1>2, <1>3, <1>5, <2>2 DEF SlotTaken, SlotsAddUp
<1>6. CASE SlotReturned(q)
  <2>1. Held' = Held \ {q} /\ q \in Held
    BY <1>1, <1>6 DEF Held, Only, SlotReturned
  <2>2. Cardinality(Held') = Cardinality(Held) - 1
    BY <1>2, <2>1, FS_RemoveElement
  <2>3. QED
    BY <1>2, <1>3, <1>6, <2>2 DEF SlotReturned, SlotsAddUp
<1>7. QED
  BY <1>1, <1>4, <1>5, <1>6

----------------------------------------------------------------------------
(* Pools.                                                                  *)

\* How an action of a caller changes the pools: not at all, by making a pool
\* where there was none, or by retiring a broken one.
PoolMade ==
    /\ current = 0 /\ recent < MaxRetirements /\ created < MaxPools
    /\ current' = created + 1 /\ created' = created + 1
    /\ UNCHANGED <<recent, warm>>
PoolRetired ==
    /\ current # 0 /\ current \in broken
    /\ current' = 0 /\ recent' = recent + 1 /\ warm' = 0 /\ UNCHANGED created

\* A step of a caller makes a pool, retires a broken one, or leaves them all.
LEMMA PoolEffect ==
    ASSUME Inv, NEW q \in Calls, CallStep(q)
    PROVE  /\ UNCHANGED broken
           /\ UNCHANGED pools \/ PoolMade \/ PoolRetired
<1>1. call[q] \in Call /\ Consistent(call[q])
  BY DEF Inv, Typed, AllConsistent
<1>2. ASSUME NEW via \in Vias, Submit(q, via) \/ SpawnFails(q, via)
      PROVE  UNCHANGED broken /\ (UNCHANGED pools \/ PoolMade)
  BY <1>2 DEF Submit, SpawnFails, PoolFor, NoPool, MayReplace, PoolMade
<1>3. ASSUME GiveUp(q) \/ ReceiveFailure(q)
      PROVE  UNCHANGED broken /\ (UNCHANGED pools \/ PoolRetired)
  <2>1. call[q].pool \in broken /\ Retire(call[q].pool) /\ UNCHANGED broken
    BY <1>1, <1>3 DEF GiveUp, ReceiveFailure, Consistent
  <2>2. QED
    BY <2>1 DEF Retire, PoolRetired
<1>4. ASSUME \/ \E via \in Vias : NoPoolMade(q, via) \/ SubmitRefused(q, via)
             \/ Busy(q) \/ GiveUpAnyway(q)
             \/ Take(q) \/ Finish(q) \/ FailFuture(q) \/ Release(q) \/ InlineEnds(q)
             \/ ReceiveResult(q) \/ Timeout(q) \/ Disconnect(q)
      PROVE  UNCHANGED broken /\ UNCHANGED pools
  BY <1>4 DEF Busy, NoPoolMade, SubmitRefused, GiveUpAnyway, Take, Finish, FailFuture,
              Release, InlineEnds, ReceiveResult, Timeout, Disconnect
<1>5. QED
  BY <1>2, <1>3, <1>4 DEF CallStep

\* The pools stay consistent whatever a caller does.
LEMMA PoolsStep ==
    ASSUME Inv, NEW q \in Calls, CallStep(q)
    PROVE  /\ PoolsConsistent' /\ broken' = broken
           /\ current' \in 0..created' /\ created' \in 0..MaxPools
           /\ created <= created' /\ recent' \in Nat /\ warm' \in 0..MaxPools
<1>1. broken' = broken /\ (UNCHANGED pools \/ PoolMade \/ PoolRetired)
  BY PoolEffect
<1>2. CASE UNCHANGED pools
  BY <1>1, <1>2 DEF Inv, Typed, PoolsConsistent, WarmIsCurrent, pools
<1>3. CASE PoolMade
  BY <1>1, <1>3, ExecutorAssumption
     DEF Inv, Typed, PoolsConsistent, WarmIsCurrent, PoolMade
<1>4. CASE PoolRetired
  BY <1>1, <1>4, ExecutorAssumption
     DEF Inv, Typed, PoolsConsistent, WarmIsCurrent, PoolRetired
<1>5. QED
  BY <1>1, <1>2, <1>3, <1>4

\* A call that a step leaves unfinished was so before, in the same pool, or it
\* was put into the pool that is current then.
LEMMA CalculatingWhere ==
    ASSUME Inv, NEW q \in Calls, CallStep(q), call'[q].future \in Unfinished
    PROVE  \/ call[q].future \in Unfinished /\ call'[q].pool = call[q].pool
           \/ call'[q].pool \in {0, current'}
<1>1. call \in [Calls -> Call]
  BY DEF Inv, Typed
<1>2. ASSUME NEW via \in Vias, Submit(q, via) \/ SpawnFails(q, via)
      PROVE  call'[q].pool \in {0, current'}
  <2>1. PICK g \in 0..MaxPools, pc \in Pcs, future \in Futures :
          /\ PoolFor(via, g)
          /\ \/ call'[q] = Admitted(via, pc, g, future)
             \/ call'[q] = [Admitted(via, pc, g, future) EXCEPT !.stray = TRUE]
    BY <1>1, <1>2 DEF Submit, SpawnFails, Pcs, Futures
  <2>2. QED
    BY <2>1 DEF PoolFor, Admitted, pools
<1>3. ASSUME \/ \E via \in Vias : NoPoolMade(q, via) \/ SubmitRefused(q, via)
             \/ Busy(q)
      PROVE  FALSE
  BY <1>1, <1>3 DEF NoPoolMade, SubmitRefused, Busy, NoCall, Admitted, Unfinished
<1>4. ASSUME \/ GiveUp(q) \/ GiveUpAnyway(q) \/ Release(q)
             \/ ReceiveResult(q) \/ ReceiveFailure(q)
             \/ Take(q) \/ Finish(q) \/ FailFuture(q) \/ InlineEnds(q)
      PROVE  call[q].future \in Unfinished /\ call'[q].pool = call[q].pool
  BY <1>1, <1>4 DEF GiveUp, GiveUpAnyway, Release, ReceiveResult, ReceiveFailure, Take,
                    Finish, FailFuture, InlineEnds, Answer, AnswerAndRelease, Unfinished, Call
<1>5. ASSUME Timeout(q) \/ Disconnect(q)
      PROVE  call[q].future \in Unfinished /\ call'[q].pool = call[q].pool
  <2>1. PICK reply : Leave(q, reply)
    BY <1>5 DEF Timeout, Disconnect
  <2>2. PICK future \in {call[q].future, "cancelled"} :
          call' = [call EXCEPT ![q].pc = "idle", ![q].reply = reply, ![q].future = future]
    BY <2>1 DEF Leave
  <2>3. QED
    BY <1>1, <2>2 DEF Unfinished, Call
<1>6. QED
  BY <1>2, <1>3, <1>4, <1>5 DEF CallStep

\* No step of a caller leaves a calculation behind.
LEMMA LeftBehindStep ==
    ASSUME Inv, NEW q \in Calls, CallStep(q)
    PROVE  NoneLeftBehind'
<1> SUFFICES ASSUME NEW p \in Calls, call'[p].future \in Unfinished, call'[p].pool # 0
             PROVE  call'[p].pool = current' \/ call'[p].pool \in broken'
  BY DEF NoneLeftBehind, Calculating
<1>1. broken' = broken /\ (UNCHANGED pools \/ PoolMade \/ PoolRetired)
  BY PoolEffect
<1>2. CASE call'[p].pool = current'
  BY <1>2
<1>3. CASE call[p].future \in Unfinished /\ call'[p].pool = call[p].pool
  <2>1. call[p].pool = current \/ call[p].pool \in broken
    BY <1>3 DEF Inv, NoneLeftBehind, Calculating
  <2>2. QED
    BY <1>1, <1>3, <2>1 DEF PoolMade, PoolRetired, pools
<1>4. QED
  BY <1>2, <1>3, OthersKept, CalculatingWhere DEF Inv, Only

----------------------------------------------------------------------------
(* The callers' records.                                                   *)

\* The record of a caller that never called is well typed.
LEMMA NoCallType == NoCall \in Call
<1>1. 0 \in 0..MaxPools
  BY ExecutorAssumption
<1>2. QED
  BY <1>1 DEF NoCall, Call, Pcs, Vias, Futures, Replies

\* Every action of a caller leaves a well-typed record.
LEMMA CallTyped ==
    ASSUME Typed, NEW q \in Calls, CallStep(q)
    PROVE  call' \in [Calls -> Call]
<1>1. call[q] \in Call /\ created \in 0..MaxPools /\ current \in 0..MaxPools
  BY ExecutorAssumption DEF Typed
<1>2. ASSUME NEW via \in Vias,
             \/ Submit(q, via) \/ SpawnFails(q, via) \/ NoPoolMade(q, via)
             \/ SubmitRefused(q, via)
      PROVE  call'[q] \in Call
  <2>1. PICK pc \in Pcs, g \in 0..MaxPools, future \in Futures :
          \/ call' = [call EXCEPT ![q] = Admitted(via, pc, g, future)]
          \/ call' = [call EXCEPT ![q] =
                        [Admitted(via, pc, g, future) EXCEPT !.stray = TRUE]]
    <3>1. CASE Submit(q, via)
      <4> DEFINE future == IF via = "inline" THEN "running" ELSE "pending"
      <4>1. PICK g \in 0..MaxPools : call' = [call EXCEPT ![q] = Admitted(via, "waiting", g, future)]
        BY <3>1 DEF Submit
      <4>2. future \in Futures /\ "waiting" \in Pcs
        BY DEF Futures, Pcs
      <4> HIDE DEF future
      <4> QED BY <4>1, <4>2
    <3>2. CASE SpawnFails(q, via)
      BY <3>2 DEF SpawnFails, Pcs, Futures
    <3>3. CASE NoPoolMade(q, via)
      <4>1. "raised" \in Pcs /\ 0 \in 0..MaxPools /\ "none" \in Futures
        BY ExecutorAssumption DEF Pcs, Futures
      <4>2. QED
        BY <3>3, <4>1 DEF NoPoolMade
    <3>4. CASE SubmitRefused(q, via)
      BY <1>1, <3>4 DEF SubmitRefused, Pcs, Futures
    <3> QED BY <1>2, <3>1, <3>2, <3>3, <3>4
  <2>2. Admitted(via, pc, g, future) \in Call
    BY <2>1 DEF Admitted, Call, Replies
  <2>3. [Admitted(via, pc, g, future) EXCEPT !.stray = TRUE] \in Call
    BY <2>2 DEF Call
  <2>4. QED
    BY <2>1, <2>2, <2>3 DEF Typed
<1>3. ASSUME GiveUp(q) \/ GiveUpAnyway(q) \/ Release(q) \/ InlineEnds(q)
      PROVE  call'[q] \in Call
  <2>1. CASE GiveUp(q) \/ GiveUpAnyway(q)
    BY <1>1, <2>1 DEF GiveUp, GiveUpAnyway, AnswerAndRelease, Typed, Call, Pcs, Replies
  <2>2. CASE Release(q)
    BY <1>1, <2>2 DEF Release, Typed, Call
  <2>3. CASE InlineEnds(q)
    BY <1>1, <2>3 DEF InlineEnds, Typed, Call, Pcs, Futures, Replies
  <2>4. QED
    BY <1>3, <2>1, <2>2, <2>3
<1>4. ASSUME Take(q) \/ Finish(q) \/ FailFuture(q) PROVE call'[q] \in Call
  BY <1>1, <1>4 DEF Take, Finish, FailFuture, Typed, Call, Futures
<1>5. ASSUME ReceiveResult(q) \/ ReceiveFailure(q) \/ Timeout(q) \/ Disconnect(q)
      PROVE  call'[q] \in Call
  <2>1. CASE ReceiveResult(q) \/ ReceiveFailure(q)
    BY <1>1, <2>1 DEF ReceiveResult, ReceiveFailure, Answer, Typed, Call, Pcs, Replies
  <2>2. CASE Timeout(q) \/ Disconnect(q)
    <3>1. PICK reply \in Replies : Leave(q, reply)
      BY <2>2 DEF Timeout, Disconnect, Replies
    <3>2. PICK future \in Futures :
            call' = [call EXCEPT ![q].pc = "idle", ![q].reply = reply, ![q].future = future]
      BY <1>1, <3>1 DEF Leave, Call, Futures
    <3>3. QED
      BY <1>1, <3>2 DEF Typed, Call, Pcs
  <2>3. QED
    BY <1>5, <2>1, <2>2
<1>6. ASSUME Busy(q) PROVE call'[q] \in Call
  <2>1. [NoCall EXCEPT !.reply = "BUSY"] \in Call
    BY NoCallType DEF Call, Replies
  <2>2. QED
    BY <1>6, <2>1 DEF Busy, Typed
<1>7. call'[q] \in Call
  BY <1>2, <1>3, <1>4, <1>5, <1>6 DEF CallStep
<1>8. call' = [call EXCEPT ![q] = call'[q]]
  <2>1. ASSUME NEW c, call' = [call EXCEPT ![q] = c]
        PROVE  call' = [call EXCEPT ![q] = call'[q]]
    BY <2>1 DEF Typed
  <2>2. ASSUME \/ Take(q) \/ Finish(q) \/ FailFuture(q) \/ Release(q)
               \/ ReceiveResult(q) \/ ReceiveFailure(q) \/ GiveUp(q) \/ GiveUpAnyway(q)
               \/ InlineEnds(q)
        PROVE  \E c : call' = [call EXCEPT ![q] = c]
    BY <2>2 DEF Take, Finish, FailFuture, Release, InlineEnds, ReceiveResult,
                ReceiveFailure, GiveUp, GiveUpAnyway, Answer, AnswerAndRelease
  <2>3. ASSUME Timeout(q) \/ Disconnect(q)
        PROVE  \E c : call' = [call EXCEPT ![q] = c]
    BY <2>3 DEF Timeout, Disconnect, Leave
  <2>4. ASSUME \/ Busy(q)
               \/ \E via \in Vias : \/ Submit(q, via) \/ SpawnFails(q, via)
                                    \/ NoPoolMade(q, via) \/ SubmitRefused(q, via)
        PROVE  \E c : call' = [call EXCEPT ![q] = c]
    BY <2>4 DEF Busy, Submit, SpawnFails, NoPoolMade, SubmitRefused
  <2>5. QED
    BY <2>1, <2>2, <2>3, <2>4 DEF CallStep
<1>9. QED
  BY <1>7, <1>8 DEF Typed

\* Every action of a caller leaves its record consistent.
LEMMA CallConsistent ==
    ASSUME Inv, NEW q \in Calls, CallStep(q)
    PROVE  Consistent(call[q])'
<1>1. call[q] \in Call /\ Consistent(call[q]) /\ broken' = broken
  BY PoolEffect DEF Inv, Typed, AllConsistent
<1>2. call \in [Calls -> Call]
  BY DEF Inv, Typed
<1>3. ASSUME Busy(q) PROVE Consistent(call[q])'
  BY <1>2, <1>3 DEF Busy, NoCall, Consistent, Unfinished, InWorkers
<1>4. ASSUME NEW via \in Vias, Submit(q, via) \/ SpawnFails(q, via) \/ NoPoolMade(q, via)
      PROVE  Consistent(call[q])'
  <2>1. CASE Submit(q, via) \/ SpawnFails(q, via)
    <3>1. PICK g \in 0..MaxPools :
            /\ PoolFor(via, g)
            /\ \/ /\ via = "inline"
                  /\ call'[q] = Admitted(via, "waiting", g, "running")
               \/ /\ via # "inline"
                  /\ call'[q] = Admitted(via, "waiting", g, "pending")
               \/ /\ via # "inline"
                  /\ call'[q] = [Admitted(via, "raised", g, "pending")
                                   EXCEPT !.stray = TRUE]
      BY <1>2, <2>1 DEF Submit, SpawnFails
    <3>2. ~InWorkers(via) => g = 0
      BY <3>1 DEF PoolFor
    <3>3. ASSUME NEW future \in {"pending", "running"},
                 future = "running" => via = "inline",
                 via = "inline" => future = "running",
                 call'[q] = Admitted(via, "waiting", g, future)
          PROVE  Consistent(call[q])'
      <4>1. /\ call'[q].via = via /\ call'[q].pc = "waiting" /\ call'[q].pool = g
            /\ call'[q].future = future /\ call'[q].held /\ ~call'[q].stray
            /\ call'[q].reply = "NONE"
        BY <3>3 DEF Admitted
      <4>2. QED
        BY <3>2, <3>3, <4>1 DEF Consistent, InWorkers
    <3>4. ASSUME call'[q] = [Admitted(via, "raised", g, "pending") EXCEPT !.stray = TRUE]
          PROVE  Consistent(call[q])'
      <4>1. /\ call'[q].via = via /\ call'[q].pc = "raised" /\ call'[q].pool = g
            /\ call'[q].future = "pending" /\ call'[q].held /\ call'[q].stray
            /\ call'[q].reply = "NONE"
        BY <3>4 DEF Admitted
      <4>2. QED
        BY <3>2, <4>1 DEF Consistent, InWorkers
    <3>5. QED
      BY <3>1, <3>3, <3>4
  <2>2. CASE NoPoolMade(q, via)
    BY <1>2, <2>2 DEF NoPoolMade, Admitted, Consistent, Unfinished
  <2>3. QED
    BY <1>4, <2>1, <2>2
<1>5. ASSUME NEW via \in Vias, SubmitRefused(q, via) PROVE Consistent(call[q])'
  BY <1>1, <1>2, <1>5 DEF SubmitRefused, Admitted, Consistent, Unfinished
<1>6. ASSUME GiveUp(q) \/ GiveUpAnyway(q) PROVE Consistent(call[q])'
  BY <1>1, <1>2, <1>6
     DEF GiveUp, GiveUpAnyway, AnswerAndRelease, Consistent, Unfinished, InWorkers, Call
<1>7. ASSUME Take(q) \/ Finish(q) \/ FailFuture(q) PROVE Consistent(call[q])'
  <2>1. 0 \notin broken
    BY DEF Inv, Typed
  <2>2. CASE Take(q)
    BY <1>1, <1>2, <2>2 DEF Take, Consistent, Unfinished, InWorkers
  <2>3. CASE Finish(q)
    BY <1>1, <1>2, <2>3 DEF Finish, Consistent, Unfinished, InWorkers
  <2>4. CASE FailFuture(q)
    BY <1>1, <1>2, <2>1, <2>4 DEF FailFuture, Consistent, Unfinished, InWorkers
  <2>5. QED
    BY <1>7, <2>2, <2>3, <2>4
<1>8. ASSUME Release(q) PROVE Consistent(call[q])'
  BY <1>1, <1>2, <1>8 DEF Release, Consistent, Unfinished, InWorkers, Ended, Call
<1>9. ASSUME InlineEnds(q) PROVE Consistent(call[q])'
  BY <1>1, <1>2, <1>9 DEF InlineEnds, Consistent, Unfinished, InWorkers
<1>10. ASSUME ReceiveResult(q) \/ ReceiveFailure(q) PROVE Consistent(call[q])'
  <2>1. ~call[q].stray
    BY <1>1, <1>10 DEF ReceiveResult, ReceiveFailure, Heard, Consistent
  <2>2. QED
    BY <1>1, <1>2, <1>10, <2>1
       DEF ReceiveResult, ReceiveFailure, Answer, Consistent, Unfinished, InWorkers, Call
<1>11. ASSUME Timeout(q) \/ Disconnect(q) PROVE Consistent(call[q])'
  <2>1. PICK reply \in {"TIMEOUT", "NONE"} : Leave(q, reply)
    BY <1>11 DEF Timeout, Disconnect
  <2>2. PICK future :
          /\ call' = [call EXCEPT ![q].pc = "idle", ![q].reply = reply, ![q].future = future]
          /\ future \in {call[q].future, "cancelled"}
    BY <2>1 DEF Leave
  <2>3. ~call[q].stray
    BY <1>1, <1>11 DEF Timeout, Disconnect, Consistent
  <2>4. QED
    BY <1>1, <1>2, <2>2, <2>3 DEF Consistent, Unfinished, InWorkers, Call
<1>12. QED
  BY <1>3, <1>4, <1>5, <1>6, <1>7, <1>8, <1>9, <1>10, <1>11 DEF CallStep

----------------------------------------------------------------------------
(* The invariant and the theorems.                                         *)

\* The invariant holds at first.
LEMMA InvInit == Init => Inv
<1> SUFFICES ASSUME Init PROVE Inv
  OBVIOUS
<1>1. Typed
  BY ExecutorAssumption, NoCallType DEF Init, Typed
<1>2. AllConsistent
  BY DEF Init, AllConsistent, Consistent, NoCall, Unfinished, InWorkers
<1>3. PoolsConsistent
  BY ExecutorAssumption DEF Init, PoolsConsistent, WarmIsCurrent
<1>4. SlotsAddUp
  <2>1. Held = {}
    BY DEF Init, Held, NoCall
  <2>2. Cardinality(Held) = 0
    BY <2>1, FS_EmptySet
  <2>3. QED
    BY <2>2, ExecutorAssumption DEF Init, SlotsAddUp
<1>5. NoneLeftBehind
  BY DEF Init, NoCall, NoneLeftBehind, Calculating, Unfinished
<1>6. QED
  BY <1>1, <1>2, <1>3, <1>4, <1>5 DEF Inv

\* Every step keeps the invariant.
LEMMA InvStep == Inv /\ [Next]_vars => Inv'
<1> SUFFICES ASSUME Inv, [Next]_vars PROVE Inv'
  OBVIOUS
<1>1. ASSUME NEW q \in Calls, CallStep(q) PROVE Inv'
  <2>1. Only(q) /\ call' \in [Calls -> Call]
    BY <1>1, OthersKept, CallTyped DEF Inv
  <2>2. gate' \in Nat /\ SlotsAddUp'
    BY <1>1, SlotsStep
  <2>3. /\ PoolsConsistent' /\ broken' = broken
        /\ current' \in 0..created' /\ created' \in 0..MaxPools
        /\ recent' \in Nat /\ warm' \in 0..MaxPools
    BY <1>1, PoolsStep
  <2>4. AllConsistent'
    <3> SUFFICES ASSUME NEW p \in Calls PROVE Consistent(call[p])'
      BY DEF AllConsistent
    <3>1. CASE p = q
      BY <1>1, <3>1, CallConsistent
    <3>2. CASE p # q
      BY <2>1, <2>3, <3>2 DEF Only, Inv, AllConsistent, Consistent
    <3>3. QED
      BY <3>1, <3>2
  <2>5. NoneLeftBehind'
    BY <1>1, LeftBehindStep
  <2>6. QED
    BY <2>1, <2>2, <2>3, <2>4, <2>5 DEF Inv, Typed
<1>2. CASE Break
  <2>1. Typed'
    <3>1. current \in 1..MaxPools
      BY <1>2, ExecutorAssumption DEF Inv, Typed, Break
    <3>2. broken' \subseteq 1..MaxPools
      BY <1>2, <3>1 DEF Inv, Typed, Break
    <3>3. QED
      BY <1>2, <3>2 DEF Inv, Typed, Break, pools
  <2>2. AllConsistent'
    BY <1>2 DEF Inv, AllConsistent, Consistent, Break
  <2>3. PoolsConsistent'
    <3>1. /\ current \in 1..created /\ created' = created /\ current' = current
          /\ broken' = broken \cup {current} /\ recent' = recent /\ warm' = warm
      BY <1>2 DEF Inv, Typed, Break, pools
    <3>2. QED
      BY <3>1 DEF Inv, PoolsConsistent, WarmIsCurrent
  <2>4. SlotsAddUp'
    BY <1>2 DEF Inv, SlotsAddUp, Held, Break
  <2>5. NoneLeftBehind'
    BY <1>2 DEF Inv, NoneLeftBehind, Calculating, Break, pools
  <2>6. QED
    BY <2>1, <2>2, <2>3, <2>4, <2>5 DEF Inv
<1>3. CASE WindowPasses
  <2>1. Typed' /\ PoolsConsistent'
    BY <1>3, ExecutorAssumption
       DEF Inv, Typed, PoolsConsistent, WarmIsCurrent, WindowPasses
  <2>2. AllConsistent' /\ SlotsAddUp'
    BY <1>3 DEF Inv, AllConsistent, Consistent, SlotsAddUp, Held, WindowPasses
  <2>3. NoneLeftBehind'
    BY <1>3 DEF Inv, NoneLeftBehind, Calculating, WindowPasses
  <2>4. QED
    BY <2>1, <2>2, <2>3 DEF Inv
<1>4. CASE UNCHANGED vars
  BY <1>4 DEF Inv, Typed, AllConsistent, Consistent, PoolsConsistent, WarmIsCurrent,
              NoneLeftBehind, Calculating, SlotsAddUp, Held, vars, pools
<1>5. QED
  BY <1>1, <1>2, <1>3, <1>4, NextCases

\* The invariant always holds.
LEMMA Invariance == Spec => []Inv
BY InvInit, InvStep, PTL DEF Spec

\* What the invariant says about slots and calculations.
LEMMA InvBounds ==
    ASSUME Inv
    PROVE  TypeOK /\ BoundedCalculation
<1>1. IsFiniteSet(Held) /\ Cardinality(Held) \in Nat
  BY ExecutorAssumption, FS_Subset, FS_CardinalityType DEF Held
<1>2. gate \in Nat /\ gate + Cardinality(Held) = Concurrency
  BY DEF Inv, Typed, SlotsAddUp
<1>3. TypeOK
  BY <1>1, <1>2, ExecutorAssumption DEF Inv, Typed, TypeOK
<1>4. Calculating \ Stray \subseteq Held
  BY DEF Inv, AllConsistent, Consistent, Calculating, Stray, Held
<1>5. /\ Cardinality(Calculating \ Stray) <= Cardinality(Held)
      /\ Cardinality(Calculating \ Stray) \in Nat
  BY <1>1, <1>4, FS_Subset, FS_CardinalityType
<1>6. QED
  BY <1>1, <1>2, <1>3, <1>4, <1>5, ExecutorAssumption DEF BoundedCalculation

\* The executor's state is well typed: the gate never holds more permits than
\* it was made with, which a BoundedSemaphore would refuse.
THEOREM TypeCorrect == Spec => []TypeOK
BY Invariance, InvBounds, PTL

\* Permits and held slots add up in every reachable state: no timeout,
\* disconnect, broken pool or refused submission leaks or returns one twice.
THEOREM SlotsAlwaysAddUp == Spec => []SlotsAddUp
<1>1. Inv => SlotsAddUp
  BY DEF Inv
<1>2. QED
  BY <1>1, Invariance, PTL

\* The calculations queued or running anywhere never exceed the concurrency,
\* but for those that a failed spawn has left queued without a slot.
THEOREM CalculationIsBounded == Spec => []BoundedCalculation
BY Invariance, InvBounds, PTL

\* Every calculation is in the pool that serves or in a broken one, which
\* fails it; warm evidence is about the pool that serves, and the circuit
\* breaker bounds the retirements in a window.
THEOREM PoolsAreSound == Spec => [](NoneLeftBehind /\ WarmIsCurrent /\ RetirementsBounded)
<1>1. Inv => NoneLeftBehind /\ WarmIsCurrent /\ RetirementsBounded
  BY DEF Inv, PoolsConsistent, RetirementsBounded
<1>2. QED
  BY <1>1, Invariance, PTL

\* A caller told BUSY or FAILED got no calculation done behind its back, unless
\* a spawn failed after the call was queued.
THEOREM RefusedNeverRan == Spec => []RefusedMeansNotRun
<1>1. Inv => RefusedMeansNotRun
  BY DEF Inv, AllConsistent, Consistent, RefusedMeansNotRun
<1>2. QED
  BY <1>1, Invariance, PTL

\* Only a broken generation is ever retired, however late its failure is seen
\* and by however many callers.
THEOREM HealthyPoolIsKept == Spec => HealthyPoolKept
<1>1. Inv /\ [Next]_vars => [current # current' /\ current # 0 => current \in broken]_vars
  <2> SUFFICES ASSUME Inv, [Next]_vars, current # current', current # 0
               PROVE  current \in broken
    OBVIOUS
  <2>1. ASSUME NEW q \in Calls, CallStep(q) PROVE current \in broken
    BY <2>1, PoolEffect DEF PoolMade, PoolRetired, pools
  <2>2. QED
    BY <2>1, NextCases DEF Break, WindowPasses, vars, pools
<1>2. QED
  BY <1>1, Invariance, PTL DEF Spec, HealthyPoolKept

----------------------------------------------------------------------------
(* Losses: induction, and what the first vintages hold.                    *)

\* A set of naturals has a least element.
LEMMA LeastOf ==
    ASSUME NEW T, T \subseteq Nat, T # {}
    PROVE  \E m \in T : \A k \in T : m <= k
<1>1. PICK m \in T : \A k \in T : <<k, m>> \notin OpToRel(<, Nat)
  BY NatLessThanWellFounded, WFMin
<1>2. \A k \in T : ~ (k < m)
  BY <1>1 DEF OpToRel
<1> QED BY <1>2

\* Induction up to n, for the set T of the numbers it holds of.
LEMMA Induct ==
    ASSUME NEW n \in Nat, NEW T, 0 \in T,
           \A i \in 0..(n - 1) : i \in T => i + 1 \in T
    PROVE  \A i \in 0..n : i \in T
<1> SUFFICES ASSUME NEW j \in 0..n, j \notin T PROVE FALSE
  OBVIOUS
<1> DEFINE B == {k \in 0..n : k \notin T}
<1>1. PICK m \in B : \A k \in B : m <= k
  <2>1. B \subseteq Nat /\ B # {}
    OBVIOUS
  <2> HIDE DEF B
  <2> QED BY <2>1, LeastOf
<1>2. m \in 1..n /\ m - 1 \in 0..(n - 1) /\ m - 1 \notin B
  BY <1>1
<1>3. m - 1 \in T
  BY <1>2
<1> QED BY <1>1, <1>2, <1>3

\* g adds the numbers a up to m.
Adds(g, a, m) == g = [i \in 0..m |-> IF i = 0 THEN 0 ELSE g[i - 1] + a[i]]

\* The sums exist.
LEMMA AddsExists ==
    ASSUME NEW n \in Nat, NEW a \in [1..n -> Nat]
    PROVE  \E g \in [0..n -> Nat] : Adds(g, a, n)
<1> DEFINE T == {m \in Nat : \E g \in [0..m -> Nat] : Adds(g, a, m)}
<1>1. 0 \in T
  <2> DEFINE g == [i \in 0..0 |-> 0]
  <2>1. g \in [0..0 -> Nat] /\ Adds(g, a, 0)
    BY DEF Adds
  <2> QED BY <2>1
<1>2. ASSUME NEW m \in 0..(n - 1), m \in T
      PROVE  m + 1 \in T
  <2>1. PICK g \in [0..m -> Nat] : Adds(g, a, m)
    BY <1>2
  <2> DEFINE h == [i \in 0..(m + 1) |-> IF i = m + 1 THEN g[m] + a[i] ELSE g[i]]
  <2>2. h \in [0..(m + 1) -> Nat]
    BY <1>2
  <2>3. ASSUME NEW i \in 0..(m + 1)
        PROVE  h[i] = IF i = 0 THEN 0 ELSE h[i - 1] + a[i]
    <3>1. CASE i = m + 1
      BY <3>1, <1>2
    <3>2. CASE i # m + 1
      <4>1. g[i] = IF i = 0 THEN 0 ELSE g[i - 1] + a[i]
        BY <2>1, <2>3, <3>2 DEF Adds
      <4>2. i - 1 # m + 1 /\ (i # 0 => i - 1 \in 0..(m + 1))
        BY <2>3, <3>2
      <4> QED BY <2>3, <3>2, <4>1, <4>2
    <3> QED BY <3>1, <3>2
  <2>4. Adds(h, a, m + 1)
    <3>1. h = [i \in 0..(m + 1) |-> h[i]]
      BY <2>2
    <3> HIDE DEF h
    <3> QED BY <3>1, <2>3 DEF Adds
  <2> HIDE DEF h
  <2>5. \E g1 \in [0..(m + 1) -> Nat] : Adds(g1, a, m + 1)
    BY <2>2, <2>4
  <2>6. m + 1 \in Nat
    BY <1>2
  <2> QED BY <2>5, <2>6
<1>3. n \in T
  <2> HIDE DEF T
  <2>1. \A i \in 0..n : i \in T
    BY <1>1, <1>2, Induct
  <2> QED BY <2>1
<1> QED BY <1>3

\* The records whose amount may be set to any amount.
Holders(R) ==
    \A r \in R : /\ r.amount \in Nat
                 /\ \A a \in Nat : LET s == [r EXCEPT !.amount = a]
                                   IN  s \in R /\ s.amount = a

\* Carried is the function its recursion describes.
LEMMA CarriedIs ==
    ASSUME NEW R, Holders(R), NEW p \in Seq(R)
    PROVE  /\ Carried(p) \in [0..Len(p) -> Nat]
           /\ Carried(p)[0] = 0
           /\ \A i \in 1..Len(p) : Carried(p)[i] = Carried(p)[i - 1] + p[i].amount
           /\ \A i \in 1..Len(p) : p[i].amount \in Nat
<1> DEFINE n == Len(p)
           a == [i \in 1..n |-> p[i].amount]
           Good(g) == g = [i \in 0..n |-> IF i = 0 THEN 0 ELSE g[i - 1] + p[i].amount]
<1>0. n \in Nat /\ \A i \in 1..n : p[i] \in R
  OBVIOUS
<1>1. a \in [1..n -> Nat] /\ \A i \in 1..n : a[i] = p[i].amount
  BY <1>0 DEF Holders
<1>2. PICK g \in [0..n -> Nat] : Adds(g, a, n)
  <2> HIDE DEF a, n
  <2> QED BY <1>0, <1>1, AddsExists
<1>3. Good(g)
  <2>1. \A i \in 0..n : (IF i = 0 THEN 0 ELSE g[i - 1] + a[i])
                        = (IF i = 0 THEN 0 ELSE g[i - 1] + p[i].amount)
    BY <1>1
  <2> HIDE DEF a
  <2> QED BY <1>2, <2>1 DEF Adds
<1>4. Carried(p) = CHOOSE f : Good(f)
  BY DEF Carried
<1>5. Good(Carried(p))
  <2> HIDE DEF Good
  <2> QED BY <1>3, <1>4
<1>6. \A i \in 0..n : Carried(p)[i] = IF i = 0 THEN 0 ELSE Carried(p)[i - 1] + p[i].amount
  BY <1>5
<1>7. \A i \in 0..n : Carried(p)[i] \in Nat
  <2> DEFINE T == {i \in Nat : i <= n => Carried(p)[i] \in Nat}
  <2>1. 0 \in T
    BY <1>6
  <2>2. ASSUME NEW i \in 0..(n - 1), i \in T
        PROVE  i + 1 \in T
    <3>1. p[i + 1].amount \in Nat
      BY <1>0, <1>1
    <3> QED BY SMTT(30), <1>6, <2>2, <3>1
  <2>3. \A i \in 0..n : i \in T
    <3> HIDE DEF T
    <3> QED BY <1>0, <2>1, <2>2, Induct
  <2> QED BY <2>3
<1>8. Carried(p) = [i \in 0..n |-> Carried(p)[i]]
  BY <1>5
<1>9. Carried(p) \in [0..n -> Nat]
  <2> HIDE DEF Good, a
  <2> DEFINE H == Carried(p)
  <2>1. H = [i \in 0..n |-> H[i]] /\ \A i \in 0..n : H[i] \in Nat
    BY <1>7, <1>8
  <2> HIDE DEF H
  <2>2. H \in [0..n -> Nat]
    BY <2>1
  <2> QED BY <2>2 DEF H
<1>10. Carried(p)[0] = 0 /\ \A i \in 1..n : Carried(p)[i] = Carried(p)[i - 1] + p[i].amount
  <2> HIDE DEF Good, a
  <2> QED BY <1>0, <1>6
<1>11. \A i \in 1..Len(p) : p[i].amount \in Nat
  BY <1>0 DEF Holders
<1> QED BY <1>9, <1>10, <1>11

\* What is held up to m depends on the amounts up to m.
LEMMA CarriedSame ==
    ASSUME NEW R, Holders(R), NEW p \in Seq(R), NEW S, Holders(S), NEW q \in Seq(S),
           NEW m \in Nat, m <= Len(p), m <= Len(q),
           \A i \in 1..m : p[i].amount = q[i].amount
    PROVE  \A i \in 0..m : Carried(p)[i] = Carried(q)[i]
<1> DEFINE T == {i \in Nat : i <= m => Carried(p)[i] = Carried(q)[i]}
<1>0. Len(p) \in Nat /\ Len(q) \in Nat
  OBVIOUS
<1>1. 0 \in T
  BY CarriedIs
<1>2. ASSUME NEW i \in 0..(m - 1), i \in T
      PROVE  i + 1 \in T
  <2>1. i + 1 \in 1..m /\ i + 1 \in 1..Len(p) /\ i + 1 \in 1..Len(q) /\ i + 1 - 1 = i
    BY <1>0
  <2>2. Carried(p)[i + 1] = Carried(p)[i] + p[i + 1].amount
    BY <2>1, CarriedIs
  <2>3. Carried(q)[i + 1] = Carried(q)[i] + q[i + 1].amount
    BY <2>1, CarriedIs
  <2> QED BY <1>2, <2>1, <2>2, <2>3
<1>3. \A i \in 0..m : i \in T
  <2> HIDE DEF T
  <2> QED BY <1>1, <1>2, Induct
<1> QED BY <1>3

\* The more vintages, the more they hold.
LEMMA CarriedGrows ==
    ASSUME NEW R, Holders(R), NEW p \in Seq(R),
           NEW j \in 0..Len(p), NEW i \in 0..j
    PROVE  Carried(p)[i] <= Carried(p)[j]
<1> DEFINE T == {m \in Nat : \A k \in 0..m : m <= Len(p) => Carried(p)[k] <= Carried(p)[m]}
<1>0. Len(p) \in Nat /\ \A k \in 0..Len(p) : Carried(p)[k] \in Nat
  BY CarriedIs
<1>1. 0 \in T
  BY <1>0
<1>2. ASSUME NEW m \in 0..(Len(p) - 1), m \in T
      PROVE  m + 1 \in T
  <2>1. m + 1 \in 1..Len(p) /\ m + 1 - 1 = m
    BY <1>0
  <2>2. Carried(p)[m + 1] = Carried(p)[m] + p[m + 1].amount /\ p[m + 1].amount \in Nat
    BY <2>1, CarriedIs
  <2>3. Carried(p)[m] <= Carried(p)[m + 1]
    BY <1>0, <2>1, <2>2
  <2> QED BY <1>0, <1>2, <2>1, <2>3
<1>3. \A m \in 0..Len(p) : m \in T
  <2> HIDE DEF T
  <2> QED BY <1>0, <1>1, <1>2, Induct
<1> QED BY <1>3

----------------------------------------------------------------------------
(* What taking vintages off and using them does to the sums.               *)

\* q has the vintages of p with other amounts.
Reshaped(R, p, q) ==
    /\ q \in Seq(R) /\ Len(q) = Len(p)
    /\ \A i \in 1..Len(p) : \E a \in Nat : q[i] = [p[i] EXCEPT !.amount = a]

\* p with the amounts a.
SetTo(p, a) == [i \in 1..Len(p) |-> [p[i] EXCEPT !.amount = a[i]]]

\* p with other amounts has the vintages of p.
LEMMA SetToIs ==
    ASSUME NEW R, Holders(R), NEW p \in Seq(R), NEW a \in [1..Len(p) -> Nat]
    PROVE  /\ Reshaped(R, p, SetTo(p, a))
           /\ \A i \in 1..Len(p) : SetTo(p, a)[i].amount = a[i]
<1>1. Len(p) \in Nat /\ \A i \in 1..Len(p) : p[i] \in R
  OBVIOUS
<1> DEFINE v(i) == [p[i] EXCEPT !.amount = a[i]]
<1>2. \A i \in 1..Len(p) : v(i) \in R /\ v(i).amount = a[i]
  BY <1>1 DEF Holders
<1>3. \A i \in 1..Len(p) : \E b \in Nat : v(i) = [p[i] EXCEPT !.amount = b]
  OBVIOUS
<1> DEFINE q == SetTo(p, a)
<1>4. q = [i \in 1..Len(p) |-> v(i)]
  BY DEF SetTo
<1> HIDE DEF v, q
<1>5. q \in Seq(R) /\ Len(q) = Len(p) /\ \A i \in 1..Len(p) : q[i] = v(i)
  BY <1>1, <1>2, <1>4
<1> QED BY <1>2, <1>3, <1>5 DEF Reshaped, q

\* p without some has the vintages of p, those at nothing.
LEMMA WithoutIs ==
    ASSUME NEW R, Holders(R), NEW p \in Seq(R), NEW gone
    PROVE  /\ Reshaped(R, p, Without(p, gone))
           /\ \A i \in 1..Len(p) :
                 Without(p, gone)[i].amount = IF i \in gone THEN 0 ELSE p[i].amount
<1> DEFINE a == [i \in 1..Len(p) |-> IF i \in gone THEN 0 ELSE p[i].amount]
<1>1. a \in [1..Len(p) -> Nat]
  BY DEF Holders
<1>2. Without(p, gone) = SetTo(p, a)
  <2>1. \A i \in 1..Len(p) : a[i] = IF i \in gone THEN 0 ELSE p[i].amount
    OBVIOUS
  <2> HIDE DEF a
  <2> QED BY <2>1 DEF Without, SetTo
<1>3. \A i \in 1..Len(p) : a[i] = IF i \in gone THEN 0 ELSE p[i].amount
  OBVIOUS
<1> HIDE DEF a
<1> QED BY <1>1, <1>2, <1>3, SetToIs

\* p less its uses has the vintages of p.
LEMMA CutIs ==
    ASSUME NEW R, Holders(R), NEW p \in Seq(R), NEW u \in [1..Len(p) -> Nat],
           \A i \in 1..Len(p) : u[i] <= p[i].amount
    PROVE  /\ Reshaped(R, p, Cut(p, u))
           /\ \A i \in 1..Len(p) : Cut(p, u)[i].amount = p[i].amount - u[i]
<1> DEFINE a == [i \in 1..Len(p) |-> p[i].amount - u[i]]
<1>1. a \in [1..Len(p) -> Nat]
  BY CarriedIs
<1>2. \A i \in 1..Len(p) : a[i] = p[i].amount - u[i]
  OBVIOUS
<1> HIDE DEF a
<1>3. Cut(p, u) = SetTo(p, a)
  BY <1>2 DEF Cut, SetTo
<1> QED BY <1>1, <1>2, <1>3, SetToIs

\* The first k vintages are taken off.
LEMMA CarriedWithout ==
    ASSUME NEW R, Holders(R), NEW p \in Seq(R), NEW k \in 0..Len(p), NEW gone,
           \A i \in 1..Len(p) : i \in gone <=> i <= k
    PROVE  \A i \in 0..Len(p) :
              Carried(Without(p, gone))[i] = IF i <= k THEN 0 ELSE Carried(p)[i] - Carried(p)[k]
<1> DEFINE q == Without(p, gone)
           T == {i \in Nat : i <= Len(p) =>
                    Carried(q)[i] = IF i <= k THEN 0 ELSE Carried(p)[i] - Carried(p)[k]}
<1>0. /\ Len(p) \in Nat /\ q \in Seq(R) /\ Len(q) = Len(p)
      /\ \A i \in 1..Len(p) : q[i].amount = IF i <= k THEN 0 ELSE p[i].amount
      /\ \A i \in 0..Len(p) : Carried(p)[i] \in Nat
      /\ \A i \in 0..Len(p) : Carried(q)[i] \in Nat
  BY WithoutIs, CarriedIs DEF Reshaped
<1> HIDE DEF q
<1>1. \A i \in 1..Len(p) : /\ Carried(p)[i] = Carried(p)[i - 1] + p[i].amount
                           /\ p[i].amount \in Nat
  BY CarriedIs
<1>2. \A i \in 1..Len(p) : Carried(q)[i] = Carried(q)[i - 1] + q[i].amount
  <2>1. \A i \in 1..Len(q) : Carried(q)[i] = Carried(q)[i - 1] + q[i].amount
    BY <1>0, CarriedIs
  <2> QED BY <1>0, <2>1
<1>3. 0 \in T
  BY <1>0, CarriedIs
<1>4. ASSUME NEW i \in 0..(Len(p) - 1), i \in T
      PROVE  i + 1 \in T
  <2>1. i + 1 \in 1..Len(p) /\ i + 1 - 1 = i /\ i \in 0..Len(p)
    BY <1>0
  <2>2. /\ Carried(p)[i + 1] = Carried(p)[i] + p[i + 1].amount
        /\ Carried(q)[i + 1] = Carried(q)[i] + q[i + 1].amount
        /\ p[i + 1].amount \in Nat
    BY <1>1, <1>2, <2>1
  <2>3. q[i + 1].amount = IF i + 1 <= k THEN 0 ELSE p[i + 1].amount
    BY <1>0, <2>1
  <2>4. Carried(q)[i] = IF i <= k THEN 0 ELSE Carried(p)[i] - Carried(p)[k]
    BY <1>4, <2>1
  <2>5. /\ Carried(p)[i] \in Nat /\ Carried(q)[i] \in Nat /\ Carried(p)[k] \in Nat
    BY <1>0, <2>1
  <2>6. i = k => Carried(q)[i + 1] = Carried(p)[i + 1] - Carried(p)[k]
    BY <2>2, <2>3, <2>4, <2>5
  <2> QED BY SMTT(30), <1>0, <2>1, <2>2, <2>3, <2>4, <2>5, <2>6
<1>5. \A i \in 0..Len(p) : i \in T
  <2> HIDE DEF T
  <2> QED BY <1>0, <1>3, <1>4, Induct
<1> QED BY <1>5 DEF q

\* Using the oldest first takes the income from what the first vintages hold.
LEMMA CarriedUses ==
    ASSUME NEW R, Holders(R), NEW p \in Seq(R), NEW x \in Nat
    PROVE  /\ Reshaped(R, p, Cut(p, Uses(p, x)))
           /\ \A i \in 0..Len(p) :
                 Carried(Cut(p, Uses(p, x)))[i] = Atleast0(Carried(p)[i] - x)
<1> DEFINE u == Uses(p, x)
           q == Cut(p, u)
           T == {i \in Nat : i <= Len(p) => Carried(q)[i] = Atleast0(Carried(p)[i] - x)}
<1>0. /\ Len(p) \in Nat
      /\ \A i \in 0..Len(p) : Carried(p)[i] \in Nat
      /\ \A i \in 1..Len(p) : p[i].amount \in Nat /\ i - 1 \in 0..Len(p)
  <2>1. Len(p) \in Nat
    OBVIOUS
  <2>2. Carried(p) \in [0..Len(p) -> Nat] /\ \A i \in 1..Len(p) : p[i].amount \in Nat
    BY CarriedIs
  <2> QED BY <2>1, <2>2
<1>1. /\ u \in [1..Len(p) -> Nat]
      /\ \A i \in 1..Len(p) : /\ u[i] = Least(p[i].amount, Atleast0(x - Carried(p)[i - 1]))
                              /\ u[i] <= p[i].amount
  <2> DEFINE use(i) == Least(p[i].amount, Atleast0(x - Carried(p)[i - 1]))
  <2>1. \A i \in 1..Len(p) : use(i) \in Nat /\ use(i) <= p[i].amount
    BY SMTT(30), <1>0 DEF Least, Atleast0
  <2>2. u = [i \in 1..Len(p) |-> use(i)]
    BY DEF Uses
  <2> HIDE DEF u, use
  <2>3. u \in [1..Len(p) -> Nat] /\ \A i \in 1..Len(p) : u[i] = use(i)
    BY <2>1, <2>2
  <2> QED BY <2>1, <2>3 DEF use
<1> HIDE DEF u
<1>2. /\ Reshaped(R, p, q)
      /\ \A i \in 1..Len(p) : q[i].amount = p[i].amount - u[i]
  BY <1>1, CutIs
<1> HIDE DEF q
<1>3. q \in Seq(R) /\ Len(q) = Len(p)
  BY <1>2 DEF Reshaped
<1>4. 0 \in T
  BY <1>0, <1>3, CarriedIs DEF Atleast0
<1>5. ASSUME NEW i \in 0..(Len(p) - 1), i \in T
      PROVE  i + 1 \in T
  <2>1. i + 1 \in 1..Len(p) /\ i + 1 - 1 = i /\ i \in 0..Len(p)
    BY <1>0
  <2>2. /\ Carried(p)[i + 1] = Carried(p)[i] + p[i + 1].amount
        /\ Carried(q)[i + 1] = Carried(q)[i] + q[i + 1].amount
    BY <1>3, <2>1, CarriedIs
  <2>3. /\ q[i + 1].amount = p[i + 1].amount
                              - Least(p[i + 1].amount, Atleast0(x - Carried(p)[i]))
        /\ p[i + 1].amount \in Nat /\ Carried(p)[i] \in Nat
        /\ Carried(q)[i] = Atleast0(Carried(p)[i] - x)
    BY <1>0, <1>1, <1>2, <1>5, <2>1
  <2>4. Carried(q)[i + 1] = Atleast0(Carried(p)[i + 1] - x)
    BY SMTT(30), <2>2, <2>3 DEF Atleast0, Least
  <2> QED BY <1>5, <2>4
<1>6. \A i \in 0..Len(p) : i \in T
  <2> HIDE DEF T
  <2> QED BY <1>0, <1>4, <1>5, Induct
<1> QED BY <1>2, <1>6 DEF q, u

----------------------------------------------------------------------------
(* The one pass of the twin, and the uses of the rival.                    *)

\* A new vintage adds what it holds, and only at its own place.
LEMMA CarriedAppend ==
    ASSUME NEW R, Holders(R), NEW p \in Seq(R), NEW r \in R
    PROVE  /\ Append(p, r) \in Seq(R) /\ Len(Append(p, r)) = Len(p) + 1
           /\ \A i \in 1..Len(p) : Append(p, r)[i] = p[i]
           /\ Append(p, r)[Len(p) + 1] = r
           /\ \A i \in 0..Len(p) : Carried(Append(p, r))[i] = Carried(p)[i]
           /\ Carried(Append(p, r))[Len(p) + 1] = Carried(p)[Len(p)] + r.amount
<1> DEFINE q == Append(p, r)
           n == Len(p)
<1>1. /\ q \in Seq(R) /\ Len(q) = n + 1 /\ n \in Nat
      /\ \A i \in 1..n : q[i] = p[i]
      /\ q[n + 1] = r
  OBVIOUS
<1> HIDE DEF q, n
<1>2. n <= Len(p) /\ n <= Len(q)
  BY <1>1 DEF n
<1>3. \A i \in 0..n : Carried(p)[i] = Carried(q)[i]
  <2>1. \A i \in 1..n : p[i].amount = q[i].amount
    BY <1>1
  <2> QED BY <1>1, <1>2, <2>1, CarriedSame
<1>4. Carried(q)[n + 1] = Carried(q)[n] + q[n + 1].amount
  <2>1. n + 1 \in 1..Len(q) /\ n + 1 - 1 = n
    BY <1>1
  <2> QED BY <1>1, <2>1, CarriedIs
<1>5. n \in 0..n
  BY <1>1
<1> QED BY <1>1, <1>3, <1>4, <1>5 DEF q, n

\* What the one pass has left before each vintage.
IsLeft(p, x, l) ==
    l = [i \in 0..Len(p) |->
            IF i = 0 THEN x ELSE l[i - 1] - Least(p[i].amount, l[i - 1])]
LeftOf(p, x) == CHOOSE l : IsLeft(p, x, l)

\* The one pass finds what the sums of the ledger say.
LEMMA LeftIs ==
    ASSUME NEW R, Holders(R), NEW p \in Seq(R), NEW x \in Nat
    PROVE  \A i \in 0..Len(p) : LeftOf(p, x)[i] = Atleast0(x - Carried(p)[i])
<1> DEFINE n == Len(p)
           h == [i \in 0..n |-> Atleast0(x - Carried(p)[i])]
           L == LeftOf(p, x)
<1>0. /\ n \in Nat /\ \A i \in 0..n : Carried(p)[i] \in Nat
      /\ \A i \in 1..n : p[i].amount \in Nat /\ i - 1 \in 0..n
      /\ Carried(p)[0] = 0
      /\ \A i \in 1..n : Carried(p)[i] = Carried(p)[i - 1] + p[i].amount
  BY CarriedIs
<1>1. IsLeft(p, x, h)
  <2>1. ASSUME NEW i \in 0..n
        PROVE  h[i] = IF i = 0 THEN x ELSE h[i - 1] - Least(p[i].amount, h[i - 1])
    <3>1. CASE i = 0
      BY <1>0, <3>1 DEF Atleast0
    <3>2. CASE i # 0
      <4>1. i \in 1..n /\ i - 1 \in 0..n
        BY <1>0, <3>2
      <4>2. /\ h[i] = Atleast0(x - Carried(p)[i]) /\ h[i - 1] = Atleast0(x - Carried(p)[i - 1])
            /\ Carried(p)[i] = Carried(p)[i - 1] + p[i].amount
            /\ p[i].amount \in Nat /\ Carried(p)[i - 1] \in Nat
        BY <1>0, <4>1
      <4> HIDE DEF h
      <4> QED BY <3>2, <4>2 DEF Atleast0, Least
    <3> QED BY <3>1, <3>2
  <2>2. h = [i \in 0..n |-> h[i]]
    OBVIOUS
  <2> HIDE DEF h
  <2> QED BY <2>1, <2>2 DEF IsLeft
<1>2. IsLeft(p, x, L)
  <2> HIDE DEF h
  <2> QED BY <1>1 DEF LeftOf
<1>3. \A i \in 0..n : L[i] = IF i = 0 THEN x ELSE L[i - 1] - Least(p[i].amount, L[i - 1])
  <2> HIDE DEF L
  <2> QED BY <1>2 DEF IsLeft
<1> HIDE DEF L
<1> DEFINE T == {i \in Nat : i <= n => L[i] = Atleast0(x - Carried(p)[i])}
<1>4. 0 \in T
  BY <1>0, <1>3 DEF Atleast0
<1>5. ASSUME NEW i \in 0..(n - 1), i \in T
      PROVE  i + 1 \in T
  <2>1. i + 1 \in 1..n /\ i + 1 - 1 = i /\ i \in 0..n /\ i + 1 \in 0..n /\ i + 1 # 0
    BY <1>0
  <2>2. L[i + 1] = L[i] - Least(p[i + 1].amount, L[i])
    BY <1>3, <2>1
  <2>3. /\ L[i] = Atleast0(x - Carried(p)[i]) /\ Carried(p)[i] \in Nat
        /\ Carried(p)[i + 1] = Carried(p)[i] + p[i + 1].amount /\ p[i + 1].amount \in Nat
    BY <1>0, <1>5, <2>1
  <2>4. L[i + 1] = Atleast0(x - Carried(p)[i + 1])
    BY SMTT(30), <2>2, <2>3 DEF Atleast0, Least
  <2> QED BY <1>5, <2>4
<1>6. \A i \in 0..n : i \in T
  <2> HIDE DEF T
  <2> QED BY <1>0, <1>4, <1>5, Induct
<1> QED BY <1>6 DEF L

\* The one pass leaves and takes what the ledger does.
LEMMA FastUseIs ==
    ASSUME NEW R, Holders(R), NEW p \in Seq(R), NEW x \in Nat
    PROVE  /\ FastUse(p, x).left = Atleast0(x - Sum(p))
           /\ FastUse(p, x).pool = Cut(p, Uses(p, x))
<1> DEFINE L == LeftOf(p, x)
           u == [i \in 1..Len(p) |-> Least(p[i].amount, L[i - 1])]
<1>1. FastUse(p, x) = [left |-> L[Len(p)], pool |-> Cut(p, u)]
  BY DEF FastUse, LeftOf, IsLeft
<1>2. L[Len(p)] = Atleast0(x - Sum(p))
  <2>1. Len(p) \in 0..Len(p)
    OBVIOUS
  <2> QED BY <2>1, LeftIs DEF Sum
<1>3. u = Uses(p, x)
  <2>1. \A i \in 1..Len(p) : i - 1 \in 0..Len(p)
    OBVIOUS
  <2>2. \A i \in 1..Len(p) : L[i - 1] = Atleast0(x - Carried(p)[i - 1])
    BY <2>1, LeftIs
  <2> HIDE DEF L
  <2> QED BY <2>2 DEF Uses
<1> QED BY <1>1, <1>2, <1>3

\* What grows less in two steps grows less in both.
LEMMA LessAndLess ==
    ASSUME NEW a \in Nat, NEW b \in Nat, NEW c \in Nat,
           NEW x \in Nat, NEW y \in Nat, NEW z \in Nat,
           a - b <= x - y, b - c <= y - z
    PROVE  a - c <= x - z
OBVIOUS

\* What grows less at every step grows less in all.
LEMMA GrowsLess ==
    ASSUME NEW n \in Nat, NEW f \in [0..n -> Nat], NEW g \in [0..n -> Nat],
           \A m \in 1..n : g[m] - g[m - 1] <= f[m] - f[m - 1]
    PROVE  \A j \in 0..n : \A i \in 0..j : g[j] - g[i] <= f[j] - f[i]
<1> SUFFICES ASSUME NEW j \in 0..n, NEW i \in 0..j PROVE g[j] - g[i] <= f[j] - f[i]
  OBVIOUS
<1> DEFINE T == {m \in Nat : i <= m /\ m <= n => g[m] - g[i] <= f[m] - f[i]}
<1>1. 0 \in T
  OBVIOUS
<1>2. ASSUME NEW m \in 0..(n - 1), m \in T
      PROVE  m + 1 \in T
  <2>1. m + 1 \in 1..n /\ m \in 0..n /\ m + 1 \in 0..n
    OBVIOUS
  <2>2. g[m + 1] - g[m] <= f[m + 1] - f[m]
    BY <2>1
  <2>3. /\ g[m] \in Nat /\ f[m] \in Nat /\ g[m + 1] \in Nat /\ f[m + 1] \in Nat
        /\ g[i] \in Nat /\ f[i] \in Nat
    BY <2>1
  <2>4. CASE i <= m
    <3>1. g[m] - g[i] <= f[m] - f[i]
      BY <1>2, <2>4
    <3>2. g[m + 1] - g[i] <= f[m + 1] - f[i]
      <4> HIDE DEF T
      <4> QED BY SMTT(30), <2>2, <2>3, <3>1, LessAndLess
    <3> QED BY <2>1, <3>2
  <2>5. CASE i > m
    BY <2>1, <2>3, <2>5
  <2> QED BY <2>4, <2>5
<1>3. \A m \in 0..n : m \in T
  <2> HIDE DEF T
  <2> QED BY <1>1, <1>2, Induct
<1> QED BY <1>3

\* Any other use takes no more from the last vintages than they hold.
LEMMA AnyUseIs ==
    ASSUME NEW R, Holders(R), NEW p \in Seq(R), NEW x \in Nat, NEW q \in AnyUse(p, x)
    PROVE  /\ Reshaped(R, p, q) /\ Sum(q) = Atleast0(Sum(p) - x)
           /\ \A i \in 0..Len(p) : Sum(q) - Carried(q)[i] <= Sum(p) - Carried(p)[i]
<1> DEFINE n == Len(p)
           Holding == {i \in 1..n : p[i].amount > 0}
<1>1. PICK d \in [Holding -> 0..x] :
        LET u == [i \in 1..n |-> IF i \in Holding THEN d[i] ELSE 0]
        IN  /\ q = Cut(p, u) /\ \A i \in 1..n : u[i] <= p[i].amount
            /\ Sum(q) = Atleast0(Sum(p) - x)
  BY DEF AnyUse
<1> DEFINE u == [i \in 1..n |-> IF i \in Holding THEN d[i] ELSE 0]
<1>2. /\ u \in [1..n -> Nat] /\ q = Cut(p, u)
      /\ \A i \in 1..n : u[i] <= p[i].amount
      /\ Sum(q) = Atleast0(Sum(p) - x)
  <2>1. \A i \in 1..n : (IF i \in Holding THEN d[i] ELSE 0) \in Nat
    OBVIOUS
  <2> QED BY <1>1, <2>1
<1> HIDE DEF u
<1>3. /\ Reshaped(R, p, q) /\ \A i \in 1..n : q[i].amount = p[i].amount - u[i]
  BY <1>2, CutIs
<1>4. /\ n \in Nat /\ q \in Seq(R) /\ Len(q) = n
      /\ \A i \in 1..n : Carried(p)[i] = Carried(p)[i - 1] + p[i].amount
      /\ \A i \in 1..n : Carried(q)[i] = Carried(q)[i - 1] + q[i].amount
      /\ \A i \in 0..n : Carried(p)[i] \in Nat /\ Carried(q)[i] \in Nat
      /\ \A i \in 1..n : p[i].amount \in Nat /\ q[i].amount \in Nat /\ u[i] \in Nat
  <2>1. q \in Seq(R) /\ Len(q) = n
    BY <1>3 DEF Reshaped
  <2>2. \A i \in 1..n : u[i] \in Nat
    <3> HIDE DEF Holding
    <3> QED BY <1>2
  <2>3. /\ n \in Nat
        /\ \A i \in 1..n : Carried(p)[i] = Carried(p)[i - 1] + p[i].amount
        /\ \A i \in 0..n : Carried(p)[i] \in Nat
        /\ \A i \in 1..n : p[i].amount \in Nat
    BY CarriedIs
  <2>4. /\ \A i \in 1..Len(q) : Carried(q)[i] = Carried(q)[i - 1] + q[i].amount
        /\ \A i \in 0..Len(q) : Carried(q)[i] \in Nat
        /\ \A i \in 1..Len(q) : q[i].amount \in Nat
    BY <2>1, CarriedIs
  <2> HIDE DEF n, Holding
  <2> QED BY <2>1, <2>2, <2>3, <2>4
<1> HIDE DEF Holding
<1>5. /\ Carried(p) \in [0..n -> Nat] /\ Carried(q) \in [0..n -> Nat]
      /\ \A m \in 1..n : Carried(q)[m] - Carried(q)[m - 1] <= Carried(p)[m] - Carried(p)[m - 1]
  <2>1. Carried(p) \in [0..n -> Nat] /\ Carried(q) \in [0..n -> Nat]
    BY <1>4, CarriedIs
  <2>2. ASSUME NEW m \in 1..n
        PROVE  Carried(q)[m] - Carried(q)[m - 1] <= Carried(p)[m] - Carried(p)[m - 1]
    <3>1. m - 1 \in 0..n /\ m \in 0..n
      BY <1>4
    <3>2. q[m].amount = p[m].amount - u[m]
      BY <1>3
    <3>3. /\ Carried(p)[m] = Carried(p)[m - 1] + p[m].amount
          /\ Carried(q)[m] = Carried(q)[m - 1] + q[m].amount
          /\ p[m].amount \in Nat /\ u[m] \in Nat
          /\ Carried(p)[m - 1] \in Nat /\ Carried(q)[m - 1] \in Nat
      BY <1>4, <3>1
    <3> QED BY <3>2, <3>3
  <2> QED BY <2>1, <2>2
<1>6. \A i \in 0..n : Carried(q)[n] - Carried(q)[i] <= Carried(p)[n] - Carried(p)[i]
  <2> HIDE DEF n
  <2>1. n \in 0..n
    BY <1>4
  <2>2. \A i \in 0..n : Carried(q)[n] - Carried(q)[i] <= Carried(p)[n] - Carried(p)[i]
    BY <1>4, <1>5, <2>1, GrowsLess
  <2> QED BY <2>2
<1> QED BY <1>2, <1>3, <1>4, <1>6 DEF Sum

----------------------------------------------------------------------------
(* The ledger and its rival.                                               *)

\* The vintages of the ledger and the buckets of the rolling schedule.
Vint == [last : Int, amount : Nat]
Buck == [expiry : Int, amount : Nat]

\* The amount of a vintage may be set; it lasts as long as before.
LEMMA VintIs ==
    /\ Holders(Vint)
    /\ \A r \in Vint, a \in Nat : [r EXCEPT !.amount = a].last = r.last
BY DEF Holders, Vint

\* The amount of a bucket may be set; it expires when it did.
LEMMA BuckIs ==
    /\ Holders(Buck)
    /\ \A r \in Buck, a \in Nat : [r EXCEPT !.amount = a].expiry = r.expiry
BY DEF Holders, Buck

\* Other amounts do not change how long a vintage lasts.
LEMMA LastsKept ==
    ASSUME NEW p \in Seq(Vint), NEW q, Reshaped(Vint, p, q)
    PROVE  \A i \in 1..Len(p) : q[i].last = p[i].last
<1> SUFFICES ASSUME NEW i \in 1..Len(p) PROVE q[i].last = p[i].last
  OBVIOUS
<1>1. PICK a \in Nat : q[i] = [p[i] EXCEPT !.amount = a]
  BY DEF Reshaped
<1>2. p[i] \in Vint
  OBVIOUS
<1> QED BY <1>1, <1>2, VintIs

\* Other amounts do not change when a bucket expires.
LEMMA ExpiriesKept ==
    ASSUME NEW p \in Seq(Buck), NEW q, Reshaped(Buck, p, q)
    PROVE  \A i \in 1..Len(p) : q[i].expiry = p[i].expiry
<1> SUFFICES ASSUME NEW i \in 1..Len(p) PROVE q[i].expiry = p[i].expiry
  OBVIOUS
<1>1. PICK a \in Nat : q[i] = [p[i] EXCEPT !.amount = a]
  BY DEF Reshaped
<1>2. p[i] \in Buck
  OBVIOUS
<1> QED BY <1>1, <1>2, BuckIs

\* Oldest first.
Sorted(p) == \A i, j \in 1..Len(p) : i <= j => p[i].last <= p[j].last

\* What has expired of a pool in order are its first vintages.
LEMMA FirstExpire ==
    ASSUME NEW p \in Seq(Vint), Sorted(p), NEW t \in Int
    PROVE  \E k \in 0..Len(p) : \A i \in 1..Len(p) : i \in Expired(p, t) <=> i <= k
<1> DEFINE S == {j \in 0..Len(p) : \A i \in 1..Len(p) : i > j => p[i].last >= t}
<1>0. Len(p) \in Nat /\ \A i \in 1..Len(p) : p[i].last \in Int
  <2>1. Len(p) \in Nat /\ \A i \in 1..Len(p) : p[i] \in Vint
    OBVIOUS
  <2> QED BY <2>1 DEF Vint
<1>1. S \subseteq Nat /\ Len(p) \in S
  BY <1>0
<1>2. PICK k \in S : \A j \in S : k <= j
  <2> HIDE DEF S
  <2> QED BY <1>1, LeastOf
<1>3. ASSUME NEW i \in 1..Len(p), i <= k
      PROVE  p[i].last < t
  <2> SUFFICES ASSUME p[i].last >= t PROVE FALSE
    BY <1>0
  <2>1. i - 1 \in 0..Len(p)
    BY <1>0
  <2>2. \A l \in 1..Len(p) : l > i - 1 => p[l].last >= t
    BY <1>0 DEF Sorted
  <2>3. i - 1 \in S
    BY <2>1, <2>2
  <2>4. k \in Nat /\ k <= i - 1
    BY <1>1, <1>2, <2>3
  <2> HIDE DEF S
  <2> QED BY <1>0, <1>3, <2>4
<1>4. k \in 0..Len(p) /\ \A i \in 1..Len(p) : i > k => ~ (p[i].last < t)
  BY <1>0, <1>2
<1>5. \A i \in 1..Len(p) : i <= k \/ i > k
  BY <1>0, <1>4
<1> HIDE DEF S
<1>6. \A i \in 1..Len(p) : p[i].last < t <=> i <= k
  BY <1>0, <1>3, <1>4, <1>5
<1> QED BY <1>4, <1>6 DEF Expired

\* The live part of a pool in order, by the number k of expired vintages.
LEMMA LiveIs ==
    ASSUME NEW p \in Seq(Vint), NEW t \in Int, NEW k \in 0..Len(p),
           \A i \in 1..Len(p) : i \in Expired(p, t) <=> i <= k
    PROVE  /\ Reshaped(Vint, p, Live(p, t))
           /\ \A i \in 0..Len(p) :
                 Carried(Live(p, t))[i] = IF i <= k THEN 0 ELSE Carried(p)[i] - Carried(p)[k]
BY VintIs, WithoutIs, CarriedWithout DEF Live

\* The same vintages with other amounts.
Alike(p, q) ==
    /\ p \in Seq(Vint) /\ q \in Seq(Vint) /\ Len(p) = Len(q)
    /\ \A i \in 1..Len(p) : p[i].last = q[i].last

\* p with other amounts is alike p.
LEMMA ReshapedAlike ==
    ASSUME NEW p \in Seq(Vint), NEW q, Reshaped(Vint, p, q)
    PROVE  Alike(p, q)
<1>1. q \in Seq(Vint) /\ Len(q) = Len(p)
  BY DEF Reshaped
<1>2. \A i \in 1..Len(p) : q[i].last = p[i].last
  BY LastsKept
<1> QED BY <1>1, <1>2 DEF Alike

\* d, what the rival has paid more, makes up for what it holds more, in the
\* youngest vintages as in all of them.
Behind(p, r, d) ==
    /\ d \in Nat
    /\ \A i \in 0..Len(p) : Sum(r) - Carried(r)[i] <= Sum(p) - Carried(p)[i] + d

\* When the same years expire, the rival stays behind.
LEMMA BehindLive ==
    ASSUME NEW p, NEW r, NEW d, Alike(p, r), Sorted(p), Behind(p, r, d), NEW t \in Int
    PROVE  Alike(Live(p, t), Live(r, t)) /\ Behind(Live(p, t), Live(r, t), d)
<1>0. Len(p) \in Nat /\ Len(p) = Len(r) /\ p \in Seq(Vint) /\ r \in Seq(Vint)
  BY DEF Alike
<1>1. PICK k \in 0..Len(p) : \A i \in 1..Len(p) : i \in Expired(p, t) <=> i <= k
  BY <1>0, FirstExpire
<1>2. \A i \in 1..Len(r) : i \in Expired(r, t) <=> i <= k
  BY <1>0, <1>1 DEF Expired, Alike
<1>3. /\ Reshaped(Vint, p, Live(p, t)) /\ Reshaped(Vint, r, Live(r, t))
      /\ \A i \in 0..Len(p) :
            /\ Carried(Live(p, t))[i] = IF i <= k THEN 0 ELSE Carried(p)[i] - Carried(p)[k]
            /\ Carried(Live(r, t))[i] = IF i <= k THEN 0 ELSE Carried(r)[i] - Carried(r)[k]
  BY <1>0, <1>1, <1>2, LiveIs
<1>4. Alike(p, Live(p, t)) /\ Alike(r, Live(r, t))
  BY <1>0, <1>3, ReshapedAlike
<1>5. Alike(Live(p, t), Live(r, t))
  BY <1>4 DEF Alike
<1> DEFINE P == Live(p, t)
           Q == Live(r, t)
<1> HIDE DEF P, Q
<1>6. Len(P) = Len(p) /\ Len(Q) = Len(p)
  BY <1>0, <1>3 DEF Reshaped, P, Q
<1>7. \A i \in 0..Len(p) : Carried(p)[i] \in Nat /\ Carried(r)[i] \in Nat
  BY <1>0, VintIs, CarriedIs
<1>8. ASSUME NEW i \in 0..Len(p)
      PROVE  Carried(Q)[Len(p)] - Carried(Q)[i] <= Carried(P)[Len(p)] - Carried(P)[i] + d
  <2> DEFINE n == Len(p)
  <2>1. /\ Carried(P)[i] = (IF i <= k THEN 0 ELSE Carried(p)[i] - Carried(p)[k])
        /\ Carried(P)[n] = (IF n <= k THEN 0 ELSE Carried(p)[n] - Carried(p)[k])
        /\ Carried(Q)[i] = (IF i <= k THEN 0 ELSE Carried(r)[i] - Carried(r)[k])
        /\ Carried(Q)[n] = (IF n <= k THEN 0 ELSE Carried(r)[n] - Carried(r)[k])
    BY <1>0, <1>3 DEF P, Q
  <2>2. /\ Carried(r)[n] - Carried(r)[k] <= Carried(p)[n] - Carried(p)[k] + d
        /\ Carried(r)[n] - Carried(r)[i] <= Carried(p)[n] - Carried(p)[i] + d
    BY <1>0 DEF Behind, Sum
  <2>3. /\ Carried(p)[i] \in Nat /\ Carried(p)[k] \in Nat /\ Carried(p)[n] \in Nat
        /\ Carried(r)[i] \in Nat /\ Carried(r)[k] \in Nat /\ Carried(r)[n] \in Nat
        /\ n \in Nat /\ k <= n
    BY <1>0, <1>7
  <2>4. d \in Nat
    BY DEF Behind
  <2> HIDE DEF n
  <2>5. CASE i <= k /\ k < n
    BY <2>1, <2>2, <2>3, <2>4, <2>5 DEF n
  <2>6. CASE i > k
    <3>1. ~ (i <= k) /\ ~ (n <= k)
      BY <2>3, <2>6 DEF n
    <3>2. /\ Carried(P)[i] = Carried(p)[i] - Carried(p)[k]
          /\ Carried(P)[n] = Carried(p)[n] - Carried(p)[k]
          /\ Carried(Q)[i] = Carried(r)[i] - Carried(r)[k]
          /\ Carried(Q)[n] = Carried(r)[n] - Carried(r)[k]
      BY <2>1, <3>1
    <3>3. Carried(Q)[n] - Carried(Q)[i] = Carried(r)[n] - Carried(r)[i]
      BY <2>3, <3>2
    <3>4. Carried(P)[n] - Carried(P)[i] = Carried(p)[n] - Carried(p)[i]
      BY <2>3, <3>2
    <3> QED BY <2>2, <3>3, <3>4 DEF n
  <2>7. CASE i <= k /\ n = k
    BY <2>1, <2>3, <2>4, <2>7 DEF n
  <2> QED BY <2>3, <2>5, <2>6, <2>7 DEF n
<1>9. Behind(P, Q, d)
  BY <1>6, <1>8 DEF Behind, Sum
<1> QED BY <1>5, <1>9 DEF P, Q

\* The numbers of the next lemma, for one i: of the pool, a in all and b in the
\* first i; of the rival, e and f, and g and h after its use.
LEMMA BehindNumbers ==
    ASSUME NEW a \in Nat, NEW b \in Nat, NEW e \in Nat, NEW f \in Nat,
           NEW g \in Nat, NEW h \in Nat, NEW d \in Nat, NEW x \in Nat,
           b <= a, e <= a + d, e - f <= a - b + d,
           g = Atleast0(e - x), g - h <= e - f
    PROVE  /\ d + Atleast0(x - e) - Atleast0(x - a) \in Nat
           /\ g - h <= Atleast0(a - x) - Atleast0(b - x)
                         + (d + Atleast0(x - e) - Atleast0(x - a))
<1>1. CASE x < e /\ x < a
  BY <1>1 DEF Atleast0
<1>2. CASE x < e /\ x >= a
  BY <1>2 DEF Atleast0
<1>3. CASE x >= e /\ x < a
  BY <1>3 DEF Atleast0
<1>4. CASE x >= e /\ x >= a
  BY <1>4 DEF Atleast0
<1> QED BY <1>1, <1>2, <1>3, <1>4

\* When both use losses against one income, the rival stays behind.
LEMMA BehindUse ==
    ASSUME NEW p, NEW r, NEW d, Alike(p, r), Behind(p, r, d), NEW x \in Nat,
           NEW q \in AnyUse(r, x)
    PROVE  /\ Alike(Cut(p, Uses(p, x)), q)
           /\ Behind(Cut(p, Uses(p, x)), q,
                     d + Atleast0(x - Sum(r)) - Atleast0(x - Sum(p)))
<1> DEFINE P == Cut(p, Uses(p, x))
           n == Len(p)
<1>0. n \in Nat /\ Len(r) = n /\ p \in Seq(Vint) /\ r \in Seq(Vint)
  BY DEF Alike
<1>1. /\ Reshaped(Vint, p, P) /\ Reshaped(Vint, r, q)
      /\ \A i \in 0..n : Carried(P)[i] = Atleast0(Carried(p)[i] - x)
      /\ Sum(q) = Atleast0(Sum(r) - x)
      /\ \A i \in 0..n : Sum(q) - Carried(q)[i] <= Sum(r) - Carried(r)[i]
  BY <1>0, VintIs, CarriedUses, AnyUseIs
<1>2. Alike(p, P) /\ Alike(r, q)
  BY <1>0, <1>1, ReshapedAlike
<1>3. Alike(P, q) /\ Len(P) = n /\ Len(q) = n
  BY <1>0, <1>2 DEF Alike
<1> HIDE DEF P
<1>4. ASSUME NEW i \in 0..n
      PROVE  /\ d + Atleast0(x - Sum(r)) - Atleast0(x - Sum(p)) \in Nat
             /\ Sum(q) - Carried(q)[i] <= Sum(P) - Carried(P)[i]
                                  + (d + Atleast0(x - Sum(r)) - Atleast0(x - Sum(p)))
  <2>1. /\ Carried(p)[i] \in Nat /\ Carried(r)[i] \in Nat /\ Carried(q)[i] \in Nat
        /\ Sum(p) \in Nat /\ Sum(r) \in Nat /\ Sum(q) \in Nat
        /\ Carried(p)[0] = 0 /\ Carried(r)[0] = 0
    <3>1. q \in Seq(Vint)
      BY <1>1 DEF Reshaped
    <3> QED BY <1>0, <1>3, <3>1, VintIs, CarriedIs DEF Sum
  <2>2. Carried(p)[i] <= Sum(p)
    BY <1>0, VintIs, CarriedGrows DEF Sum
  <2>3. Sum(r) <= Sum(p) + d
    <3>1. Sum(r) - Carried(r)[0] <= Sum(p) - Carried(p)[0] + d
      BY <1>0 DEF Behind
    <3>2. d \in Nat
      BY DEF Behind
    <3> QED BY <2>1, <3>1, <3>2
  <2>4. Sum(r) - Carried(r)[i] <= Sum(p) - Carried(p)[i] + d /\ d \in Nat
    BY DEF Behind
  <2>5. Sum(P) = Atleast0(Sum(p) - x) /\ Carried(P)[i] = Atleast0(Carried(p)[i] - x)
    <3>1. n \in 0..n
      BY <1>0
    <3> QED BY <1>1, <1>3, <3>1 DEF Sum
  <2>6. /\ Sum(q) = Atleast0(Sum(r) - x)
        /\ Sum(q) - Carried(q)[i] <= Sum(r) - Carried(r)[i]
    BY <1>1
  <2> DEFINE a == Sum(p)
             b == Carried(p)[i]
             e == Sum(r)
             f == Carried(r)[i]
             g == Sum(q)
             h == Carried(q)[i]
  <2>7. /\ a \in Nat /\ b \in Nat /\ e \in Nat /\ f \in Nat /\ g \in Nat /\ h \in Nat
        /\ d \in Nat /\ b <= a /\ e <= a + d /\ e - f <= a - b + d
        /\ g = Atleast0(e - x) /\ g - h <= e - f
    BY <2>1, <2>2, <2>3, <2>4, <2>6 DEF n
  <2>8. /\ d + Atleast0(x - e) - Atleast0(x - a) \in Nat
        /\ g - h <= Atleast0(a - x) - Atleast0(b - x)
                      + (d + Atleast0(x - e) - Atleast0(x - a))
    <3> HIDE DEF a, b, e, f, g, h
    <3> QED BY <2>7, BehindNumbers
  <2> QED BY <2>5, <2>8
<1>5. d + Atleast0(x - Sum(r)) - Atleast0(x - Sum(p)) \in Nat
  <2>1. 0 \in 0..n
    BY <1>0
  <2> QED BY <1>4, <2>1
<1>6. Behind(P, q, d + Atleast0(x - Sum(r)) - Atleast0(x - Sum(p)))
  BY <1>3, <1>4, <1>5 DEF Behind
<1> QED BY <1>3, <1>6 DEF P

\* When both add one loss, the rival stays behind.
LEMMA BehindAppend ==
    ASSUME NEW p, NEW r, NEW d, Alike(p, r), Behind(p, r, d), NEW v \in Vint
    PROVE  Alike(Append(p, v), Append(r, v)) /\ Behind(Append(p, v), Append(r, v), d)
<1> DEFINE P == Append(p, v)
           Q == Append(r, v)
           n == Len(p)
<1>0. n \in Nat /\ Len(r) = n /\ p \in Seq(Vint) /\ r \in Seq(Vint)
  BY DEF Alike
<1>1. /\ P \in Seq(Vint) /\ Len(P) = n + 1
      /\ \A i \in 1..n : P[i] = p[i]
      /\ P[n + 1] = v
      /\ \A i \in 0..n : Carried(P)[i] = Carried(p)[i]
      /\ Carried(P)[n + 1] = Carried(p)[n] + v.amount
  BY <1>0, VintIs, CarriedAppend
<1>2. /\ Q \in Seq(Vint) /\ Len(Q) = n + 1
      /\ \A i \in 1..n : Q[i] = r[i]
      /\ Q[n + 1] = v
      /\ \A i \in 0..n : Carried(Q)[i] = Carried(r)[i]
      /\ Carried(Q)[n + 1] = Carried(r)[n] + v.amount
  BY <1>0, VintIs, CarriedAppend
<1> HIDE DEF P, Q
<1>3. Alike(P, Q)
  <2>1. \A i \in 1..n : p[i].last = r[i].last
    BY DEF Alike
  <2>2. \A i \in 1..(n + 1) : i \in 1..n \/ i = n + 1
    BY <1>0
  <2> HIDE DEF n
  <2> QED BY <1>1, <1>2, <2>1, <2>2 DEF Alike
<1>4. ASSUME NEW i \in 0..(n + 1)
      PROVE  Sum(Q) - Carried(Q)[i] <= Sum(P) - Carried(P)[i] + d
  <2>1. /\ Sum(Q) = Carried(r)[n] + v.amount /\ Sum(P) = Carried(p)[n] + v.amount
        /\ v.amount \in Nat /\ Carried(r)[n] \in Nat /\ Carried(p)[n] \in Nat
        /\ d \in Nat
    <3>1. Carried(r)[n] \in Nat /\ Carried(p)[n] \in Nat
      BY <1>0, VintIs, CarriedIs
    <3>2. Sum(Q) = Carried(Q)[n + 1] /\ Sum(P) = Carried(P)[n + 1]
      BY <1>1, <1>2 DEF Sum
    <3> QED BY <1>1, <1>2, <3>1, <3>2 DEF Vint, Behind
  <2>2. CASE i = n + 1
    <3>1. Carried(Q)[i] = Sum(Q) /\ Carried(P)[i] = Sum(P)
      BY <1>1, <1>2, <2>2 DEF Sum
    <3> QED BY <2>1, <3>1
  <2>3. CASE i \in 0..n
    <3>1. Carried(Q)[i] = Carried(r)[i] /\ Carried(P)[i] = Carried(p)[i]
      BY <1>1, <1>2, <2>3
    <3>2. Carried(r)[n] - Carried(r)[i] <= Carried(p)[n] - Carried(p)[i] + d
      BY <1>0, <2>3 DEF Behind, Sum
    <3>3. Carried(r)[i] \in Nat /\ Carried(p)[i] \in Nat
      BY <1>0, <2>3, VintIs, CarriedIs
    <3> QED BY SMTT(30), <2>1, <3>1, <3>2, <3>3
  <2> QED BY <1>0, <2>2, <2>3
<1>5. Behind(P, Q, d)
  BY <1>1, <1>4 DEF Behind
<1> QED BY <1>3, <1>5 DEF P, Q

----------------------------------------------------------------------------
(* The invariant of the ledger, its twin and its rival.                    *)

\* A pool in order, none of it younger than the year t allows.
InOrder(p, t) ==
    /\ p \in Seq(Vint) /\ Sorted(p)
    /\ \A i \in 1..Len(p) : p[i].last <= t + policy.lcf

\* A pool stays in order when the year's vintage is added.
LEMMA InOrderAppend ==
    ASSUME NEW p, NEW q, NEW v \in Vint, year \in Nat, policy.lcf \in Nat,
           InOrder(p, year), Alike(p, q), v.last = year + policy.lcf
    PROVE  /\ Append(q, v) \in Seq(Vint) /\ Sorted(Append(q, v))
           /\ \A i \in 1..Len(Append(q, v)) : Append(q, v)[i].last <= year + policy.lcf
<1> DEFINE Q == Append(q, v)
           n == Len(q)
<1>0. n \in Nat /\ n = Len(p) /\ q \in Seq(Vint) /\ \A i \in 1..n : q[i].last \in Int
  <2>1. n \in Nat /\ n = Len(p) /\ q \in Seq(Vint) /\ \A i \in 1..n : q[i] \in Vint
    BY DEF Alike
  <2> QED BY <2>1 DEF Vint
<1>1. Q \in Seq(Vint) /\ Len(Q) = n + 1 /\ \A i \in 1..n : Q[i] = q[i]
  BY <1>0
<1>2. Q[n + 1] = v
  BY <1>0
<1> HIDE DEF Q, n
<1>3. \A i \in 1..n : Q[i].last = p[i].last
  BY <1>0, <1>1 DEF Alike
<1>4. \A i \in 1..(n + 1) : Q[i].last \in Int /\ Q[i].last <= year + policy.lcf
  <2>1. \A i \in 1..(n + 1) : i \in 1..n \/ i = n + 1
    BY <1>0
  <2>2. \A i \in 1..n : Q[i].last \in Int /\ Q[i].last <= year + policy.lcf
    BY <1>0, <1>1, <1>3 DEF InOrder
  <2> QED BY <1>2, <2>1, <2>2
<1>5. Sorted(Q)
  <2> SUFFICES ASSUME NEW i \in 1..(n + 1), NEW j \in 1..(n + 1), i <= j
               PROVE  Q[i].last <= Q[j].last
    BY <1>1 DEF Sorted
  <2>1. CASE j = n + 1
    BY <1>2, <1>4, <2>1
  <2>2. CASE j # n + 1
    <3>1. i \in 1..n /\ j \in 1..n
      BY <1>0, <2>2
    <3> QED BY <1>0, <1>3, <3>1 DEF InOrder, Sorted
  <2> QED BY <2>1, <2>2
<1> QED BY <1>1, <1>4, <1>5 DEF Q

LedgerInv ==
    /\ year \in Nat /\ policy \in [lcf : Nat, strict : BOOLEAN]
    /\ InOrder(pool, year)
    /\ taxed.ledger \in Int /\ taxed.rival \in Int
    /\ fast = pool /\ taxed.fast = taxed.ledger
    /\ Alike(pool, rival) /\ Behind(pool, rival, taxed.rival - taxed.ledger)

\* The pools are in order, and equal, at first.
LEMMA LedgerInvInit == LedgerInit => LedgerInv
<1> SUFFICES ASSUME LedgerInit PROVE LedgerInv
  OBVIOUS
<1>1. PICK o \in Openings : \E f \in Orders(o) :
          /\ pool = [i \in 1..Len(o) |-> Vintage(o[f[i]].origin, o[f[i]].amount)]
          /\ fast = pool /\ rival = pool
  BY DEF LedgerInit
<1>2. PICK f \in Orders(o) :
          /\ pool = [i \in 1..Len(o) |-> Vintage(o[f[i]].origin, o[f[i]].amount)]
          /\ fast = pool /\ rival = pool
  BY <1>1
<1>3. /\ year = 0 /\ policy \in [lcf : Nat, strict : BOOLEAN]
      /\ taxed = [ledger |-> 0, fast |-> 0, rolling |-> 0, rival |-> 0]
  BY LedgerAssumption DEF LedgerInit, Parameters
<1> DEFINE n == Len(o)
           v(i) == Vintage(o[f[i]].origin, o[f[i]].amount)
<1>4. /\ n \in Nat /\ f \in [1..n -> 1..n]
      /\ \A i \in 1..n : /\ o[i] \in [origin : Int, amount : Nat] /\ o[i].origin <= 0
      /\ \A i, j \in 1..n : i < j => Older(o, f[i], f[j])
  <2>1. /\ o \in Seq([origin : Int, amount : Nat])
        /\ \A i \in 1..n : o[i].origin <= 0
    BY LedgerAssumption DEF Parameters
  <2>2. n \in Nat /\ \A i \in 1..n : o[i] \in [origin : Int, amount : Nat]
    <3> DEFINE S == [origin : Int, amount : Nat]
    <3>1. o \in Seq(S)
      BY <2>1
    <3> HIDE DEF S
    <3>2. n \in Nat /\ \A i \in 1..n : o[i] \in S
      BY <3>1
    <3> QED BY <3>2 DEF S
  <2>3. f \in [1..n -> 1..n] /\ \A i, j \in 1..n : i < j => Older(o, f[i], f[j])
    BY DEF Orders
  <2> QED BY <2>1, <2>2, <2>3
<1>5. \A i \in 1..n : /\ f[i] \in 1..n
                      /\ o[f[i]].origin \in Int /\ o[f[i]].origin <= 0
                      /\ o[f[i]].amount \in Nat
  BY <1>4
<1>6. \A i \in 1..n : /\ v(i) \in Vint /\ v(i).last = o[f[i]].origin + policy.lcf
  BY <1>3, <1>5 DEF Vintage, Vint
<1> HIDE DEF v
<1>7. /\ pool \in Seq(Vint) /\ Len(pool) = n /\ \A i \in 1..n : pool[i] = v(i)
  <2>1. pool = [i \in 1..n |-> v(i)]
    BY <1>2 DEF v
  <2> QED BY <1>4, <1>6, <2>1
<1> HIDE DEF n
<1>8. Sorted(pool)
  <2> SUFFICES ASSUME NEW i \in 1..n, NEW j \in 1..n, i <= j
               PROVE  pool[i].last <= pool[j].last
    BY <1>7 DEF Sorted
  <2>1. o[f[i]].origin <= o[f[j]].origin
    <3>1. CASE i = j
      BY <1>5, <3>1
    <3>2. CASE i # j
      <4>1. i < j
        BY <1>4, <3>2
      <4>2. Older(o, f[i], f[j])
        BY <1>4, <4>1
      <4> QED BY <1>5, <4>2 DEF Older
    <3> QED BY <3>1, <3>2
  <2>2. policy.lcf \in Nat
    BY <1>3
  <2>3. /\ pool[i].last = o[f[i]].origin + policy.lcf
        /\ pool[j].last = o[f[j]].origin + policy.lcf
    BY <1>6, <1>7
  <2>4. o[f[i]].origin \in Int /\ o[f[j]].origin \in Int
    BY <1>5
  <2> QED BY <2>1, <2>2, <2>3, <2>4
<1>9. \A i \in 1..Len(pool) : pool[i].last <= year + policy.lcf
  <2> SUFFICES ASSUME NEW i \in 1..n PROVE pool[i].last <= year + policy.lcf
    BY <1>7
  <2>1. pool[i].last = o[f[i]].origin + policy.lcf
    BY <1>6, <1>7
  <2> QED BY <1>3, <1>5, <2>1
<1>10. Behind(pool, pool, 0)
  <2>1. \A i \in 0..Len(pool) : Carried(pool)[i] \in Nat
    BY <1>7, VintIs, CarriedIs
  <2>2. Len(pool) \in 0..Len(pool)
    BY <1>7
  <2> QED BY <2>1, <2>2 DEF Behind, Sum
<1>11. Alike(pool, pool)
  BY <1>7 DEF Alike
<1>12. /\ taxed.ledger \in Int /\ taxed.rival \in Int /\ taxed.rival - taxed.ledger = 0
       /\ taxed.fast = taxed.ledger /\ year \in Nat
  BY <1>3
<1>13. InOrder(pool, year)
  BY <1>7, <1>8, <1>9 DEF InOrder
<1>14. Alike(pool, rival) /\ Behind(pool, rival, 0) /\ fast = pool
  BY <1>2, <1>10, <1>11
<1> QED BY <1>3, <1>12, <1>13, <1>14 DEF LedgerInv

\* A year at the ledger, its twin and the rival.
LEMMA YearKeeps ==
    ASSUME LedgerInv, NEW income \in Int, NEW allowed \in BOOLEAN, Year(income, allowed)
    PROVE  LedgerInv'
<1> DEFINE p == Live(pool, year)
           r == Live(rival, year)
           new == Vintage(year, Atleast0(-income))
           d == taxed.rival - taxed.ledger
           used == income > 0 /\ allowed
           P == IF used THEN Cut(p, Uses(p, income)) ELSE p
<1>0. /\ year \in Nat /\ policy \in [lcf : Nat, strict : BOOLEAN] /\ policy.lcf \in Nat
      /\ InOrder(pool, year) /\ pool \in Seq(Vint) /\ Sorted(pool)
      /\ taxed.ledger \in Int /\ taxed.rival \in Int
      /\ fast = pool /\ taxed.fast = taxed.ledger
      /\ Alike(pool, rival) /\ Behind(pool, rival, d)
  BY DEF LedgerInv, InOrder
<1>1. new \in Vint /\ new.last = year + policy.lcf
  BY <1>0 DEF Vintage, Vint, Atleast0
<1>2. Alike(p, r) /\ Behind(p, r, d)
  BY <1>0, BehindLive
<1>3. Alike(pool, p)
  <2>1. Reshaped(Vint, pool, p)
    BY <1>0, VintIs, WithoutIs DEF Live
  <2> QED BY <1>0, <2>1, ReshapedAlike
<1>4. /\ p \in Seq(Vint) /\ r \in Seq(Vint) /\ Sum(p) \in Nat /\ Sum(r) \in Nat
  BY <1>2, VintIs, CarriedIs DEF Alike, Sum
<1>5. Alike(p, P)
  <2>1. Alike(p, p)
    BY <1>4 DEF Alike
  <2>2. CASE used
    BY <1>4, <2>2, VintIs, CarriedUses, ReshapedAlike
  <2> QED BY <2>1, <2>2
<1>6. /\ year' = year + 1 /\ policy' = policy
      /\ pool' = Append(P, new)
      /\ taxed'.ledger = taxed.ledger + Taxable(p, income, allowed)
      /\ taxed'.rival = taxed.rival + Taxable(r, income, allowed)
      /\ taxed'.fast = taxed.fast + FastGated(p, income, allowed).left
      /\ fast' = Append(FastGated(p, income, allowed).pool, new)
      /\ \E left \in (IF used THEN AnyUse(r, income) ELSE {r}) : rival' = Append(left, new)
  BY <1>0 DEF Year, AfterYear
<1>7. PICK R \in (IF used THEN AnyUse(r, income) ELSE {r}) : rival' = Append(R, new)
  BY <1>6
<1> HIDE DEF p, r, new
<1>8. /\ FastGated(p, income, allowed).pool = P
      /\ FastGated(p, income, allowed).left = Taxable(p, income, allowed)
  <2>1. CASE used
    BY <1>4, <2>1, VintIs, FastUseIs DEF FastGated, Taxable
  <2>2. CASE ~used
    BY <1>4, <2>2 DEF FastGated, Taxable, Atleast0
  <2> QED BY <2>1, <2>2
<1>9. /\ Taxable(p, income, allowed) \in Int /\ Taxable(r, income, allowed) \in Int
  BY <1>4 DEF Taxable, Atleast0
<1> DEFINE e == d + Taxable(r, income, allowed) - Taxable(p, income, allowed)
<1>10. Alike(P, R) /\ Behind(P, R, e)
  <2>1. CASE used
    <3>1. R \in AnyUse(r, income) /\ P = Cut(p, Uses(p, income)) /\ income \in Nat
      BY <1>7, <2>1
    <3>2. e = d + Atleast0(income - Sum(r)) - Atleast0(income - Sum(p))
      BY <2>1 DEF Taxable
    <3> HIDE DEF P, d, e
    <3> QED BY <1>2, <3>1, <3>2, BehindUse
  <2>2. CASE ~used
    <3>1. Taxable(r, income, allowed) = Taxable(p, income, allowed)
      BY <1>4, <2>2 DEF Taxable, Atleast0
    <3>2. R = r /\ P = p
      BY <1>7, <2>2
    <3>3. e = d
      BY <1>0, <1>9, <3>1
    <3> HIDE DEF P, d, e
    <3> QED BY <1>2, <3>2, <3>3
  <2> QED BY <2>1, <2>2
<1>11. e = taxed'.rival - taxed'.ledger
  BY <1>0, <1>6, <1>9
<1>12. Alike(pool', rival') /\ Behind(pool', rival', taxed'.rival - taxed'.ledger)
  <2> HIDE DEF P, e
  <2> QED BY <1>1, <1>6, <1>7, <1>10, <1>11, BehindAppend
<1>13. InOrder(pool, year) /\ Alike(pool, P)
  BY <1>0, <1>3, <1>5 DEF Alike
<1>14. /\ pool' \in Seq(Vint) /\ Sorted(pool')
       /\ \A i \in 1..Len(pool') : pool'[i].last \in Int /\ pool'[i].last <= year + policy.lcf
  <2> HIDE DEF P
  <2>1. /\ pool' \in Seq(Vint) /\ Sorted(pool')
        /\ \A i \in 1..Len(pool') : pool'[i].last <= year + policy.lcf
    BY <1>0, <1>1, <1>6, <1>13, InOrderAppend
  <2>2. \A i \in 1..Len(pool') : pool'[i] \in Vint
    BY <2>1
  <2> QED BY <2>1, <2>2 DEF Vint
<1>15. InOrder(pool, year)'
  <2>1. \A i \in 1..Len(pool') : pool'[i].last <= year' + policy'.lcf
    <3>1. ASSUME NEW i \in 1..Len(pool') PROVE pool'[i].last <= year + 1 + policy.lcf
      <4>1. pool'[i].last \in Int /\ pool'[i].last <= year + policy.lcf
        BY <1>14
      <4>2. year \in Nat /\ policy.lcf \in Nat
        BY <1>0
      <4> HIDE DEF P, d, e, used
      <4> QED BY <4>1, <4>2
    <3> HIDE DEF P, d, e, used
    <3> QED BY <1>6, <3>1
  <2>2. pool' \in Seq(Vint) /\ Sorted(pool')
    BY <1>14
  <2> HIDE DEF P, d, e, used
  <2>3. Sorted(pool)'
    BY <2>2 DEF Sorted
  <2> QED BY <2>1, <2>2, <2>3 DEF InOrder
<1>16. fast' = pool' /\ taxed'.fast = taxed'.ledger
  BY <1>0, <1>6, <1>8
<1>17. taxed'.ledger \in Int /\ taxed'.rival \in Int
  BY <1>0, <1>6, <1>9
<1> HIDE DEF P, d, e, used
<1> QED BY <1>0, <1>6, <1>12, <1>15, <1>16, <1>17 DEF LedgerInv

\* Every step keeps the invariant of the ledger.
LEMMA LedgerInvStep == LedgerInv /\ [LedgerNext]_ledgerVars => LedgerInv'
<1> SUFFICES ASSUME LedgerInv, [LedgerNext]_ledgerVars PROVE LedgerInv'
  OBVIOUS
<1>1. CASE LedgerNext
  <2>1. PICK income \in Incomes, allowed \in BOOLEAN : Year(income, allowed)
    BY <1>1 DEF LedgerNext
  <2>2. income \in Int
    BY LedgerAssumption DEF Parameters
  <2> QED BY <2>1, <2>2, YearKeeps
<1>2. CASE UNCHANGED ledgerVars
  <2>1. /\ year' = year /\ policy' = policy /\ pool' = pool /\ rival' = rival
        /\ fast' = fast /\ taxed' = taxed
    BY <1>2 DEF ledgerVars
  <2>2. InOrder(pool, year)'
    BY <2>1 DEF LedgerInv, InOrder, Sorted
  <2>3. Alike(pool, rival)'
    BY <2>1 DEF LedgerInv, Alike
  <2>4. Behind(pool', rival', taxed'.rival - taxed'.ledger)
    BY <2>1 DEF LedgerInv
  <2>5. Behind(pool, rival, taxed.rival - taxed.ledger)'
    BY <2>4 DEF Behind, Sum, Carried
  <2> QED BY <2>1, <2>2, <2>3, <2>5 DEF LedgerInv
<1> QED BY <1>1, <1>2

\* The invariant of the ledger always holds.
LEMMA LedgerInvariance == LedgerSpec => []LedgerInv
BY LedgerInvInit, LedgerInvStep, PTL DEF LedgerSpec

\* OldestFirstIsBest, for every opening, income and policy: no order of use
\* leaves less to tax than oldest first (run_annual_fifo_ledger).
THEOREM OldestFirstPaysLeast == LedgerSpec => []OldestFirstIsBest
<1>1. LedgerInv => OldestFirstIsBest
  BY DEF LedgerInv, Behind, OldestFirstIsBest
<1> QED BY <1>1, LedgerInvariance, PTL

\* TwinAgrees: the numeric twin the debt solver calls is the ledger
\* (taxable_income_after_lcf_series).
THEOREM TwinTaxesTheSame == LedgerSpec => []TwinAgrees
<1>1. LedgerInv => TwinAgrees
  BY DEF LedgerInv, TwinAgrees
<1> QED BY <1>1, LedgerInvariance, PTL

----------------------------------------------------------------------------
(* The ledger and the rolling schedule.                                    *)

\* Counted from place K of p and place 1 of b on, as many years as t, the pool
\* and the buckets hold the same.
Aligned(p, b, K, t) ==
    /\ p \in Seq(Vint) /\ b \in Seq(Buck) /\ K \in Nat /\ t \in Nat
    /\ Len(p) = K + t /\ Len(b) = 1 + t
    /\ \A j \in 0..t : Carried(p)[K + j] = Carried(b)[1 + j]

\* The first of what lasts L, of K opening vintages and one a year, to be gone
\* when m years' vintages are.
First(m, K) == IF m >= 1 THEN K + m ELSE 0
Lasts(i, K, L) == IF i <= K THEN L ELSE L + (i - K) - 1

\* Every opening vintage is of year 0, and every year has added one.
Born(p, K) == \A i \in 1..Len(p) : p[i].last = Lasts(i, K, policy.lcf)
Due(b) == \A i \in 1..Len(b) : b[i].expiry = Lasts(i, 1, Duration)

\* Taking nothing off changes nothing.
LEMMA WithoutNone ==
    ASSUME NEW p \in Seq(Buck)
    PROVE  Without(p, {}) = p
<1>1. Len(p) \in Nat /\ \A i \in 1..Len(p) : p[i] \in Buck
  OBVIOUS
<1> DEFINE v(i) == [p[i] EXCEPT !.amount = IF i \in {} THEN 0 ELSE @]
<1>2. \A i \in 1..Len(p) : v(i) = p[i]
  BY <1>1 DEF Buck
<1>3. Without(p, {}) = [i \in 1..Len(p) |-> v(i)]
  BY DEF Without
<1> HIDE DEF v
<1>4. p = [i \in 1..Len(p) |-> p[i]]
  OBVIOUS
<1> QED BY <1>2, <1>3, <1>4

\* What stays may be added before or after the others are taken off.
LEMMA WithoutAppend ==
    ASSUME NEW p \in Seq(Vint), NEW v \in Vint, NEW t \in Int, v.last >= t
    PROVE  Live(Append(p, v), t) = Append(Live(p, t), v)
<1> DEFINE q == Append(p, v)
           n == Len(p)
           w(i) == [q[i] EXCEPT !.amount = IF i \in Expired(q, t) THEN 0 ELSE @]
           z(i) == [p[i] EXCEPT !.amount = IF i \in Expired(p, t) THEN 0 ELSE @]
<1>1. /\ n \in Nat /\ q \in Seq(Vint) /\ Len(q) = n + 1
      /\ \A i \in 1..n : q[i] = p[i]
      /\ q[n + 1] = v
  OBVIOUS
<1>2. Live(q, t) = [i \in 1..(n + 1) |-> w(i)] /\ Live(p, t) = [i \in 1..n |-> z(i)]
  BY <1>1 DEF Live, Without
<1> HIDE DEF q, n
<1>3. \A i \in 1..n : i \in 1..(n + 1) /\ i # n + 1
  BY <1>1
<1>4. \A i \in 1..n : w(i) = z(i)
  <2>1. \A i \in 1..n : i \in Expired(q, t) <=> i \in Expired(p, t)
    BY <1>1, <1>3 DEF Expired, n
  <2> QED BY <1>1, <2>1
<1>5. w(n + 1) = v
  <2>1. n + 1 \notin Expired(q, t)
    BY <1>1 DEF Expired, Vint
  <2> QED BY <1>1, <2>1 DEF Vint
<1> HIDE DEF w, z
<1> DEFINE l == Live(p, t)
           m == Live(q, t)
<1>6. l = [i \in 1..n |-> z(i)] /\ m = [i \in 1..(n + 1) |-> w(i)]
  BY <1>2
<1>7. l \in Seq(Vint) /\ Len(l) = n
  BY VintIs, WithoutIs DEF Live, Reshaped, n
<1> HIDE DEF l, m
<1>8. m = Append(l, v)
  <2>1. Append(l, v) = [i \in 1..(n + 1) |-> IF i = n + 1 THEN v ELSE l[i]]
    <3> DEFINE a == Append(l, v)
    <3>1. /\ a \in Seq(Vint) /\ Len(a) = n + 1 /\ a[n + 1] = v
          /\ \A i \in 1..n : a[i] = l[i]
      BY <1>7
    <3> HIDE DEF a
    <3>2. a = [i \in 1..(n + 1) |-> a[i]]
      BY <3>1
    <3>3. \A i \in 1..(n + 1) : i = n + 1 \/ i \in 1..n
      BY <1>1
    <3>4. \A i \in 1..(n + 1) : a[i] = IF i = n + 1 THEN v ELSE l[i]
      BY <1>3, <3>1, <3>3
    <3> QED BY <3>2, <3>4 DEF a
  <2>2. \A i \in 1..(n + 1) : w(i) = IF i = n + 1 THEN v ELSE l[i]
    <3>1. \A i \in 1..(n + 1) : i = n + 1 \/ i \in 1..n
      BY <1>1
    <3> QED BY <1>3, <1>4, <1>5, <1>6, <3>1
  <2> QED BY <1>6, <2>1, <2>2
<1> QED BY <1>8 DEF l, m, q

\* Taking m years off both leaves them aligned.
LEMMA AlignedWithout ==
    ASSUME NEW p, NEW b, NEW K, NEW t, Aligned(p, b, K, t), NEW m \in Int, m <= t,
           NEW gone, \A i \in 1..Len(p) : i \in gone <=> i <= First(m, K),
           NEW past, \A i \in 1..Len(b) : i \in past <=> i <= First(m, 1)
    PROVE  Aligned(Without(p, gone), Without(b, past), K, t)
<1> DEFINE P == Without(p, gone)
           B == Without(b, past)
           k == First(m, K)
           l == First(m, 1)
<1>0. /\ p \in Seq(Vint) /\ b \in Seq(Buck) /\ K \in Nat /\ t \in Nat
      /\ Len(p) = K + t /\ Len(b) = 1 + t
  BY DEF Aligned
<1>1. k \in 0..Len(p) /\ l \in 0..Len(b)
  BY <1>0 DEF First
<1>2. /\ Reshaped(Vint, p, P) /\ Reshaped(Buck, b, B)
      /\ \A i \in 0..Len(p) :
            Carried(P)[i] = IF i <= k THEN 0 ELSE Carried(p)[i] - Carried(p)[k]
      /\ \A i \in 0..Len(b) :
            Carried(B)[i] = IF i <= l THEN 0 ELSE Carried(b)[i] - Carried(b)[l]
  <2>1. Reshaped(Vint, p, P) /\ Reshaped(Buck, b, B)
    BY <1>0, VintIs, BuckIs, WithoutIs
  <2> HIDE DEF k, l
  <2>2. \A i \in 0..Len(p) :
            Carried(P)[i] = IF i <= k THEN 0 ELSE Carried(p)[i] - Carried(p)[k]
    <3>1. \A i \in 1..Len(p) : i \in gone <=> i <= k
      BY DEF k
    <3> QED BY <1>0, <1>1, <3>1, VintIs, CarriedWithout
  <2>3. \A i \in 0..Len(b) :
            Carried(B)[i] = IF i <= l THEN 0 ELSE Carried(b)[i] - Carried(b)[l]
    <3>1. \A i \in 1..Len(b) : i \in past <=> i <= l
      BY DEF l
    <3> QED BY <1>0, <1>1, <3>1, BuckIs, CarriedWithout
  <2> QED BY <2>1, <2>2, <2>3
<1> HIDE DEF P, B
<1>3. /\ P \in Seq(Vint) /\ B \in Seq(Buck) /\ Len(P) = K + t /\ Len(B) = 1 + t
  BY <1>0, <1>2 DEF Reshaped
<1>4. ASSUME NEW j \in 0..t PROVE Carried(P)[K + j] = Carried(B)[1 + j]
  <2>1. K + j \in 0..Len(p) /\ 1 + j \in 0..Len(b)
    BY <1>0
  <2>2. /\ Carried(P)[K + j] = IF K + j <= k THEN 0 ELSE Carried(p)[K + j] - Carried(p)[k]
        /\ Carried(B)[1 + j] = IF 1 + j <= l THEN 0 ELSE Carried(b)[1 + j] - Carried(b)[l]
    BY <1>2, <2>1
  <2>3. Carried(p)[K + j] = Carried(b)[1 + j]
    BY DEF Aligned
  <2>4. CASE m >= 1
    <3>1. k = K + m /\ l = 1 + m /\ m \in 0..t
      BY <1>0, <2>4 DEF First
    <3>2. Carried(p)[k] = Carried(b)[l]
      BY <3>1 DEF Aligned
    <3>3. K + j <= k <=> 1 + j <= l
      BY <1>0, <3>1
    <3> QED BY <2>2, <2>3, <3>2, <3>3
  <2>5. CASE ~ (m >= 1)
    <3>1. k = 0 /\ l = 0
      BY <2>5 DEF First
    <3>2. Carried(p)[0] = 0 /\ Carried(b)[0] = 0 /\ Carried(p)[K + j] \in Nat
      BY <1>0, <2>1, VintIs, BuckIs, CarriedIs
    <3>3. ~ (1 + j <= l)
      BY <3>1
    <3>4. Carried(B)[1 + j] = Carried(b)[1 + j]
      BY <2>2, <2>3, <3>1, <3>2, <3>3
    <3>5. CASE K + j <= k
      <4>1. K + j = 0
        BY <1>0, <3>1, <3>5
      <4> QED BY <2>2, <2>3, <3>2, <3>4, <3>5, <4>1
    <3>6. CASE ~ (K + j <= k)
      BY <2>2, <2>3, <3>1, <3>2, <3>4, <3>6
    <3> QED BY <3>5, <3>6
  <2> QED BY <2>4, <2>5
<1>5. Aligned(P, B, K, t)
  BY <1>0, <1>3, <1>4 DEF Aligned
<1> QED BY <1>5 DEF P, B

\* One income used against both leaves them aligned.
LEMMA AlignedUse ==
    ASSUME NEW p, NEW b, NEW K, NEW t, Aligned(p, b, K, t), NEW x \in Nat
    PROVE  Aligned(Cut(p, Uses(p, x)), Cut(b, Uses(b, x)), K, t)
<1> DEFINE P == Cut(p, Uses(p, x))
           B == Cut(b, Uses(b, x))
<1>0. /\ p \in Seq(Vint) /\ b \in Seq(Buck) /\ K \in Nat /\ t \in Nat
      /\ Len(p) = K + t /\ Len(b) = 1 + t
  BY DEF Aligned
<1>1. /\ Reshaped(Vint, p, P) /\ \A i \in 0..Len(p) : Carried(P)[i] = Atleast0(Carried(p)[i] - x)
  BY <1>0, VintIs, CarriedUses
<1>2. /\ Reshaped(Buck, b, B) /\ \A i \in 0..Len(b) : Carried(B)[i] = Atleast0(Carried(b)[i] - x)
  BY <1>0, BuckIs, CarriedUses
<1> HIDE DEF P, B
<1>3. /\ P \in Seq(Vint) /\ B \in Seq(Buck) /\ Len(P) = K + t /\ Len(B) = 1 + t
  BY <1>0, <1>1, <1>2 DEF Reshaped
<1>4. ASSUME NEW j \in 0..t PROVE Carried(P)[K + j] = Carried(B)[1 + j]
  <2>1. K + j \in 0..Len(p) /\ 1 + j \in 0..Len(b)
    BY <1>0
  <2>2. Carried(p)[K + j] = Carried(b)[1 + j]
    BY DEF Aligned
  <2> QED BY <1>1, <1>2, <2>1, <2>2
<1>5. Aligned(P, B, K, t)
  BY <1>0, <1>3, <1>4 DEF Aligned
<1> QED BY <1>5 DEF P, B

\* One loss added to both leaves them aligned.
LEMMA AlignedAppend ==
    ASSUME NEW p, NEW b, NEW K, NEW t, Aligned(p, b, K, t),
           NEW v \in Vint, NEW w \in Buck, v.amount = w.amount
    PROVE  Aligned(Append(p, v), Append(b, w), K, t + 1)
<1> DEFINE P == Append(p, v)
           B == Append(b, w)
<1>0. /\ p \in Seq(Vint) /\ b \in Seq(Buck) /\ K \in Nat /\ t \in Nat
      /\ Len(p) = K + t /\ Len(b) = 1 + t
  BY DEF Aligned
<1>1. /\ P \in Seq(Vint) /\ Len(P) = Len(p) + 1
      /\ \A i \in 0..Len(p) : Carried(P)[i] = Carried(p)[i]
      /\ Carried(P)[Len(p) + 1] = Carried(p)[Len(p)] + v.amount
  BY <1>0, VintIs, CarriedAppend
<1>2. /\ B \in Seq(Buck) /\ Len(B) = Len(b) + 1
      /\ \A i \in 0..Len(b) : Carried(B)[i] = Carried(b)[i]
      /\ Carried(B)[Len(b) + 1] = Carried(b)[Len(b)] + w.amount
  BY <1>0, BuckIs, CarriedAppend
<1> HIDE DEF P, B
<1>3. ASSUME NEW j \in 0..(t + 1) PROVE Carried(P)[K + j] = Carried(B)[1 + j]
  <2>1. CASE j \in 0..t
    <3>1. K + j \in 0..Len(p) /\ 1 + j \in 0..Len(b)
      BY <1>0, <2>1
    <3>2. Carried(p)[K + j] = Carried(b)[1 + j]
      BY <2>1 DEF Aligned
    <3> QED BY <1>1, <1>2, <3>1, <3>2
  <2>2. CASE j = t + 1
    <3>1. K + j = Len(p) + 1 /\ 1 + j = Len(b) + 1 /\ t \in 0..t
      BY <1>0, <2>2
    <3>2. Carried(p)[K + t] = Carried(b)[1 + t]
      BY <3>1 DEF Aligned
    <3> QED BY <1>0, <1>1, <1>2, <3>1, <3>2
  <2> QED BY <1>0, <2>1, <2>2
<1>4. Len(P) = K + (t + 1) /\ Len(B) = 1 + (t + 1) /\ t + 1 \in Nat
  BY <1>0, <1>1, <1>2
<1>5. Aligned(P, B, K, t + 1)
  BY <1>0, <1>1, <1>2, <1>3, <1>4 DEF Aligned
<1> QED BY <1>5 DEF P, B

----------------------------------------------------------------------------
(* A year of both.                                                         *)

\* The rolling schedule, in step with the ledger.
InStep(K) ==
    /\ Duration > 0 /\ taxed.rolling = taxed.ledger
    /\ buckets \in Seq(Buck) /\ Len(pool) = K + year /\ Len(buckets) = 1 + year
    /\ Born(pool, K) /\ Due(buckets)
    /\ Aligned(Live(pool, year), Usable(buckets, year), K, year)

ScheduleInv == comparable => \E K \in Nat : InStep(K)

\* Other amounts do not change the years of the vintages.
LEMMA BornKept ==
    ASSUME NEW p, NEW q, NEW K, Born(p, K), Alike(p, q)
    PROVE  Born(q, K)
BY DEF Born, Alike

\* Other amounts do not change the years of the buckets.
LEMMA DueKept ==
    ASSUME NEW b \in Seq(Buck), NEW c, Due(b), Reshaped(Buck, b, c)
    PROVE  Due(c)
<1>1. \A i \in 1..Len(b) : c[i].expiry = b[i].expiry
  BY ExpiriesKept
<1>2. Len(c) = Len(b)
  BY DEF Reshaped
<1> QED BY <1>1, <1>2 DEF Due

\* The year's vintage is of that year.
LEMMA BornAppend ==
    ASSUME NEW p \in Seq(Vint), NEW K \in Nat, NEW t \in Nat, Len(p) = K + t, Born(p, K),
           NEW v, v.last = t + policy.lcf, policy.lcf \in Nat
    PROVE  Born(Append(p, v), K)
<1> DEFINE q == Append(p, v)
<1>1. /\ Len(q) = K + t + 1 /\ \A i \in 1..(K + t) : q[i] = p[i]
      /\ q[K + t + 1] = v
  OBVIOUS
<1> HIDE DEF q
<1>2. ASSUME NEW i \in 1..(K + t + 1) PROVE q[i].last = Lasts(i, K, policy.lcf)
  <2>1. CASE i = K + t + 1
    BY <1>1, <2>1 DEF Lasts
  <2>2. CASE i # K + t + 1
    <3>1. i \in 1..(K + t)
      BY <2>2
    <3> QED BY <1>1, <3>1 DEF Born
  <2> QED BY <2>1, <2>2
<1> QED BY <1>1, <1>2 DEF Born, q

\* The year's bucket is of that year.
LEMMA DueAppend ==
    ASSUME NEW b \in Seq(Buck), NEW t \in Nat, Len(b) = 1 + t, Due(b),
           NEW w, w.expiry = t + Duration, Duration \in Int
    PROVE  Due(Append(b, w))
<1> DEFINE q == Append(b, w)
<1>1. /\ Len(q) = 1 + t + 1 /\ \A i \in 1..(1 + t) : q[i] = b[i]
      /\ q[1 + t + 1] = w
  OBVIOUS
<1> HIDE DEF q
<1>2. ASSUME NEW i \in 1..(1 + t + 1) PROVE q[i].expiry = Lasts(i, 1, Duration)
  <2>1. CASE i = 1 + t + 1
    BY <1>1, <2>1 DEF Lasts
  <2>2. CASE i # 1 + t + 1
    <3>1. i \in 1..(1 + t)
      BY <2>2
    <3> QED BY <1>1, <3>1 DEF Due
  <2> QED BY <2>1, <2>2
<1> QED BY <1>1, <1>2 DEF Due, q

\* A year of the rolling schedule beside one of the ledger, every loss usable.
LEMMA YearInStep ==
    ASSUME LedgerInv, NEW income \in Int, NEW allowed \in BOOLEAN, Year(income, allowed),
           allowed \/ income <= 0, NEW K \in Nat, InStep(K)
    PROVE  InStep(K)'
<1> DEFINE p == Live(pool, year)
           b == Usable(buckets, year)
           v == Vintage(year, Atleast0(-income))
           w == Bucket(year, Atleast0(-income))
           P == IF income > 0 THEN Cut(p, Uses(p, income)) ELSE p
           B == IF income > 0 THEN Cut(b, Uses(b, income)) ELSE b
           C == Without(B, Aged(b, year))
           m == year + 1 - policy.lcf
<1>0. /\ year \in Nat /\ policy \in [lcf : Nat, strict : BOOLEAN] /\ policy.lcf \in Nat
      /\ pool \in Seq(Vint) /\ buckets \in Seq(Buck)
      /\ taxed.ledger \in Int
  BY DEF LedgerInv, InOrder, InStep
<1>1. /\ Duration \in Nat \ {0}
      /\ Duration = IF policy.strict THEN policy.lcf + 1 ELSE policy.lcf
  BY <1>0 DEF Duration, InStep
<1>2. v \in Vint /\ v.last = year + policy.lcf /\ w \in Buck /\ w.expiry = year + Duration
      /\ v.amount = w.amount
  BY <1>0, <1>1 DEF Vintage, Bucket, Vint, Buck, Atleast0
<1>3. Aligned(p, b, K, year) /\ Born(pool, K) /\ Due(buckets)
      /\ Len(pool) = K + year /\ Len(buckets) = 1 + year
  BY DEF InStep
<1>4. /\ p \in Seq(Vint) /\ b \in Seq(Buck) /\ Len(p) = K + year /\ Len(b) = 1 + year
      /\ Sum(p) \in Nat /\ Sum(b) \in Nat /\ Sum(p) = Sum(b)
  <2>1. /\ p \in Seq(Vint) /\ b \in Seq(Buck) /\ Len(p) = K + year /\ Len(b) = 1 + year
    BY <1>3 DEF Aligned
  <2>2. year \in 0..year
    BY <1>0
  <2>3. Sum(p) = Sum(b)
    BY <1>3, <2>1, <2>2 DEF Aligned, Sum
  <2>4. Sum(p) \in Nat /\ Sum(b) \in Nat
    BY <2>1, VintIs, BuckIs, CarriedIs DEF Sum
  <2> QED BY <2>1, <2>3, <2>4
<1>5. Born(p, K) /\ Due(b)
  <2>1. Reshaped(Vint, pool, p) /\ Reshaped(Buck, buckets, b)
    BY <1>0, VintIs, BuckIs, WithoutIs DEF Live, Usable
  <2> HIDE DEF p, b
  <2> QED BY <1>0, <1>3, <2>1, ReshapedAlike, BornKept, DueKept
<1>6. /\ year' = year + 1 /\ policy' = policy
      /\ pool' = Append(P, v)
      /\ taxed'.ledger = taxed.ledger + Taxable(p, income, allowed)
      /\ taxed'.rolling = taxed.rolling + RollingUse(b, income).left
  BY DEF Year, AfterYear
<1>7. RollingUse(b, income).pool = B /\ RollingUse(b, income).left = Taxable(p, income, allowed)
  <2> HIDE DEF p, b
  <2>1. CASE income > 0
    BY <1>4, <2>1, BuckIs, FastUseIs DEF RollingUse, Taxable
  <2>2. CASE ~ (income > 0)
    BY <1>4, <2>2 DEF RollingUse, Taxable, Atleast0
  <2> QED BY <2>1, <2>2
<1>8. buckets' = Append(C, w)
  <2>1. buckets' = RollingYear(b, year, income)
    BY DEF Year
  <2> HIDE DEF b, B
  <2> QED BY <1>7, <2>1 DEF RollingYear
<1> HIDE DEF p, b, v, w
<1>9. Aligned(P, B, K, year) /\ Born(P, K) /\ Due(B)
  <2>1. CASE income > 0
    <3>1. Alike(p, Cut(p, Uses(p, income))) /\ Reshaped(Buck, b, Cut(b, Uses(b, income)))
      BY <1>4, <2>1, VintIs, BuckIs, CarriedUses, ReshapedAlike
    <3>2. Aligned(Cut(p, Uses(p, income)), Cut(b, Uses(b, income)), K, year)
      BY <1>3, <2>1, AlignedUse
    <3> QED BY <1>4, <1>5, <2>1, <3>1, <3>2, BornKept, DueKept
  <2>2. CASE ~ (income > 0)
    BY <1>3, <1>5, <2>2
  <2> QED BY <2>1, <2>2
<1> HIDE DEF P, B
<1>10. P \in Seq(Vint) /\ B \in Seq(Buck) /\ Len(P) = K + year /\ Len(B) = 1 + year
  BY <1>9 DEF Aligned
<1>11. C \in Seq(Buck) /\ Len(C) = 1 + year /\ Due(C)
  <2>1. Reshaped(Buck, B, C)
    BY <1>10, BuckIs, WithoutIs
  <2> HIDE DEF C
  <2> QED BY <1>9, <1>10, <2>1, DueKept DEF Reshaped
<1>12. /\ Born(pool', K) /\ Len(pool') = K + (year + 1) /\ pool' \in Seq(Vint)
       /\ Due(buckets') /\ Len(buckets') = 1 + (year + 1) /\ buckets' \in Seq(Buck)
  <2> HIDE DEF C
  <2>1. Born(Append(P, v), K) /\ Due(Append(C, w))
    BY <1>0, <1>1, <1>2, <1>9, <1>10, <1>11, BornAppend, DueAppend
  <2>2. /\ Append(P, v) \in Seq(Vint) /\ Len(Append(P, v)) = K + year + 1
        /\ Append(C, w) \in Seq(Buck) /\ Len(Append(C, w)) = 1 + year + 1
    BY <1>2, <1>10, <1>11
  <2> QED BY <1>0, <1>6, <1>8, <2>1, <2>2
<1>13. \A i \in 1..Len(pool') : i \in Expired(pool', year + 1) <=> i <= First(m, K)
  <2> SUFFICES ASSUME NEW i \in 1..Len(pool')
               PROVE  i \in Expired(pool', year + 1) <=> i <= First(m, K)
    OBVIOUS
  <2>1. pool'[i].last = Lasts(i, K, policy.lcf) /\ i \in Nat \ {0}
    BY <1>12 DEF Born
  <2>2. Lasts(i, K, policy.lcf) <= year <=> i <= First(m, K)
    BY <1>0, <2>1 DEF Lasts, First
  <2>3. Lasts(i, K, policy.lcf) \in Int
    BY <1>0, <2>1 DEF Lasts
  <2>4. i \in Expired(pool', year + 1) <=> Lasts(i, K, policy.lcf) < year + 1
    BY <2>1 DEF Expired
  <2> HIDE DEF m
  <2> QED BY <1>0, <2>2, <2>3, <2>4
<1>14. ASSUME policy.strict
       PROVE  Aligned(Live(pool', year'), Usable(buckets, year)', K, year')
  <2>1. C = B
    <3>1. Aged(b, year) = {}
      BY <1>14 DEF Aged
    <3> QED BY <1>10, <3>1, WithoutNone
  <2>2. Aligned(pool', buckets', K, year + 1)
    BY <1>2, <1>6, <1>8, <1>9, <2>1, AlignedAppend
  <2> DEFINE past == {i \in 1..Len(buckets') : policy.strict /\ year + 1 >= buckets'[i].expiry}
  <2>3. \A i \in 1..Len(buckets') : i \in past <=> i <= First(m, 1)
    <3> SUFFICES ASSUME NEW i \in 1..Len(buckets')
                 PROVE  year + 1 >= buckets'[i].expiry <=> i <= First(m, 1)
      BY <1>14
    <3>1. buckets'[i].expiry = Lasts(i, 1, Duration) /\ i \in Nat \ {0}
      BY <1>12 DEF Due
    <3>2. Duration = policy.lcf + 1 /\ Duration \in Int
      BY <1>1, <1>14
    <3>3. Lasts(i, 1, Duration) <= year + 1 <=> i <= First(m, 1)
      BY SMTT(30), <1>0, <3>1, <3>2 DEF Lasts, First
    <3>4. Lasts(i, 1, Duration) \in Int
      BY <1>0, <3>1, <3>2 DEF Lasts
    <3> HIDE DEF m
    <3> QED BY <1>0, <3>1, <3>3, <3>4
  <2>4. m \in Int /\ m <= year + 1
    BY <1>0
  <2> HIDE DEF m, past
  <2>5. Aligned(Without(pool', Expired(pool', year + 1)), Without(buckets', past), K, year + 1)
    BY <1>13, <2>2, <2>3, <2>4, AlignedWithout
  <2>6. Usable(buckets, year)' = Without(buckets', past)
    BY <1>6 DEF Usable, past
  <2> QED BY <1>6, <2>5, <2>6 DEF Live
<1>15. ASSUME ~policy.strict
       PROVE  Aligned(Live(pool', year'), Usable(buckets, year)', K, year')
  <2>1. Live(pool', year + 1) = Append(Live(P, year + 1), v)
    <3>1. v.last >= year + 1
      BY <1>0, <1>1, <1>2, <1>15
    <3>2. P \in Seq(Vint) /\ v \in Vint /\ year + 1 \in Int
      BY <1>0, <1>2, <1>10
    <3>3. Live(Append(P, v), year + 1) = Append(Live(P, year + 1), v)
      BY <3>1, <3>2, WithoutAppend
    <3> QED BY <1>6, <3>3
  <2>2. \A i \in 1..Len(P) : i \in Expired(P, year + 1) <=> i <= First(m, K)
    <3> SUFFICES ASSUME NEW i \in 1..Len(P)
                 PROVE  i \in Expired(P, year + 1) <=> i <= First(m, K)
      OBVIOUS
    <3>1. P[i].last = Lasts(i, K, policy.lcf) /\ i \in Nat \ {0}
      BY <1>9, <1>10 DEF Born
    <3>2. Lasts(i, K, policy.lcf) <= year <=> i <= First(m, K)
      BY <1>0, <3>1 DEF Lasts, First
    <3>3. Lasts(i, K, policy.lcf) \in Int
      BY <1>0, <3>1 DEF Lasts
    <3>4. i \in Expired(P, year + 1) <=> Lasts(i, K, policy.lcf) < year + 1
      BY <3>1 DEF Expired
    <3> HIDE DEF m
    <3> QED BY <1>0, <3>2, <3>3, <3>4
  <2>3. \A i \in 1..Len(B) : i \in Aged(b, year) <=> i <= First(m, 1)
    <3> SUFFICES ASSUME NEW i \in 1..Len(b)
                 PROVE  i \in Aged(b, year) <=> i <= First(m, 1)
      BY <1>4, <1>10
    <3>1. b[i].expiry = Lasts(i, 1, Duration) /\ i \in Nat \ {0}
      BY <1>4, <1>5 DEF Due
    <3>2. Duration = policy.lcf
      BY <1>1, <1>15
    <3>3. Lasts(i, 1, Duration) <= year <=> i <= First(m, 1)
      BY SMTT(30), <1>0, <3>1, <3>2 DEF Lasts, First
    <3>4. Lasts(i, 1, Duration) \in Int
      BY <1>0, <3>1, <3>2 DEF Lasts
    <3>5. i \in Aged(b, year) <=> Lasts(i, 1, Duration) - year <= 0
      BY <1>15, <3>1 DEF Aged
    <3> HIDE DEF m
    <3> QED BY <1>0, <3>3, <3>4, <3>5
  <2>4. m \in Int /\ m <= year
    BY <1>0, <1>1, <1>15
  <2> HIDE DEF m
  <2>5. Aligned(Live(P, year + 1), C, K, year)
    BY <1>9, <2>2, <2>3, <2>4, AlignedWithout DEF Live
  <2>6. Aligned(Live(pool', year + 1), buckets', K, year + 1)
    BY <1>2, <1>8, <2>1, <2>5, AlignedAppend
  <2>7. Usable(buckets, year)' = buckets'
    <3>1. Usable(buckets, year)' = Without(buckets', {})
      BY <1>6, <1>15 DEF Usable
    <3> QED BY <1>12, <3>1, WithoutNone
  <2> QED BY <1>6, <2>6, <2>7
<1>16. Aligned(Live(pool', year'), Usable(buckets, year)', K, year')
  BY <1>14, <1>15
<1>17. Duration' > 0 /\ taxed'.rolling = taxed'.ledger
  BY <1>1, <1>6, <1>7 DEF Duration, InStep
<1>18. Born(pool, K)' /\ Due(buckets)'
  BY <1>6, <1>12 DEF Born, Due, Duration
<1>19. Aligned(Live(pool, year), Usable(buckets, year), K, year)'
  BY <1>16 DEF Aligned, Live, Without, Expired, Carried
<1> QED BY <1>6, <1>12, <1>17, <1>18, <1>19 DEF InStep

----------------------------------------------------------------------------
(* The first year of both, and the theorem.                                *)

\* Vintages of one origin stay in the order they were given.
LEMMA OrderStays ==
    ASSUME NEW o, Len(o) \in Nat, \A i \in 1..Len(o) : o[i].origin = 0,
           NEW f \in Orders(o)
    PROVE  \A i \in 1..Len(o) : f[i] = i
<1> DEFINE n == Len(o)
           g == [i \in 0..n |-> IF i = 0 THEN 0 ELSE f[i]]
           h == [i \in 0..n |-> i]
<1>1. f \in [1..n -> 1..n] /\ \A i, j \in 1..n : i < j => Older(o, f[i], f[j])
  BY DEF Orders
<1>2. \A i, j \in 1..n : i < j => f[i] < f[j]
  BY <1>1 DEF Older
<1>3. g \in [0..n -> Nat] /\ h \in [0..n -> Nat]
  BY <1>1
<1>4. /\ g[0] = 0 /\ \A i \in 1..n : g[i] = f[i]
      /\ \A i \in 0..n : h[i] = i
  OBVIOUS
<1> HIDE DEF n, g, h
<1>5. ASSUME NEW m \in 1..n PROVE h[m] - h[m - 1] <= g[m] - g[m - 1]
  <2>1. n \in Nat /\ m \in 0..n /\ m - 1 \in 0..n /\ f[m] \in 1..n
    BY <1>1 DEF n
  <2>2. h[m] - h[m - 1] = 1
    BY <1>4, <2>1
  <2>3. g[m - 1] < g[m]
    <3>1. CASE m = 1
      BY <1>4, <2>1, <3>1
    <3>2. CASE m # 1
      <4>1. m - 1 \in 1..n /\ m - 1 < m
        BY <2>1, <3>2
      <4> QED BY <1>2, <1>4, <4>1
    <3> QED BY <3>1, <3>2
  <2>4. g[m - 1] \in Nat /\ g[m] \in Nat
    BY <1>3, <2>1
  <2> QED BY <2>2, <2>3, <2>4
<1>6. n \in Nat
  BY DEF n
<1>7. \A j \in 0..n : \A i \in 0..j : h[j] - h[i] <= g[j] - g[i]
  BY <1>3, <1>5, <1>6, GrowsLess
<1>8. ASSUME NEW i \in 1..n PROVE f[i] = i
  <2>1. i \in 0..n /\ 0 \in 0..i /\ n \in 0..n /\ i \in 0..n /\ n \in 1..n
    BY <1>6
  <2>2. h[i] - h[0] <= g[i] - g[0] /\ h[n] - h[i] <= g[n] - g[i]
    BY <1>7, <2>1
  <2>3. h[i] = i /\ h[0] = 0 /\ h[n] = n /\ g[i] = f[i] /\ g[0] = 0 /\ g[n] = f[n]
    BY <1>4, <1>6, <2>1
  <2>4. f[i] \in Nat /\ f[n] \in Nat /\ f[n] <= n
    BY <1>1, <1>6, <2>1
  <2> QED BY <1>6, <2>2, <2>3, <2>4
<1> QED BY <1>8 DEF n

\* The two are aligned at first.
LEMMA ScheduleInit == LedgerInit => ScheduleInv
<1> SUFFICES ASSUME LedgerInit, comparable PROVE \E K \in Nat : InStep(K)
  BY DEF ScheduleInv
<1>1. PICK o \in Openings : \E f \in Orders(o) :
          /\ pool = [i \in 1..Len(o) |-> Vintage(o[f[i]].origin, o[f[i]].amount)]
          /\ buckets = <<Bucket(0, Sum(o))>>
          /\ comparable = (Duration > 0 /\ \A i \in 1..Len(o) : o[i].origin = 0)
  BY DEF LedgerInit
<1>2. PICK f \in Orders(o) :
          /\ pool = [i \in 1..Len(o) |-> Vintage(o[f[i]].origin, o[f[i]].amount)]
          /\ buckets = <<Bucket(0, Sum(o))>>
          /\ comparable = (Duration > 0 /\ \A i \in 1..Len(o) : o[i].origin = 0)
  BY <1>1
<1>3. /\ year = 0 /\ policy \in [lcf : Nat, strict : BOOLEAN] /\ policy.lcf \in Nat
      /\ taxed.rolling = taxed.ledger
  BY LedgerAssumption DEF LedgerInit, Parameters
<1>4. Duration > 0 /\ \A i \in 1..Len(o) : o[i].origin = 0
  BY <1>2
<1>5. Duration \in Nat \ {0}
  BY <1>3, <1>4 DEF Duration
<1> DEFINE n == Len(o)
           S == [origin : Int, amount : Nat]
<1>6. o \in Seq(S)
  BY LedgerAssumption DEF Parameters
<1> HIDE DEF S
<1>7. n \in Nat /\ \A i \in 1..n : o[i] \in S
  BY <1>6
<1>8. Holders(S)
  BY DEF Holders, S
<1>9. \A i \in 1..n : f[i] = i
  BY <1>4, <1>7, OrderStays
<1> DEFINE v(i) == Vintage(o[i].origin, o[i].amount)
<1>10. \A i \in 1..n : v(i) \in Vint /\ v(i).last = policy.lcf /\ v(i).amount = o[i].amount
  BY <1>3, <1>4, <1>7 DEF Vintage, Vint, S
<1>11. /\ pool \in Seq(Vint) /\ Len(pool) = n
       /\ \A i \in 1..n : pool[i].last = policy.lcf /\ pool[i].amount = o[i].amount
  <2>1. pool = [i \in 1..n |-> v(i)]
    BY <1>2, <1>9
  <2> HIDE DEF v, n
  <2>2. pool \in Seq(Vint) /\ Len(pool) = n /\ \A i \in 1..n : pool[i] = v(i)
    BY <1>7, <1>10, <2>1
  <2> QED BY <1>10, <2>2
<1>12. Sum(o) \in Nat
  BY <1>6, <1>7, <1>8, CarriedIs DEF Sum
<1>13. /\ buckets \in Seq(Buck) /\ Len(buckets) = 1
       /\ buckets[1].expiry = Duration /\ buckets[1].amount = Sum(o)
  <2>1. Bucket(0, Sum(o)) \in Buck /\ Bucket(0, Sum(o)).expiry = Duration
        /\ Bucket(0, Sum(o)).amount = Sum(o)
    BY <1>5, <1>12 DEF Bucket, Buck
  <2> QED BY <1>2, <2>1
<1>14. Born(pool, n) /\ Due(buckets)
  BY <1>7, <1>11, <1>13 DEF Born, Due, Lasts
<1>15. Live(pool, year) = Without(pool, {}) /\ Usable(buckets, year) = Without(buckets, {})
  <2>1. Expired(pool, year) = {}
    BY <1>3, <1>11 DEF Expired
  <2>2. {i \in 1..Len(buckets) : policy.strict /\ year >= buckets[i].expiry} = {}
    BY <1>3, <1>5, <1>13
  <2> QED BY <2>1, <2>2 DEF Live, Usable
<1>16. Usable(buckets, year) = buckets
  BY <1>13, <1>15, WithoutNone
<1> DEFINE p == Live(pool, year)
<1>17. /\ p \in Seq(Vint) /\ Len(p) = n
       /\ \A i \in 1..n : p[i].amount = o[i].amount
  BY <1>11, <1>15, VintIs, WithoutIs DEF Reshaped
<1> HIDE DEF p, n, v
<1>18. Carried(p)[n] = Sum(o)
  <2>1. n \in 0..n /\ n <= Len(p) /\ n <= Len(o)
    BY <1>7, <1>17 DEF n
  <2>2. Carried(p)[n] = Carried(o)[n]
    BY <1>6, <1>7, <1>8, <1>17, <2>1, VintIs, CarriedSame
  <2> QED BY <2>2 DEF Sum, n
<1>19. Carried(buckets)[1] = Sum(o)
  <2>1. 1 \in 1..Len(buckets) /\ 1 - 1 = 0
    BY <1>13
  <2>2. Carried(buckets)[1] = Carried(buckets)[0] + buckets[1].amount /\ Carried(buckets)[0] = 0
    BY <1>13, <2>1, BuckIs, CarriedIs
  <2> QED BY <1>12, <1>13, <2>2
<1>20. Aligned(p, buckets, n, year)
  <2>1. \A j \in 0..year : Carried(p)[n + j] = Carried(buckets)[1 + j]
    BY <1>3, <1>7, <1>18, <1>19
  <2> QED BY <1>3, <1>7, <1>13, <1>17, <2>1 DEF Aligned
<1>21. Len(pool) = n + year /\ Len(buckets) = 1 + year
  BY <1>3, <1>7, <1>11, <1>13
<1> QED BY <1>3, <1>4, <1>7, <1>13, <1>14, <1>16, <1>20, <1>21 DEF InStep, p

\* Every step keeps the two aligned.
LEMMA ScheduleStep == LedgerInv /\ ScheduleInv /\ [LedgerNext]_ledgerVars => ScheduleInv'
<1> SUFFICES ASSUME LedgerInv, ScheduleInv, [LedgerNext]_ledgerVars, comparable'
             PROVE  \E K \in Nat : InStep(K)'
  BY DEF ScheduleInv
<1>1. CASE LedgerNext
  <2>1. PICK income \in Incomes, allowed \in BOOLEAN : Year(income, allowed)
    BY <1>1 DEF LedgerNext
  <2>2. income \in Int
    BY LedgerAssumption DEF Parameters
  <2>3. comparable /\ (allowed \/ income <= 0)
    BY <2>1 DEF Year
  <2>4. PICK K \in Nat : InStep(K)
    BY <2>3 DEF ScheduleInv
  <2>5. InStep(K)'
    BY <2>1, <2>2, <2>3, <2>4, YearInStep
  <2> QED BY <2>5
<1>2. CASE UNCHANGED ledgerVars
  <2>1. /\ year' = year /\ policy' = policy /\ pool' = pool /\ buckets' = buckets
        /\ taxed' = taxed /\ comparable
    BY <1>2 DEF ledgerVars
  <2>2. PICK K \in Nat : InStep(K)
    BY <2>1 DEF ScheduleInv
  <2>3. Duration' = Duration /\ Usable(buckets, year)' = Usable(buckets, year)
    BY <2>1 DEF Duration, Usable
  <2>4. Live(pool, year)' = Live(pool, year)
    BY <2>1 DEF Live, Without, Expired
  <2>5. Aligned(Live(pool, year), Usable(buckets, year), K, year)'
    <3>1. Aligned(Live(pool', year'), Usable(buckets, year)', K, year')
      BY <2>1, <2>2, <2>3 DEF InStep
    <3> QED BY <3>1 DEF Aligned, Live, Without, Expired, Carried
  <2>6. Born(pool, K)' /\ Due(buckets)'
    BY <2>1, <2>2, <2>3 DEF InStep, Born, Due
  <2>7. InStep(K)'
    BY <2>1, <2>2, <2>3, <2>5, <2>6 DEF InStep
  <2> QED BY <2>7
<1> QED BY <1>1, <1>2

\* SchedulesAgree: the rolling schedule taxes what the ledger taxes whenever
\* its inputs are comparable (compute_loss_carryforward_schedule).
THEOREM ScheduleTaxesTheSame == LedgerSpec => []SchedulesAgree
<1>1. LedgerInit => LedgerInv /\ ScheduleInv
  BY LedgerInvInit, ScheduleInit
<1>2. LedgerInv /\ ScheduleInv /\ [LedgerNext]_ledgerVars => LedgerInv' /\ ScheduleInv'
  BY LedgerInvStep, ScheduleStep
<1>3. ScheduleInv => SchedulesAgree
  BY DEF ScheduleInv, InStep, SchedulesAgree
<1> QED BY <1>1, <1>2, <1>3, PTL DEF LedgerSpec
=============================================================================
