-------------------------- MODULE YieldAlertsProofs --------------------------
(***************************************************************************)
(* Theorems about YieldAlerts for any number of evaluators, any values and *)
(* support states, any length of the history and any number of crashes.    *)
(*                                                                         *)
(* The invariant: whatever position an evaluator works from, and the one   *)
(* the checkpoint names, is in the history, not before the watch lifecycle *)
(* it is about began, and every change of value from the furthest baseline *)
(* up to it has its alert.                                                 *)
(***************************************************************************)
EXTENDS YieldAlerts, SequenceTheorems, TLAPS

\* What is known of an evaluator, by how far it got.
EvaluatorKept(v) ==
    /\ v.stamp <= stamps /\ (v.pc # "idle" => 1 <= v.stamp)
    /\ v.pc \in {"read", "baseline", "transitions"} =>
          1 <= v.seen /\ v.seen <= Len(history) /\ born[v.stamp] <= v.seen
    /\ v.pc = "transitions" =>
          /\ 1 <= v.at /\ v.at <= v.seen /\ born[v.stamp] <= v.at
          /\ 1 <= baseline /\ AlertedBetween(baseline, v.at)

CheckpointKept ==
    /\ checkpoint.stamp <= stamps /\ checkpoint.hash <= Len(history)
    /\ checkpoint.stamp = 0 => checkpoint.hash = 0
    /\ checkpoint.stamp # 0 =>
          1 <= checkpoint.hash /\ born[checkpoint.stamp] <= checkpoint.hash /\ 1 <= baseline
    /\ NeverPastAlerts

Inv ==
    /\ TypeOK
    /\ CheckpointKept
    /\ \A s \in Stamps : born[s] <= Len(history)
    /\ \A e \in Evaluators : EvaluatorKept(eval[e])

----------------------------------------------------------------------------
(* Facts about the operators.                                              *)

\* The bounds are natural numbers.
LEMMA Bounds == MaxEvents \in Nat /\ MaxCrashes \in Nat /\ MaxAge \in Nat
BY YieldAssumption DEF YieldAssumption

\* So are positions, stamps and instants.
LEMMA SmallNumbers ==
    /\ Hashes \subseteq Nat /\ Stamps \subseteq Nat /\ Times \subseteq Nat
    /\ 0 \in Hashes /\ 0 \in Stamps /\ 0 \in Times
BY Bounds DEF Hashes, Stamps, Times

\* The freshness of an observation is one of the freshness states.
LEMMA FreshnessIs ==
    ASSUME history \in Seq(Observation), NEW i \in 1..Len(history), NEW now \in Times
    PROVE  Freshness(i, now) \in FreshStates
<1>1. history[i] \in Observation
  BY ElementOfSeq
<1>2. history[i].evidence \in {"timed", "INVALID", "UNKNOWN"}
  BY <1>1, YieldAssumption DEF Observation, YieldAssumption
<1> QED BY <1>2 DEF Freshness, FreshStates, Degraded

\* What the comparisons produce is alerts.
LEMMA AlertsAre ==
    ASSUME NEW i \in Hashes, NEW j \in Hashes, NEW f1 \in FreshStates,
           NEW f2 \in FreshStates, NEW s1 \in SupportStates, NEW s2 \in SupportStates
    PROVE  /\ ValueAlerts(i, j) \subseteq Alerts
           /\ FreshnessAlerts(i, j, f1, f2) \subseteq Alerts
           /\ SupportAlerts(i, j, s1, s2) \subseteq Alerts
<1>1. Economic(i, j) \in Alerts /\ NewObservation(i, j) \in Alerts
  BY DEF Economic, NewObservation, Alerts, AlertTypes
<1>2. /\ StateAlert("FRESHNESS_DEGRADED", i, j, f1, f2) \in Alerts
      /\ StateAlert("FRESHNESS_RECOVERED", i, j, f1, f2) \in Alerts
      /\ StateAlert("SUPPORT_STATE_CHANGED", i, j, s1, s2) \in Alerts
  BY DEF StateAlert, Alerts, AlertTypes
<1>3. ValueAlerts(i, j) \subseteq Alerts
  BY <1>1 DEF ValueAlerts
<1>4. FreshnessAlerts(i, j, f1, f2) \subseteq Alerts
  BY <1>1, <1>2 DEF FreshnessAlerts
<1>5. SupportAlerts(i, j, s1, s2) \subseteq Alerts
  BY <1>2 DEF SupportAlerts
<1> QED BY <1>3, <1>4, <1>5

\* The history is only appended to, and alerts only added.
Grows ==
    /\ Len(history) <= Len(history')
    /\ \A i \in 1..Len(history) : history'[i] = history[i]
    /\ alerts \subseteq alerts'

\* Then what was alerted stays so, from a later baseline too.
LEMMA AlertedKept ==
    ASSUME TypeOK, Grows, NEW lo \in Nat, NEW lo2 \in Nat, NEW hi \in Nat,
           lo <= lo2, hi <= Len(history), hi = 0 \/ 1 <= lo, AlertedBetween(lo, hi)
    PROVE  AlertedBetween(lo2, hi)'
<1>1. ASSUME NEW j \in lo2 + 1 .. hi
      PROVE  /\ ValueAlerts(j - 1, j)' = ValueAlerts(j - 1, j)
             /\ ValueAlerts(j - 1, j) \subseteq alerts
  <2>1. j \in lo + 1 .. hi /\ Len(history) \in Nat
    BY LenProperties DEF TypeOK
  <2>2. j \in 1..Len(history) /\ j - 1 \in 1..Len(history)
    BY <2>1
  <2>3. history'[j] = history[j] /\ history'[j - 1] = history[j - 1]
    BY <2>2 DEF Grows
  <2>4. ValueAlerts(j - 1, j) \subseteq alerts
    BY <2>1 DEF AlertedBetween
  <2> QED BY <2>3, <2>4 DEF ValueAlerts, Economic
<1> QED BY <1>1 DEF AlertedBetween, Grows

\* One transition further.
LEMMA AlertedFurther ==
    ASSUME TypeOK, NEW lo \in Nat, NEW hi \in Nat, AlertedBetween(lo, hi),
           alerts \subseteq alerts', history' = history,
           ValueAlerts(hi, hi + 1) \subseteq alerts'
    PROVE  AlertedBetween(lo, hi + 1)'
<1>1. ASSUME NEW j \in lo + 1 .. hi + 1
      PROVE  ValueAlerts(j - 1, j)' \subseteq alerts'
  <2>1. ValueAlerts(j - 1, j)' = ValueAlerts(j - 1, j)
    BY DEF ValueAlerts, Economic
  <2>2. CASE j = hi + 1
    BY <2>1, <2>2
  <2>3. CASE j # hi + 1
    BY <2>1, <2>3 DEF AlertedBetween
  <2> QED BY <2>2, <2>3
<1> QED BY <1>1 DEF AlertedBetween

\* What an evaluator's record holds.
LEMMA EvaluatorIs ==
    ASSUME TypeOK, NEW e \in Evaluators
    PROVE  /\ eval[e] \in Evaluator /\ eval[e].stamp \in Stamps /\ eval[e].stamp \in Nat
           /\ eval[e].now \in Times /\ eval[e].support \in SupportStates
           /\ eval[e].seen \in Hashes /\ eval[e].seen \in Nat
           /\ eval[e].at \in Hashes /\ eval[e].at \in Nat
           /\ eval[e].fresh \in FreshStates /\ eval[e].sup \in SupportStates
BY SmallNumbers DEF TypeOK, Evaluator

\* An evaluator at rest is well-typed.
LEMMA RestingIs == Resting \in Evaluator /\ Resting.stamp = 0 /\ Resting.pc = "idle"
BY SmallNumbers DEF Resting, Evaluator, FreshStates, SupportStates

\* The counters and the checkpoint's fields are numbers.
LEMMA NumbersAre ==
    ASSUME TypeOK
    PROVE  /\ Len(history) \in Nat /\ stamps \in Nat /\ baseline \in Nat /\ clock \in Nat
           /\ changes \in Nat /\ checkpoint.hash \in Nat /\ checkpoint.stamp \in Nat
           /\ checkpoint.hash \in Hashes /\ checkpoint.stamp \in Stamps
           /\ \A s \in Stamps : born[s] \in Nat
<1>1. changes \in Nat
  BY Bounds DEF TypeOK
<1> QED BY <1>1, SmallNumbers, LenProperties DEF TypeOK, Checkpoint

----------------------------------------------------------------------------
(* What keeps the invariant.                                               *)

\* A step of the world keeps what is known of an evaluator's record.
LEMMA RecordKept ==
    ASSUME TypeOK, TypeOK', Grows, NEW v \in Evaluator, EvaluatorKept(v),
           stamps <= stamps', baseline <= baseline',
           \A s \in Stamps : s <= stamps => born'[s] = born[s]
    PROVE  EvaluatorKept(v)'
<1>1. /\ v.stamp \in Stamps /\ v.stamp \in Nat /\ v.seen \in Nat /\ v.at \in Nat
      /\ Len(history) \in Nat /\ stamps \in Nat /\ baseline \in Nat
      /\ Len(history') \in Nat /\ stamps' \in Nat /\ baseline' \in Nat
  <2>1. Len(history') \in Nat
    BY LenProperties DEF TypeOK
  <2> QED BY <2>1, SmallNumbers, NumbersAre DEF Evaluator, TypeOK
<1>2. v.stamp <= stamps /\ v.stamp <= stamps' /\ born'[v.stamp] = born[v.stamp]
  BY <1>1 DEF EvaluatorKept
<1>3. ASSUME v.pc \in {"read", "baseline", "transitions"}
      PROVE  1 <= v.seen /\ v.seen <= Len(history') /\ born'[v.stamp] <= v.seen
  BY <1>1, <1>2, <1>3 DEF EvaluatorKept, Grows
<1>4. ASSUME v.pc = "transitions"
      PROVE  /\ 1 <= v.at /\ v.at <= v.seen /\ born'[v.stamp] <= v.at
             /\ 1 <= baseline' /\ AlertedBetween(baseline, v.at)'
  <2>1. /\ 1 <= v.at /\ v.at <= v.seen /\ born[v.stamp] <= v.at /\ v.seen <= Len(history)
        /\ 1 <= baseline /\ AlertedBetween(baseline, v.at)
    BY <1>4 DEF EvaluatorKept
  <2>2. PICK lo \in Nat, lo2 \in Nat, hi \in Nat :
           lo = baseline /\ lo2 = baseline' /\ hi = v.at
    BY <1>1
  <2>3. AlertedBetween(lo, hi)
    BY <2>1, <2>2 DEF AlertedBetween
  <2>4. lo <= lo2 /\ hi <= Len(history) /\ 1 <= lo
    BY <1>1, <2>1, <2>2
  <2>5. AlertedBetween(lo2, hi)'
    BY <2>3, <2>4, AlertedKept
  <2>6. AlertedBetween(baseline, v.at)'
    BY <2>2, <2>5 DEF AlertedBetween
  <2>7. 1 <= baseline'
    BY <1>1, <2>1
  <2> QED BY <1>2, <2>1, <2>6, <2>7
<1> QED BY <1>2, <1>3, <1>4 DEF EvaluatorKept

\* A step of the world, the registry, the clock or the watch list.
LEMMA EnvironmentKeeps ==
    ASSUME Inv, TypeOK', Grows, UNCHANGED <<checkpoint, alerts, baseline, eval>>,
           stamps <= stamps',
           \A s \in Stamps : s <= stamps => born'[s] = born[s],
           \A s \in Stamps : born'[s] <= Len(history')
    PROVE  Inv'
<1>1. /\ TypeOK /\ Len(history) \in Nat /\ stamps \in Nat /\ baseline \in Nat
      /\ stamps' \in Nat /\ Len(history') \in Nat
      /\ checkpoint.hash \in Nat /\ checkpoint.stamp \in Nat /\ checkpoint.stamp \in Stamps
  <2>1. Len(history') \in Nat
    BY LenProperties DEF TypeOK
  <2> QED BY <2>1, SmallNumbers, NumbersAre DEF Inv, TypeOK
<1>2. ASSUME NEW e \in Evaluators
      PROVE  EvaluatorKept(eval[e])'
  <2>1. PICK v \in Evaluator : v = eval[e]
    BY <1>1, EvaluatorIs
  <2>2. EvaluatorKept(v)
    BY <2>1 DEF Inv, EvaluatorKept
  <2>3. EvaluatorKept(v)'
    BY <1>1, <2>2, RecordKept
  <2> QED BY <2>1, <2>3 DEF EvaluatorKept
<1>3. CheckpointKept'
  <2>1. CheckpointKept
    BY DEF Inv
  <2>2. born'[checkpoint.stamp] = born[checkpoint.stamp]
    BY <1>1, <2>1 DEF CheckpointKept
  <2>3. NeverPastAlerts'
    <3>1. PICK lo \in Nat, hi \in Nat : lo = baseline /\ hi = checkpoint.hash
      BY <1>1
    <3>2. AlertedBetween(lo, hi) /\ hi <= Len(history) /\ (hi = 0 \/ 1 <= lo)
      BY <1>1, <2>1, <3>1 DEF CheckpointKept, NeverPastAlerts, AlertedBetween
    <3>3. AlertedBetween(lo, hi)'
      BY <1>1, <3>2, AlertedKept
    <3> QED BY <3>1, <3>3 DEF NeverPastAlerts, AlertedBetween
  <2> QED BY <1>1, <2>1, <2>2, <2>3 DEF CheckpointKept, Grows
<1> QED BY <1>2, <1>3 DEF Inv

\* A step of an evaluator.
LEMMA EvaluatorKeeps ==
    ASSUME Inv, NEW e \in Evaluators, NEW v \in Evaluator, eval' = [eval EXCEPT ![e] = v],
           UNCHANGED <<history, support, changes, clock, watch, stamps, born>>,
           crashes' \in 0..MaxCrashes, checkpoint' \in Checkpoint, alerts' \subseteq Alerts,
           alerts \subseteq alerts', baseline' \in Hashes, baseline <= baseline',
           EvaluatorKept(v)', CheckpointKept'
    PROVE  Inv'
<1>1. TypeOK'
  BY DEF Inv, TypeOK
<1>2. TypeOK /\ Grows /\ Len(history) \in Nat /\ stamps \in Nat
  BY NumbersAre DEF Inv, Grows
<1>3. ASSUME NEW d \in Evaluators
      PROVE  EvaluatorKept(eval[d])'
  <2>1. CASE d = e
    <3>1. eval'[d] = v
      BY <1>2, <2>1 DEF TypeOK
    <3> QED BY <3>1 DEF EvaluatorKept
  <2>2. CASE d # e
    <3>1. PICK u \in Evaluator : u = eval[d]
      BY <1>2, EvaluatorIs
    <3>2. EvaluatorKept(u)
      BY <3>1 DEF Inv, EvaluatorKept
    <3>3. EvaluatorKept(u)'
      BY <1>1, <1>2, <3>2, RecordKept
    <3>4. eval'[d] = u
      BY <1>2, <2>2, <3>1 DEF TypeOK
    <3> QED BY <3>3, <3>4 DEF EvaluatorKept
  <2> QED BY <2>1, <2>2
<1> QED BY <1>1, <1>3 DEF Inv

\* A step of an evaluator that commits nothing.
LEMMA ReaderKeeps ==
    ASSUME Inv, NEW e \in Evaluators, NEW v \in Evaluator, eval' = [eval EXCEPT ![e] = v],
           UNCHANGED <<history, support, changes, clock, watch, stamps, born,
                       checkpoint, alerts, baseline>>,
           crashes' \in 0..MaxCrashes, EvaluatorKept(v)
    PROVE  Inv'
<1>1. EvaluatorKept(v)'
  BY DEF EvaluatorKept, AlertedBetween, ValueAlerts, Economic
<1>2. CheckpointKept'
  BY DEF Inv, CheckpointKept, NeverPastAlerts, AlertedBetween, ValueAlerts, Economic
<1>3. /\ checkpoint' \in Checkpoint /\ alerts' \subseteq Alerts /\ baseline' \in Hashes
      /\ baseline <= baseline'
  BY NumbersAre DEF Inv, TypeOK
<1> QED BY <1>1, <1>2, <1>3, EvaluatorKeeps

\* An evaluator at rest is bound by nothing.
LEMMA RestingKept == TypeOK => EvaluatorKept(Resting)
BY RestingIs, NumbersAre DEF EvaluatorKept

----------------------------------------------------------------------------
(* The evaluator, one lemma per action.                                    *)

\* A listed entry is watched, so its stamp was given.
LEMMA ListKeeps ==
    ASSUME Inv, NEW e \in Evaluators, List(e)
    PROVE  Inv'
<1> DEFINE v == [Resting EXCEPT !.pc = "listed", !.stamp = watch, !.now = clock,
                                !.support = support]
<1>1. TypeOK /\ stamps \in Nat /\ watch \in Stamps /\ watch <= stamps /\ 1 <= watch
  BY NumbersAre DEF Inv, TypeOK, List
<1>2. v \in Evaluator /\ v.pc = "listed" /\ v.stamp = watch
  BY <1>1, RestingIs DEF TypeOK, Evaluator
<1>3. eval' = [eval EXCEPT ![e] = v]
  BY DEF List
<1> HIDE DEF v
<1>4. EvaluatorKept(v)
  BY <1>1, <1>2 DEF EvaluatorKept
<1>5. /\ UNCHANGED <<history, support, changes, clock, watch, stamps, born,
                     checkpoint, alerts, baseline>>
      /\ crashes' \in 0..MaxCrashes
  BY <1>1 DEF List, world, entry, store, TypeOK
<1> QED BY <1>2, <1>3, <1>4, <1>5, ReaderKeeps

\* The history read holds what the lifecycle began with.
LEMMA ReadHistoryKeeps ==
    ASSUME Inv, NEW e \in Evaluators, ReadHistory(e)
    PROVE  Inv'
<1>1. /\ TypeOK /\ Len(history) \in Hashes /\ Len(history) \in Nat
      /\ eval[e] \in Evaluator /\ EvaluatorKept(eval[e])
      /\ eval[e].stamp \in Stamps /\ born[eval[e].stamp] <= Len(history)
      /\ eval[e].pc = "listed"
  BY EvaluatorIs, NumbersAre, Bounds DEF Inv, TypeOK, Hashes, ReadHistory
<1>2. /\ UNCHANGED <<history, support, changes, clock, watch, stamps, born,
                     checkpoint, alerts, baseline>>
      /\ crashes' \in 0..MaxCrashes
  BY <1>1 DEF ReadHistory, world, entry, store, TypeOK
<1>3. CASE history = <<>>
  <2>1. eval' = [eval EXCEPT ![e] = Resting]
    BY <1>3 DEF ReadHistory
  <2> QED BY <1>1, <1>2, <2>1, RestingIs, RestingKept, ReaderKeeps
<1>4. CASE history # <<>>
  <2> DEFINE v == [eval[e] EXCEPT !.pc = "read", !.seen = Len(history)]
  <2>1. /\ v \in Evaluator /\ v.pc = "read" /\ v.seen = Len(history)
        /\ v.stamp = eval[e].stamp
    BY <1>1 DEF Evaluator
  <2>2. eval' = [eval EXCEPT ![e] = v]
    BY <1>4 DEF ReadHistory
  <2>3. 1 <= Len(history)
    BY <1>1, <1>4, EmptySeq DEF TypeOK
  <2> HIDE DEF v
  <2>4. EvaluatorKept(v)
    BY <1>1, <2>1, <2>3 DEF EvaluatorKept
  <2> QED BY <1>2, <2>1, <2>2, <2>4, ReaderKeeps
<1> QED BY <1>3, <1>4

\* A checkpoint worked from is of this lifecycle.
LEMMA ReadCheckpointKeeps ==
    ASSUME Inv, NEW e \in Evaluators, ReadCheckpoint(e)
    PROVE  Inv'
<1>1. /\ TypeOK /\ eval[e] \in Evaluator /\ EvaluatorKept(eval[e]) /\ eval[e].pc = "read"
      /\ CheckpointKept /\ checkpoint \in Checkpoint
  BY EvaluatorIs DEF Inv, TypeOK, ReadCheckpoint
<1>2. /\ UNCHANGED <<history, support, changes, clock, watch, stamps, born,
                     checkpoint, alerts, baseline>>
      /\ crashes' \in 0..MaxCrashes
  BY <1>1 DEF ReadCheckpoint, world, entry, store, TypeOK
<1>3. CASE NeedsBaseline(checkpoint, eval[e].seen, eval[e].stamp)
  <2> DEFINE v == [eval[e] EXCEPT !.pc = "baseline"]
  <2>1. /\ v \in Evaluator /\ v.pc = "baseline" /\ v.seen = eval[e].seen
        /\ v.stamp = eval[e].stamp
    BY <1>1 DEF Evaluator
  <2>2. eval' = [eval EXCEPT ![e] = v]
    BY <1>3 DEF ReadCheckpoint
  <2> HIDE DEF v
  <2>3. EvaluatorKept(v)
    BY <1>1, <2>1 DEF EvaluatorKept
  <2> QED BY <1>2, <2>1, <2>2, <2>3, ReaderKeeps
<1>4. CASE ~NeedsBaseline(checkpoint, eval[e].seen, eval[e].stamp)
  <2> DEFINE v == [eval[e] EXCEPT !.pc = "transitions", !.at = checkpoint.hash,
                                  !.fresh = checkpoint.fresh, !.sup = checkpoint.support]
  <2>1. /\ v \in Evaluator /\ v.pc = "transitions" /\ v.seen = eval[e].seen
        /\ v.stamp = eval[e].stamp /\ v.at = checkpoint.hash
    BY <1>1 DEF Evaluator, Checkpoint
  <2>2. eval' = [eval EXCEPT ![e] = v]
    BY <1>4 DEF ReadCheckpoint
  <2>3. /\ checkpoint.stamp # 0 /\ checkpoint.stamp = eval[e].stamp
        /\ checkpoint.hash <= eval[e].seen
    <3>1. checkpoint.hash \in Nat /\ eval[e].seen \in Nat
      BY <1>1, NumbersAre, EvaluatorIs
    <3> QED BY <1>4, <3>1 DEF NeedsBaseline
  <2> HIDE DEF v
  <2>4. EvaluatorKept(v)
    BY <1>1, <2>1, <2>3 DEF EvaluatorKept, CheckpointKept, NeverPastAlerts
  <2> QED BY <1>2, <2>1, <2>2, <2>4, ReaderKeeps
<1> QED BY <1>3, <1>4

\* An evaluator that dies leaves the store as it is.
LEMMA CrashKeeps ==
    ASSUME Inv, NEW e \in Evaluators, Crash(e)
    PROVE  Inv'
<1>1. TypeOK /\ crashes \in Nat /\ crashes' = crashes + 1 /\ crashes < MaxCrashes
  BY Bounds DEF Inv, TypeOK, Crash
<1>2. /\ UNCHANGED <<history, support, changes, clock, watch, stamps, born,
                     checkpoint, alerts, baseline>>
      /\ crashes' \in 0..MaxCrashes
  BY <1>1, Bounds DEF Crash, world, entry, store
<1>3. eval' = [eval EXCEPT ![e] = Resting]
  BY DEF Crash
<1> QED BY <1>1, <1>2, <1>3, RestingIs, RestingKept, ReaderKeeps

\* A baseline is the latest observation read: nothing lies between the two.
LEMMA BaselineKeeps ==
    ASSUME Inv, NEW e \in Evaluators, Baseline(e)
    PROVE  Inv'
<1> DEFINE v == eval[e]
           fresh == Freshness(v.seen, v.now)
<1>1. /\ TypeOK /\ v \in Evaluator /\ EvaluatorKept(v) /\ v.pc = "baseline"
      /\ v.seen \in Hashes /\ v.seen \in Nat /\ v.stamp \in Stamps /\ v.stamp \in Nat
      /\ v.support \in SupportStates /\ v.now \in Times
      /\ Len(history) \in Nat /\ history \in Seq(Observation)
      /\ baseline \in Hashes /\ baseline \in Nat
  BY EvaluatorIs, NumbersAre DEF Inv, TypeOK, Baseline
<1>2. /\ v.stamp <= stamps /\ 1 <= v.stamp
      /\ 1 <= v.seen /\ v.seen <= Len(history) /\ born[v.stamp] <= v.seen
  BY <1>1 DEF EvaluatorKept
<1>3. fresh \in FreshStates
  BY <1>1, <1>2, FreshnessIs
<1>4. /\ eval' = [eval EXCEPT ![e] = Resting]
      /\ UNCHANGED <<history, support, changes, clock, watch, stamps, born, crashes>>
      /\ alerts' = alerts \union {}
      /\ checkpoint' = [hash |-> v.seen, fresh |-> fresh, support |-> v.support,
                        stamp |-> v.stamp]
      /\ baseline' = IF v.seen > baseline THEN v.seen ELSE baseline
  BY DEF Baseline, CommitState, StampOf, world, entry
<1> HIDE DEF v, fresh
<1>5. /\ checkpoint' \in Checkpoint /\ alerts' = alerts /\ baseline' \in Hashes
      /\ baseline <= baseline' /\ v.seen <= baseline' /\ baseline' \in Nat
      /\ crashes' \in 0..MaxCrashes
  BY <1>1, <1>3, <1>4 DEF Checkpoint, TypeOK
<1>6. CheckpointKept'
  <2>1. NeverPastAlerts'
    BY <1>1, <1>4, <1>5 DEF NeverPastAlerts, AlertedBetween
  <2> QED BY <1>1, <1>2, <1>4, <1>5, <2>1 DEF CheckpointKept
<1>7. EvaluatorKept(Resting)'
  BY <1>1, <1>4, RestingIs, NumbersAre DEF EvaluatorKept
<1> QED BY <1>1, <1>4, <1>5, <1>6, <1>7, RestingIs, EvaluatorKeeps DEF TypeOK

\* A transition alerts of the change it moves the checkpoint past.
LEMMA TransitionKeeps ==
    ASSUME Inv, NEW e \in Evaluators, Transition(e)
    PROVE  Inv'
<1>1. PICK v \in Evaluator : v = eval[e]
  BY EvaluatorIs DEF Inv
<1>2. /\ TypeOK /\ EvaluatorKept(v) /\ v.pc = "transitions" /\ v.at < v.seen
      /\ v.seen \in Hashes /\ v.seen \in Nat /\ v.stamp \in Stamps /\ v.stamp \in Nat
      /\ v.at \in Hashes /\ v.at \in Nat /\ v.fresh \in FreshStates
      /\ v.support \in SupportStates /\ v.sup \in SupportStates /\ v.now \in Times
      /\ Len(history) \in Nat /\ history \in Seq(Observation) /\ baseline \in Nat
      /\ baseline \in Hashes
  BY <1>1, EvaluatorIs, NumbersAre DEF Inv, TypeOK, Transition
<1>3. /\ v.stamp <= stamps /\ 1 <= v.stamp /\ v.seen <= Len(history) /\ born[v.stamp] <= v.seen
      /\ 1 <= v.at /\ born[v.stamp] <= v.at /\ born[v.stamp] \in Nat
      /\ 1 <= baseline /\ AlertedBetween(baseline, v.at)
  BY <1>2, NumbersAre DEF EvaluatorKept
<1>4. PICK j \in Hashes : j = v.at + 1 /\ j \in 1..Len(history) /\ j <= v.seen
  BY <1>2, <1>3, Bounds DEF Hashes
<1>5. PICK fresh \in FreshStates : fresh = Freshness(j, v.now)
  BY <1>2, <1>4, FreshnessIs
<1>6. PICK more \in SUBSET Alerts :
         more = FreshnessAlerts(v.at, j, v.fresh, fresh)
                \union SupportAlerts(v.at, j, v.sup, v.support)
  BY <1>2, <1>4, AlertsAre
<1>7. /\ eval' = [eval EXCEPT ![e] = [v EXCEPT !.at = j, !.fresh = fresh,
                                               !.sup = v.support]]
      /\ UNCHANGED <<history, support, changes, clock, watch, stamps, born, crashes,
                     baseline>>
      /\ alerts' = alerts \union (ValueAlerts(v.at, v.at + 1) \union more)
      /\ checkpoint' = [hash |-> j, fresh |-> fresh, support |-> v.support,
                        stamp |-> v.stamp]
  BY <1>1, <1>4, <1>5, <1>6 DEF Transition, CommitState, Advance, world, entry
<1>8. PICK u \in Evaluator : /\ u = [v EXCEPT !.at = j, !.fresh = fresh, !.sup = v.support]
                             /\ u.pc = "transitions" /\ u.at = j /\ u.seen = v.seen
                             /\ u.stamp = v.stamp
  <2> DEFINE u == [v EXCEPT !.at = j, !.fresh = fresh, !.sup = v.support]
  <2>1. /\ u \in Evaluator /\ u.pc = "transitions" /\ u.at = j /\ u.seen = v.seen
        /\ u.stamp = v.stamp
    BY <1>2 DEF Evaluator
  <2> QED BY <2>1
<1>9. /\ checkpoint' \in Checkpoint /\ alerts' \subseteq Alerts /\ alerts \subseteq alerts'
      /\ baseline' \in Hashes /\ baseline <= baseline' /\ crashes' \in 0..MaxCrashes
  <2>1. ValueAlerts(v.at, v.at + 1) \subseteq Alerts
    BY <1>2, <1>4, AlertsAre
  <2> QED BY <1>2, <1>4, <1>5, <1>7, <2>1 DEF Checkpoint, TypeOK
<1>10. AlertedBetween(baseline, j)'
  <2>1. PICK lo \in Nat, hi \in Nat : lo = baseline /\ hi = v.at
    BY <1>2
  <2>2. /\ AlertedBetween(lo, hi) /\ alerts \subseteq alerts' /\ history' = history
        /\ ValueAlerts(hi, hi + 1) \subseteq alerts'
    BY <1>3, <1>7, <2>1 DEF AlertedBetween
  <2>3. AlertedBetween(lo, hi + 1)'
    BY <1>2, <2>2, AlertedFurther
  <2> QED BY <1>4, <1>7, <2>1, <2>3 DEF AlertedBetween
<1>11. CheckpointKept'
  <2>1. NeverPastAlerts'
    BY <1>7, <1>10 DEF NeverPastAlerts, AlertedBetween
  <2> QED BY <1>2, <1>3, <1>4, <1>7, <2>1 DEF CheckpointKept
<1>12. EvaluatorKept(u)'
  BY <1>2, <1>3, <1>4, <1>7, <1>8, <1>10 DEF EvaluatorKept
<1> QED BY <1>7, <1>8, <1>9, <1>11, <1>12, EvaluatorKeeps

\* The comparison on the last observation leaves the checkpoint there.
LEMMA StateOnlyKeeps ==
    ASSUME Inv, NEW e \in Evaluators, StateOnly(e)
    PROVE  Inv'
<1>1. PICK v \in Evaluator : v = eval[e]
  BY EvaluatorIs DEF Inv
<1>2. /\ TypeOK /\ EvaluatorKept(v) /\ v.pc = "transitions" /\ v.at = v.seen
      /\ v.stamp \in Stamps /\ v.stamp \in Nat
      /\ v.at \in Hashes /\ v.at \in Nat /\ v.fresh \in FreshStates
      /\ v.support \in SupportStates /\ v.sup \in SupportStates /\ v.now \in Times
      /\ Len(history) \in Nat /\ history \in Seq(Observation)
  BY <1>1, EvaluatorIs, NumbersAre DEF Inv, TypeOK, StateOnly
<1>3. /\ v.stamp <= stamps /\ 1 <= v.stamp /\ v.at <= Len(history)
      /\ 1 <= v.at /\ born[v.stamp] <= v.at
      /\ 1 <= baseline /\ AlertedBetween(baseline, v.at)
  BY <1>2 DEF EvaluatorKept
<1>4. PICK fresh \in FreshStates : fresh = Freshness(v.at, v.now)
  BY <1>2, <1>3, FreshnessIs
<1>5. PICK sup \in SupportStates : sup = KnownSupport(v.sup, v.support)
  BY <1>2 DEF KnownSupport
<1>6. /\ eval' = [eval EXCEPT ![e] = Resting]
      /\ UNCHANGED <<history, support, changes, clock, watch, stamps, born, crashes,
                     baseline>>
  BY DEF StateOnly, world, entry
<1>7. /\ crashes' \in 0..MaxCrashes /\ baseline' \in Hashes /\ baseline <= baseline'
      /\ Resting \in Evaluator /\ EvaluatorKept(Resting)
  BY <1>2, <1>6, RestingIs, RestingKept, NumbersAre DEF TypeOK
<1>8. CASE fresh = v.fresh /\ sup = v.sup
  <2>1. UNCHANGED <<checkpoint, alerts>>
    BY <1>1, <1>4, <1>5, <1>8 DEF StateOnly
  <2> QED BY <1>6, <1>7, <2>1, ReaderKeeps
<1>9. CASE ~(fresh = v.fresh /\ sup = v.sup)
  <2>1. PICK new \in SUBSET Alerts :
           new = FreshnessAlerts(v.at, v.at, v.fresh, fresh)
                 \union SupportAlerts(v.at, v.at, v.sup, v.support)
    BY <1>2, AlertsAre
  <2>2. /\ alerts' = alerts \union new
        /\ checkpoint' = [hash |-> v.at, fresh |-> fresh, support |-> sup,
                          stamp |-> v.stamp]
    BY <1>1, <1>4, <1>5, <1>9, <2>1 DEF StateOnly, CommitState
  <2>3. /\ checkpoint' \in Checkpoint /\ alerts' \subseteq Alerts
        /\ alerts \subseteq alerts'
    BY <1>2, <1>4, <1>5, <2>2 DEF Checkpoint, TypeOK
  <2>4. AlertedBetween(baseline, v.at)'
    BY <1>3, <1>6, <2>3 DEF AlertedBetween, ValueAlerts, Economic
  <2>5. CheckpointKept'
    <3>1. NeverPastAlerts'
      BY <2>2, <2>4 DEF NeverPastAlerts, AlertedBetween
    <3> QED BY <1>2, <1>3, <1>6, <2>2, <3>1 DEF CheckpointKept
  <2>6. EvaluatorKept(Resting)'
    BY <1>2, <1>6, RestingIs, NumbersAre DEF EvaluatorKept
  <2> QED BY <1>6, <1>7, <2>3, <2>5, <2>6, EvaluatorKeeps
<1> QED BY <1>8, <1>9

----------------------------------------------------------------------------
(* The world, one lemma per action.                                        *)

\* A new observation changes none before it.
LEMMA ObserveKeeps ==
    ASSUME Inv, NEW value \in Values, NEW evidence \in Evidence, Observe(value, evidence)
    PROVE  Inv'
<1> DEFINE o == [value |-> value, at |-> clock, evidence |-> evidence]
<1>1. /\ TypeOK /\ Len(history) \in Nat /\ history \in Seq(Observation)
      /\ clock \in Nat /\ changes \in Nat /\ stamps \in Nat /\ clock \in Times
      /\ \A s \in Stamps : born[s] \in Nat /\ born[s] <= Len(history)
  BY NumbersAre DEF Inv, TypeOK
<1>2. Len(history) + 1 <= MaxEvents
  BY <1>1, Bounds DEF Observe, MoreToCome
<1>3. history' = Append(history, o) /\ o \in Observation
  BY <1>1 DEF Observe, Observation
<1> HIDE DEF o
<1>4. /\ history' \in Seq(Observation) /\ Len(history') = Len(history) + 1
      /\ \A i \in 1..Len(history) : history'[i] = history[i]
  BY <1>1, <1>3, AppendProperties
<1>5. UNCHANGED <<support, changes, clock, watch, stamps, born, checkpoint, alerts,
                  baseline, eval, crashes>>
  BY DEF Observe, entry, store
<1>6. TypeOK'
  BY <1>1, <1>2, <1>4, <1>5 DEF TypeOK
<1>7. Grows /\ \A s \in Stamps : born'[s] <= Len(history')
  BY <1>1, <1>4, <1>5 DEF Grows
<1> QED BY <1>1, <1>5, <1>6, <1>7, EnvironmentKeeps

\* The clock and the registry move no checkpoint.
LEMMA ClockAndRegistryKeep ==
    ASSUME Inv, Tick \/ \E s \in SupportStates : ChangeSupport(s)
    PROVE  Inv'
<1>1. /\ TypeOK /\ Len(history) \in Nat /\ clock \in Nat /\ changes \in Nat
      /\ stamps \in Nat
      /\ \A s \in Stamps : born[s] <= Len(history)
  BY NumbersAre DEF Inv
<1>2. UNCHANGED <<history, watch, stamps, born, checkpoint, alerts, baseline, eval, crashes>>
  BY DEF Tick, ChangeSupport, entry, store
<1>3. /\ support' \in SupportStates /\ changes' \in 0..MaxEvents /\ clock' \in Times
  <2>1. CASE Tick
    BY <1>1, <2>1, Bounds DEF Tick, MoreToCome, Times, TypeOK
  <2>2. CASE \E s \in SupportStates : ChangeSupport(s)
    BY <1>1, <2>2, Bounds DEF ChangeSupport, MoreToCome, TypeOK
  <2> QED BY <2>1, <2>2
<1>4. TypeOK'
  BY <1>1, <1>2, <1>3 DEF TypeOK
<1>5. Grows
  BY <1>1, <1>2 DEF Grows
<1> QED BY <1>1, <1>2, <1>4, <1>5, EnvironmentKeeps

\* A new watch lifecycle gets a stamp nothing was recorded under.
LEMMA WatchKeeps ==
    ASSUME Inv, Watch
    PROVE  Inv'
<1>1. /\ TypeOK /\ Len(history) \in Nat /\ clock \in Nat /\ changes \in Nat
      /\ stamps \in Nat /\ born \in [Stamps -> Hashes] /\ Len(history) \in Hashes
      /\ \A s \in Stamps : s \in Nat /\ born[s] <= Len(history)
  BY NumbersAre, SmallNumbers, Bounds DEF Inv, TypeOK, Hashes
<1>2. stamps + 1 \in Stamps
  BY <1>1, Bounds DEF Watch, MoreToCome, Stamps
<1>3. /\ UNCHANGED <<history, support, changes, clock, checkpoint, alerts, baseline,
                     eval, crashes>>
      /\ stamps' = stamps + 1 /\ watch' = stamps + 1
      /\ born' = [born EXCEPT ![stamps + 1] = Len(history)]
  BY DEF Watch, world, store
<1>4. /\ born' \in [Stamps -> Hashes]
      /\ \A s \in Stamps : s <= stamps => born'[s] = born[s]
      /\ \A s \in Stamps : born'[s] <= Len(history')
  BY <1>1, <1>2, <1>3
<1>5. TypeOK'
  BY <1>1, <1>2, <1>3, <1>4 DEF TypeOK
<1>6. Grows /\ stamps <= stamps'
  BY <1>1, <1>3 DEF Grows
<1> QED BY <1>3, <1>4, <1>5, <1>6, EnvironmentKeeps

\* The checkpoint outlives the watch list entry.
LEMMA UnwatchKeeps ==
    ASSUME Inv, Unwatch
    PROVE  Inv'
<1>1. /\ TypeOK /\ Len(history) \in Nat /\ stamps \in Nat
      /\ \A s \in Stamps : born[s] <= Len(history)
  BY NumbersAre DEF Inv
<1>2. /\ UNCHANGED <<history, support, changes, clock, checkpoint, alerts, baseline,
                     stamps, born, eval, crashes>>
      /\ watch' = 0
  BY DEF Unwatch, world, store
<1>3. TypeOK' /\ Grows
  BY <1>1, <1>2 DEF TypeOK, Grows
<1> QED BY <1>1, <1>2, <1>3, EnvironmentKeeps

----------------------------------------------------------------------------
(* The theorems.                                                           *)

\* The invariant holds at first.
LEMMA InitInv == Init => Inv
<1> SUFFICES ASSUME Init
             PROVE  Inv
  OBVIOUS
<1>1. history = <<>> /\ Len(history) = 0 /\ history \in Seq(Observation)
  BY EmptySeq DEF Init
<1>2. /\ NoCheckpoint \in Checkpoint
      /\ \A e \in Evaluators : eval[e] = Resting
  BY SmallNumbers DEF NoCheckpoint, Checkpoint, FreshStates, SupportStates, Init
<1>3. TypeOK
  BY <1>1, <1>2, SmallNumbers, Bounds, RestingIs DEF Init, TypeOK, SupportStates
<1>4. CheckpointKept
  BY <1>1 DEF CheckpointKept, Init, NoCheckpoint, NeverPastAlerts, AlertedBetween
<1>5. \A s \in Stamps : born[s] <= Len(history)
  BY <1>1 DEF Init
<1> QED BY <1>2, <1>3, <1>4, <1>5, RestingKept DEF Inv

\* Every step keeps the invariant.
LEMMA InvStep == Inv /\ [Next]_vars => Inv'
<1> SUFFICES ASSUME Inv, [Next]_vars
             PROVE  Inv'
  OBVIOUS
<1>1. CASE UNCHANGED vars
  <2>1. TypeOK' /\ Grows
    BY <1>1, NumbersAre DEF Inv, TypeOK, Grows, vars, world, entry, store
  <2>2. /\ UNCHANGED <<history, checkpoint, alerts, baseline, eval, stamps, born>>
        /\ stamps <= stamps' /\ \A s \in Stamps : born'[s] <= Len(history')
    BY <1>1, NumbersAre DEF vars, world, entry, store, Inv
  <2> QED BY <2>1, <2>2, EnvironmentKeeps
<1>2. ASSUME NEW e \in Evaluators, Evaluate(e) \/ Crash(e)
      PROVE  Inv'
  BY <1>2, ListKeeps, ReadHistoryKeeps, ReadCheckpointKeeps, BaselineKeeps,
     TransitionKeeps, StateOnlyKeeps, CrashKeeps DEF Evaluate
<1>3. CASE Environment
  BY <1>3, ObserveKeeps, ClockAndRegistryKeep, WatchKeeps, UnwatchKeeps DEF Environment
<1> QED BY <1>1, <1>2, <1>3 DEF Next

\* The invariant always holds.
LEMMA Always == Spec => []Inv
BY InitInv, InvStep, PTL DEF Spec

\* Every reachable state is well-typed: the checkpoint, the alerts and the
\* evaluators' copies stay within what the store can hold.
THEOREM TypeCorrect == Spec => []TypeOK
<1>1. Inv => TypeOK
  BY DEF Inv
<1> QED BY <1>1, Always, PTL

\* However many evaluators overlap and die, every change of a tracked field
\* from the furthest baseline to the checkpoint has its alert.
THEOREM CheckpointNeverPassesAlerts == Spec => []NeverPastAlerts
<1>1. Inv => NeverPastAlerts
  BY DEF Inv, CheckpointKept
<1> QED BY <1>1, Always, PTL

----------------------------------------------------------------------------
(* What a step may never do.                                               *)

\* The action UnwatchedNotReplayed asserts of a step.
AlertsAreOfTheLifecycle ==
    \A a \in alerts' \ alerts :
        a.cur >= born[checkpoint'.stamp]
          /\ (a.type = "ECONOMIC" => a.cur > born[checkpoint'.stamp])

\* Only these two steps add alerts.
LEMMA OnlyTwoStepsAlert ==
    ASSUME [Next]_vars
    PROVE  \/ alerts' = alerts
           \/ \E e \in Evaluators : Transition(e) \/ StateOnly(e)
<1>1. CASE UNCHANGED vars
  BY <1>1 DEF vars, store
<1>2. ASSUME NEW e \in Evaluators, Evaluate(e) \/ Crash(e)
      PROVE  alerts' = alerts \/ Transition(e) \/ StateOnly(e)
  <2>1. CASE Baseline(e)
    BY <2>1 DEF Baseline, CommitState
  <2> QED BY <1>2, <2>1 DEF Evaluate, List, ReadHistory, ReadCheckpoint, Crash, store
<1>3. CASE Environment
  BY <1>3 DEF Environment, Observe, ChangeSupport, Tick, Watch, Unwatch, store
<1> QED BY <1>1, <1>2, <1>3 DEF Next

\* What a step alerts of was observed under its lifecycle.
LEMMA LifecycleStep == Inv /\ [Next]_vars => AlertsAreOfTheLifecycle
<1> SUFFICES ASSUME Inv, [Next]_vars, NEW a \in alerts' \ alerts
             PROVE  /\ a.cur >= born[checkpoint'.stamp]
                    /\ a.type = "ECONOMIC" => a.cur > born[checkpoint'.stamp]
  BY DEF AlertsAreOfTheLifecycle
<1>1. PICK e \in Evaluators : Transition(e) \/ StateOnly(e)
  BY OnlyTwoStepsAlert
<1>2. PICK v \in Evaluator : v = eval[e]
  BY EvaluatorIs DEF Inv
<1>3. /\ v.pc = "transitions" /\ v.at \in Nat /\ v.stamp \in Stamps
      /\ born[v.stamp] \in Nat /\ born[v.stamp] <= v.at
  BY <1>1, <1>2, EvaluatorIs, NumbersAre DEF Inv, EvaluatorKept, Transition, StateOnly
<1>4. CASE Transition(e)
  <2>1. /\ checkpoint'.stamp = v.stamp
        /\ a \in ValueAlerts(v.at, v.at + 1)
                 \union (FreshnessAlerts(v.at, v.at + 1, v.fresh,
                                         Freshness(v.at + 1, v.now))
                         \union SupportAlerts(v.at, v.at + 1, v.sup, v.support))
    BY <1>2, <1>4 DEF Transition, CommitState
  <2>2. a.cur = v.at + 1
    BY <2>1 DEF ValueAlerts, FreshnessAlerts, SupportAlerts, Economic, NewObservation,
       StateAlert
  <2> QED BY <1>3, <2>1, <2>2
<1>5. CASE StateOnly(e)
  <2>1. /\ checkpoint'.stamp = v.stamp
        /\ a \in FreshnessAlerts(v.at, v.at, v.fresh, Freshness(v.at, v.now))
                 \union SupportAlerts(v.at, v.at, v.sup, v.support)
    BY <1>2, <1>5 DEF StateOnly, CommitState
  <2>2. a.cur = v.at /\ a.type # "ECONOMIC"
    BY <2>1 DEF ValueAlerts, FreshnessAlerts, SupportAlerts, Economic, NewObservation,
       StateAlert
  <2> QED BY <1>3, <2>1, <2>2
<1> QED BY <1>1, <1>4, <1>5

\* An observation appended before a watch lifecycle began is never alerted
\* under it, whatever checkpoint an earlier lifecycle left behind.
THEOREM UnwatchedIsNotReplayed == Spec => UnwatchedNotReplayed
<1>1. Inv /\ [Next]_vars => [AlertsAreOfTheLifecycle]_vars
  BY LifecycleStep
<1> QED BY <1>1, Always, PTL DEF Spec, UnwatchedNotReplayed, AlertsAreOfTheLifecycle

\* The action StateChangesAlerted asserts of a step.
ChangesAlerted ==
    \A e \in Evaluators : CopyIsCurrent(e) /\ eval'[e] # eval[e] =>
        /\ SupportMoves =>
             \E a \in alerts' : /\ a.type = "SUPPORT_STATE_CHANGED"
                                /\ a.cur = checkpoint'.hash
                                /\ a.from = checkpoint.support
                                /\ a.to = checkpoint'.support
        /\ checkpoint.fresh = "CURRENT" /\ checkpoint'.fresh \in Degraded =>
             \E a \in alerts' : /\ a.type = "FRESHNESS_DEGRADED"
                                /\ a.cur = checkpoint'.hash
                                /\ a.to = checkpoint'.fresh

\* The alert about a move between two known support states, and the one
\* about evidence that was current.
LEMMA MovesAlert ==
    ASSUME NEW i, NEW j, NEW from, NEW to
    PROVE  /\ from # NoSupport /\ to # NoSupport /\ from # to =>
                StateAlert("SUPPORT_STATE_CHANGED", i, j, from, to)
                  \in SupportAlerts(i, j, from, to)
           /\ from = "CURRENT" /\ to \in Degraded =>
                StateAlert("FRESHNESS_DEGRADED", i, j, from, to)
                  \in FreshnessAlerts(i, j, from, to)
BY DEF SupportAlerts, FreshnessAlerts, Degraded

\* A step that records a change of state alerts of it.
LEMMA ChangesStep == Inv /\ [Next]_vars => ChangesAlerted
<1> SUFFICES ASSUME Inv, [Next]_vars, NEW e \in Evaluators, CopyIsCurrent(e),
                    eval'[e] # eval[e]
             PROVE  /\ SupportMoves =>
                         \E a \in alerts' : /\ a.type = "SUPPORT_STATE_CHANGED"
                                            /\ a.cur = checkpoint'.hash
                                            /\ a.from = checkpoint.support
                                            /\ a.to = checkpoint'.support
                    /\ checkpoint.fresh = "CURRENT" /\ checkpoint'.fresh \in Degraded =>
                         \E a \in alerts' : /\ a.type = "FRESHNESS_DEGRADED"
                                            /\ a.cur = checkpoint'.hash
                                            /\ a.to = checkpoint'.fresh
  BY DEF ChangesAlerted
<1>1. PICK v \in Evaluator : v = eval[e]
  BY EvaluatorIs DEF Inv
<1>2. /\ v.pc = "transitions" /\ checkpoint.support = v.sup /\ checkpoint.fresh = v.fresh
      /\ checkpoint.hash = v.at
  BY <1>1 DEF CopyIsCurrent
<1>3. Transition(e) \/ StateOnly(e) \/ checkpoint' = checkpoint
  <2>1. CASE UNCHANGED vars
    BY <2>1 DEF vars
  <2>2. CASE Environment
    BY <2>2 DEF Environment, Observe, ChangeSupport, Tick, Watch, Unwatch, store
  <2>3. ASSUME NEW d \in Evaluators, Evaluate(d) \/ Crash(d)
        PROVE  d = e
    <3>1. d # e => eval'[e] = eval[e]
      BY <2>3 DEF Inv, TypeOK, Evaluate, List, ReadHistory, ReadCheckpoint, Baseline,
         Transition, StateOnly, Crash
    <3> QED BY <3>1
  <2>4. CASE Evaluate(e) \/ Crash(e)
    BY <1>1, <1>2, <2>4 DEF Evaluate, List, ReadHistory, ReadCheckpoint, Baseline, Crash,
       store
  <2> QED BY <2>1, <2>2, <2>3, <2>4 DEF Next
<1>4. CASE Transition(e)
  <2> DEFINE j == v.at + 1
             fresh == Freshness(j, v.now)
  <2>1. /\ FreshnessAlerts(v.at, j, v.fresh, fresh) \subseteq alerts'
        /\ SupportAlerts(v.at, j, v.sup, v.support) \subseteq alerts'
        /\ checkpoint'.hash = j /\ checkpoint'.fresh = fresh
        /\ checkpoint'.support = v.support
    BY <1>1, <1>4 DEF Transition, CommitState, Advance
  <2> HIDE DEF fresh, j
  <2>2. SupportMoves => StateAlert("SUPPORT_STATE_CHANGED", v.at, j, v.sup, v.support) \in alerts'
    BY <1>2, <2>1, MovesAlert DEF SupportMoves
  <2>3. v.fresh = "CURRENT" /\ fresh \in Degraded =>
           StateAlert("FRESHNESS_DEGRADED", v.at, j, v.fresh, fresh) \in alerts'
    BY <2>1, MovesAlert
  <2> QED BY <1>2, <2>1, <2>2, <2>3 DEF StateAlert
<1>5. CASE StateOnly(e) /\ checkpoint' # checkpoint
  <2> DEFINE fresh == Freshness(v.at, v.now)
             sup == KnownSupport(v.sup, v.support)
  <2>1. /\ FreshnessAlerts(v.at, v.at, v.fresh, fresh) \subseteq alerts'
        /\ SupportAlerts(v.at, v.at, v.sup, v.support) \subseteq alerts'
        /\ checkpoint'.hash = v.at /\ checkpoint'.fresh = fresh
        /\ checkpoint'.support = sup
    BY <1>1, <1>5 DEF StateOnly, CommitState
  <2>2. sup # v.sup => sup = v.support /\ v.support # NoSupport /\ v.sup # NoSupport
    BY DEF KnownSupport
  <2> HIDE DEF fresh, sup
  <2>3. SupportMoves =>
           /\ sup = v.support
           /\ StateAlert("SUPPORT_STATE_CHANGED", v.at, v.at, v.sup, v.support) \in alerts'
    BY <1>2, <2>1, <2>2, MovesAlert DEF SupportMoves
  <2>4. v.fresh = "CURRENT" /\ fresh \in Degraded =>
           StateAlert("FRESHNESS_DEGRADED", v.at, v.at, v.fresh, fresh) \in alerts'
    BY <2>1, MovesAlert
  <2> QED BY <1>2, <2>1, <2>3, <2>4 DEF StateAlert
<1>6. CASE checkpoint' = checkpoint
  BY <1>6 DEF SupportMoves, Degraded
<1> QED BY <1>3, <1>4, <1>5, <1>6

\* An evaluator whose copy of the checkpoint is current never records a new
\* support state, or evidence that degraded, without the alert that says so.
THEOREM StateChangesAreAlerted == Spec => StateChangesAlerted
<1>1. Inv /\ [Next]_vars => [ChangesAlerted]_vars
  BY ChangesStep
<1> QED BY <1>1, Always, PTL DEF Spec, StateChangesAlerted, ChangesAlerted
=============================================================================
