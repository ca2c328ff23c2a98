---------------------------- MODULE YieldAlerts ----------------------------
(***************************************************************************)
(* Yield alerts (finco_yield/alerts_eval.py, alerts_store.py,              *)
(* alerts_types.py, watchlist.py): for one user and one watched            *)
(* opportunity, evaluators turn an append-only history of observations and *)
(* the registry's support state into alerts, and keep a checkpoint.        *)
(*                                                                         *)
(* The batch runner holds a file lock, the user's own Refresh does not, so *)
(* two evaluators may overlap.  An evaluator lists the watch list, reads   *)
(* the history, reads the checkpoint, and commits each transition (its     *)
(* alerts and the checkpoint together); each of these is a step, and it    *)
(* may crash, or be refused by the database, before any of them.           *)
(*                                                                         *)
(* The hash of an observation is its position in the history: append is    *)
(* idempotent, so hashes are distinct.  The three tracked fields are       *)
(* compared alike, and are one value here.                                 *)
(***************************************************************************)
EXTENDS Naturals, Sequences, FiniteSets

CONSTANTS
    Evaluators,       \* the batch runner and the Refresh of a browser tab
    Values,           \* of the tracked fields
    Supports,         \* support states of the registry
    NoSupport,        \* the registry does not resolve the opportunity
    Evidence,         \* "timed", or the state that undated evidence has
    MaxAge,           \* of CURRENT evidence
    MaxEvents,        \* bound: observations, ticks of the clock, changes of
                      \* the registry and watch lifecycles, taken together
    MaxCrashes        \* bound: evaluators that die

ASSUME YieldAssumption ==
    /\ IsFiniteSet(Evaluators)
    /\ NoSupport \notin Supports
    /\ Evidence \subseteq {"timed", "INVALID", "UNKNOWN"}
    /\ {MaxAge, MaxEvents, MaxCrashes} \subseteq Nat

VARIABLES
    history,     \* observations in append order
    support,     \* the registry's support state of the opportunity
    changes,     \* how often it changed
    clock,
    watch,       \* saved_at of the watch list entry, 0 when not watched
    stamps,      \* the last saved_at given
    checkpoint,  \* the row of yield_alert_state
    alerts,      \* the ids in yield_alerts
    eval,        \* what each evaluator is doing
    crashes,
    born,        \* observations there were when each saved_at was given
    baseline     \* the furthest observation taken as a baseline

world == <<history, support, changes, clock>>
entry == <<watch, stamps, born>>
store == <<checkpoint, alerts, baseline>>
vars == <<world, entry, store, eval, crashes>>

----------------------------------------------------------------------------
Hashes == 0..MaxEvents
Stamps == 0..MaxEvents
Times == 0..MaxEvents
Degraded == {"STALE", "INVALID", "FUTURE_TIMESTAMP"}
FreshStates == Degraded \union {"CURRENT", "UNKNOWN"}
SupportStates == Supports \union {NoSupport}

Observation == [value : Values, at : Times, evidence : Evidence]

Checkpoint == [hash : Hashes, fresh : FreshStates, support : SupportStates,
               stamp : Stamps]

\* No row: get_checkpoint returns None.
NoCheckpoint == [hash |-> 0, fresh |-> "UNKNOWN", support |-> NoSupport,
                 stamp |-> 0]

\* The identity of an alert: its type, its pair of hashes and, for the
\* alerts about a state, the two states.
Economic(i, j) == [type |-> "ECONOMIC", prev |-> i, cur |-> j,
                   from |-> "none", to |-> "none"]
NewObservation(i, j) == [Economic(i, j) EXCEPT !.type = "NEW_OBSERVATION"]
StateAlert(type, i, j, from, to) ==
    [type |-> type, prev |-> i, cur |-> j, from |-> from, to |-> to]

AlertTypes == {"ECONOMIC", "NEW_OBSERVATION", "FRESHNESS_DEGRADED",
               "FRESHNESS_RECOVERED", "SUPPORT_STATE_CHANGED"}
Alerts == [type : AlertTypes, prev : Hashes, cur : Hashes,
           from : {"none"} \union FreshStates \union SupportStates,
           to : {"none"} \union FreshStates \union SupportStates]

\* now and support are read once; seen: the history's length when it was read;
\* at, fresh and sup: the evaluator's own copy of the checkpoint.
Evaluator == [pc : {"idle", "listed", "read", "baseline", "transitions"},
              stamp : Stamps, now : Times, support : SupportStates,
              seen : Hashes, at : Hashes, fresh : FreshStates,
              sup : SupportStates]

Resting == [pc |-> "idle", stamp |-> 0, now |-> 0, support |-> NoSupport,
            seen |-> 0, at |-> 0, fresh |-> "UNKNOWN", sup |-> NoSupport]

----------------------------------------------------------------------------
(* evaluate_freshness of one row at the evaluator's instant.               *)
Freshness(i, now) ==
    LET row == history[i] IN
    CASE row.at > now -> "FUTURE_TIMESTAMP"
      [] row.evidence # "timed" -> row.evidence
      [] now > row.at + MaxAge -> "STALE"
      [] OTHER -> "CURRENT"

\* What a comparison of freshness states alerts, from one row to the next.
FreshnessAlerts(i, j, from, to) ==
    IF from = to THEN {}
    ELSE IF to \in Degraded THEN {StateAlert("FRESHNESS_DEGRADED", i, j, from, to)}
    ELSE IF to = "CURRENT" /\ from \in Degraded /\ i # j
    THEN {StateAlert("FRESHNESS_RECOVERED", i, j, from, to), NewObservation(i, j)}
    ELSE {}

\* Faulty: the change is stored and not alerted.
SupportUnalerted(i, j, from, to) == {}

SupportAlerts(i, j, from, to) ==
    IF from = NoSupport \/ to = NoSupport \/ from = to THEN {}
    ELSE {StateAlert("SUPPORT_STATE_CHANGED", i, j, from, to)}

ValueAlerts(i, j) ==
    IF history[i].value = history[j].value THEN {} ELSE {Economic(i, j)}

\* commit_alert_state: the alerts and the checkpoint, in one transaction.
CommitState(new, hash, fresh, sup, stamp) ==
    /\ alerts' = alerts \union new
    /\ checkpoint' = [hash |-> hash, fresh |-> fresh, support |-> sup,
                      stamp |-> stamp]

\* Faulty: a new watch lifecycle is not noticed.
BaselineIfUnknown(cp, seen, stamp) == cp.stamp = 0 \/ cp.hash > seen

\* No checkpoint, one of another watch lifecycle, or one that the history
\* this evaluator read does not hold.
NeedsBaseline(cp, seen, stamp) ==
    \/ cp.stamp = 0
    \/ cp.stamp # stamp
    \/ cp.hash > seen

----------------------------------------------------------------------------
Init ==
    /\ history = <<>> /\ support \in Supports /\ changes = 0 /\ clock = 0
    /\ watch = 0 /\ stamps = 0 /\ born = [s \in Stamps |-> 0]
    /\ checkpoint = NoCheckpoint /\ alerts = {} /\ baseline = 0
    /\ eval = [e \in Evaluators |-> Resting]
    /\ crashes = 0

(* evaluate_watchlist_alerts: now, the registry and the watch list.        *)
List(e) ==
    /\ eval[e].pc = "idle" /\ watch # 0
    /\ eval' = [eval EXCEPT ![e] = [Resting EXCEPT !.pc = "listed",
                   !.stamp = watch, !.now = clock, !.support = support]]
    /\ UNCHANGED <<world, entry, store, crashes>>

(* _canon_history; an empty one leaves nothing to do.                      *)
ReadHistory(e) ==
    /\ eval[e].pc = "listed"
    /\ eval' = [eval EXCEPT ![e] =
                  IF history = <<>> THEN Resting
                  ELSE [@ EXCEPT !.pc = "read", !.seen = Len(history)]]
    /\ UNCHANGED <<world, entry, store, crashes>>

(* _evaluate_one: get_checkpoint, in a connection of its own.              *)
ReadCheckpoint(e) ==
    /\ eval[e].pc = "read"
    /\ LET cp == checkpoint IN
       eval' = [eval EXCEPT ![e] =
                  IF NeedsBaseline(cp, @.seen, @.stamp)
                  THEN [@ EXCEPT !.pc = "baseline"]
                  ELSE [@ EXCEPT !.pc = "transitions", !.at = cp.hash,
                                 !.fresh = cp.fresh, !.sup = cp.support]]
    /\ UNCHANGED <<world, entry, store, crashes>>

\* Faulty: the row keeps the stamp it had.
BaselineStamp(e) == IF checkpoint.stamp = 0 THEN eval[e].stamp ELSE checkpoint.stamp

StampOf(e) == eval[e].stamp

(* The baseline: the latest observation, and no alert.                     *)
Baseline(e) ==
    /\ eval[e].pc = "baseline"
    /\ CommitState({}, eval[e].seen, Freshness(eval[e].seen, eval[e].now),
                   eval[e].support, StampOf(e))
    /\ baseline' = IF eval[e].seen > baseline THEN eval[e].seen ELSE baseline
    /\ eval' = [eval EXCEPT ![e] = Resting]
    /\ UNCHANGED <<world, entry, crashes>>

\* Faulty: the checkpoint is moved to the end of the history at once.
AdvanceToEnd(e) == eval[e].seen

\* The observation that a transition's checkpoint names.
Advance(e) == eval[e].at + 1

(* One unseen transition: its alerts and the checkpoint.                   *)
Transition(e) ==
    LET v == eval[e]
        i == v.at
        j == v.at + 1
        fresh == Freshness(j, v.now) IN
    /\ v.pc = "transitions" /\ v.at < v.seen
    /\ CommitState(ValueAlerts(i, j)
                     \union FreshnessAlerts(i, j, v.fresh, fresh)
                     \union SupportAlerts(i, j, v.sup, v.support),
                   Advance(e), fresh, v.support, v.stamp)
    /\ eval' = [eval EXCEPT ![e] = [@ EXCEPT !.at = Advance(e), !.fresh = fresh,
                                             !.sup = v.support]]
    /\ UNCHANGED <<world, entry, baseline, crashes>>

\* The support state that the state-only phase writes.
KnownSupport(old, new) == IF old = NoSupport \/ new = NoSupport THEN old ELSE new

(* _state_only_alerts: the states compared on the last observation; the    *)
(* checkpoint is written only when one of them differs.                    *)
StateOnly(e) ==
    LET v == eval[e]
        fresh == Freshness(v.at, v.now)
        sup == KnownSupport(v.sup, v.support) IN
    /\ v.pc = "transitions" /\ v.at = v.seen
    /\ IF fresh = v.fresh /\ sup = v.sup
       THEN UNCHANGED <<checkpoint, alerts>>
       ELSE CommitState(FreshnessAlerts(v.at, v.at, v.fresh, fresh)
                          \union SupportAlerts(v.at, v.at, v.sup, v.support),
                        v.at, fresh, sup, v.stamp)
    /\ eval' = [eval EXCEPT ![e] = Resting]
    /\ UNCHANGED <<world, entry, baseline, crashes>>

(* The evaluator's process dies, or a store refuses it.                    *)
Crash(e) ==
    /\ eval[e].pc # "idle" /\ crashes < MaxCrashes
    /\ crashes' = crashes + 1
    /\ eval' = [eval EXCEPT ![e] = Resting]
    /\ UNCHANGED <<world, entry, store>>

----------------------------------------------------------------------------
MoreToCome == Len(history) + clock + changes + stamps < MaxEvents

(* A collector appends an observation made now.                            *)
Observe(value, evidence) ==
    /\ MoreToCome
    /\ history' = Append(history, [value |-> value, at |-> clock,
                                   evidence |-> evidence])
    /\ UNCHANGED <<support, changes, clock, entry, store, eval, crashes>>

(* The registry changes, or loses the opportunity.                         *)
ChangeSupport(s) ==
    /\ MoreToCome /\ s # support
    /\ support' = s
    /\ changes' = changes + 1
    /\ UNCHANGED <<history, clock, entry, store, eval, crashes>>

Tick ==
    /\ MoreToCome
    /\ clock' = clock + 1
    /\ UNCHANGED <<history, support, changes, entry, store, eval, crashes>>

(* save_watchlist_item: saving a saved item changes nothing.               *)
Watch ==
    /\ watch = 0 /\ MoreToCome
    /\ stamps' = stamps + 1
    /\ watch' = stamps + 1
    /\ born' = [born EXCEPT ![stamps + 1] = Len(history)]
    /\ UNCHANGED <<world, store, eval, crashes>>

(* remove_watchlist_item: the alerts and the checkpoint stay.              *)
Unwatch ==
    /\ watch # 0
    /\ watch' = 0
    /\ UNCHANGED <<world, store, stamps, born, eval, crashes>>

----------------------------------------------------------------------------
Evaluate(e) ==
    \/ List(e) \/ ReadHistory(e) \/ ReadCheckpoint(e)
    \/ Baseline(e) \/ Transition(e) \/ StateOnly(e)

Environment ==
    \/ \E value \in Values, evidence \in Evidence : Observe(value, evidence)
    \/ \E s \in SupportStates : ChangeSupport(s)
    \/ Tick \/ Watch \/ Unwatch

Next ==
    \/ \E e \in Evaluators : Evaluate(e) \/ Crash(e)
    \/ Environment

Spec == Init /\ [][Next]_vars

\* The batch runner is started again and again by its timer, and an
\* evaluation that started goes on unless it dies.
FairSpec == Spec /\ \A e \in Evaluators : WF_vars(Evaluate(e))

----------------------------------------------------------------------------
(* Types of all variables.                                                 *)
TypeOK ==
    /\ history \in Seq(Observation) /\ Len(history) <= MaxEvents
    /\ support \in SupportStates /\ changes \in 0..MaxEvents
    /\ clock \in Times
    /\ stamps \in Stamps /\ watch \in {0, stamps}
    /\ born \in [Stamps -> Hashes]
    /\ checkpoint \in Checkpoint
    /\ alerts \subseteq Alerts
    /\ baseline \in Hashes
    /\ eval \in [Evaluators -> Evaluator]
    /\ crashes \in 0..MaxCrashes

\* Every change of a tracked field from observation lo to hi has its alert.
AlertedBetween(lo, hi) ==
    \A j \in lo + 1 .. hi : ValueAlerts(j - 1, j) \subseteq alerts

(* The checkpoint can never advance past unpersisted alerts: whatever      *)
(* evaluators overlapped or died, every change of a tracked field between  *)
(* the furthest baseline and the checkpoint has its alert.  A checkpoint   *)
(* that a slower evaluator moved back is no exception.                     *)
NeverPastAlerts == AlertedBetween(baseline, checkpoint.hash)

(* An evaluator that listed one watch lifecycle never alerts about an      *)
(* observation appended before that lifecycle began, whatever checkpoint   *)
(* of an earlier lifecycle another evaluator leaves: the unwatched period  *)
(* is never replayed.                                                      *)
UnwatchedNotReplayed ==
    [][\A a \in alerts' \ alerts : a.cur >= born[checkpoint'.stamp]
          /\ (a.type = "ECONOMIC" => a.cur > born[checkpoint'.stamp])]_vars

\* A commit of the same lifecycle moves the checkpoint between two known
\* support states.
SupportMoves ==
    /\ checkpoint'.stamp = checkpoint.stamp
    /\ NoSupport \notin {checkpoint.support, checkpoint'.support}
    /\ checkpoint'.support # checkpoint.support

\* The copy of the checkpoint that e works from is still the stored one.
CopyIsCurrent(e) ==
    /\ eval[e].pc = "transitions"
    /\ checkpoint = [hash |-> eval[e].at, fresh |-> eval[e].fresh,
                     support |-> eval[e].sup, stamp |-> eval[e].stamp]

(* An evaluator whose copy of the checkpoint is current records a new      *)
(* support state, or evidence gone from current to degraded, only together *)
(* with an alert that says so, through either of the two paths that        *)
(* compare: the one with a new observation and the one without.            *)
StateChangesAlerted ==
    [][\A e \in Evaluators : CopyIsCurrent(e) /\ eval'[e] # eval[e] =>
        /\ SupportMoves =>
             \E a \in alerts' : /\ a.type = "SUPPORT_STATE_CHANGED"
                                /\ a.cur = checkpoint'.hash
                                /\ a.from = checkpoint.support
                                /\ a.to = checkpoint'.support
        /\ checkpoint.fresh = "CURRENT" /\ checkpoint'.fresh \in Degraded =>
             \E a \in alerts' : /\ a.type = "FRESHNESS_DEGRADED"
                                /\ a.cur = checkpoint'.hash
                                /\ a.to = checkpoint'.fresh]_vars

(* Once the world leaves the opportunity alone, a watched opportunity's    *)
(* checkpoint reaches the latest observation under the current lifecycle,  *)
(* and stays there: overlapping evaluators do not throw each other back    *)
(* for ever.                                                               *)
CaughtUp ==
    <>[](\/ watch = 0
         \/ history = <<>>
         \/ checkpoint.hash = Len(history) /\ checkpoint.stamp = watch)
=============================================================================
