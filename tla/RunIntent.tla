----------------------------- MODULE RunIntent -----------------------------
(***************************************************************************)
(* The durable run intent ledger (app/persistence/run_intent_repository.py)*)
(* and the request protocol that the service layer runs over it            *)
(* (app/services/run_intent_service.py).                                   *)
(*                                                                         *)
(* The table model_run_intents has one row per key; every write is one     *)
(* BEGIN IMMEDIATE transaction, so each write is one action.  A request    *)
(* reads the ledger, the clock and the ledger again in separate            *)
(* transactions, so a request is several actions, and between any two of   *)
(* them other requests run, the clock moves and the server may die.        *)
(*                                                                         *)
(* A Reservation object is the row as it was when it was decoded: the      *)
(* request keeps that copy in its "row" field and the owner fence compares *)
(* the copy with the stored row.                                           *)
(***************************************************************************)
EXTENDS Naturals, Sequences

CONSTANTS
    Requests,       \* the server-side request tasks
    Keys,           \* (actor_id, project_id, run_intent_id) triples
    Bindings,       \* submitted (workbook_version, content_hash) pairs
    Fingerprints,   \* digests of the effective inputs of an attempt
    Results,        \* what a calculation may produce
    LeaseMs,        \* length of a lease in clock units
    MaxGeneration,  \* the generation at which recovery is refused
    MaxTime,        \* bound: the clock stops here
    MaxClockSteps,  \* bound: how often the wall clock may be set back
    RecoveryWired   \* whether an operator may call recover()

ASSUME LedgerAssumption ==
    /\ LeaseMs \in Nat \ {0}
    /\ MaxGeneration \in Nat \ {0}
    /\ MaxTime \in Nat
    /\ MaxClockSteps \in Nat
    /\ RecoveryWired \in BOOLEAN
    /\ Bindings # {} /\ Fingerprints # {} /\ Keys # {}

VARIABLES
    ledger,     \* model_run_intents: key -> row
    history,    \* model_run_history: the append-only run history
    now,        \* julianday('now') of the shared database
    setbacks,   \* how often the clock was set back so far
    nonces,     \* how many owner nonces (uuid4) were issued so far
    req         \* what each request task is doing

vars == <<ledger, history, now, setbacks, nonces, req>>

----------------------------------------------------------------------------
(* The data.                                                               *)

States == {"ABSENT", "RESERVED", "RUNNING", "FAILED", "COMMITTED"}
Active == {"RESERVED", "RUNNING"}
Terminal == {"FAILED", "COMMITTED"}

\* history = 0 stands for the NULL history_id; ABSENT for "no such row".
Row == [state : States, binding : Bindings, fingerprint : Fingerprints,
        generation : Nat, nonce : Nat, leaseUntil : Nat, history : Nat]

NoRow == [state |-> "ABSENT",
          binding |-> CHOOSE b \in Bindings : TRUE,
          fingerprint |-> CHOOSE f \in Fingerprints : TRUE,
          generation |-> 0, nonce |-> 0, leaseUntil |-> 0, history |-> 0]

HistoryEntry == [key : Keys, binding : Bindings, result : Results]

Pcs == {"done", "decide", "new", "claimed", "running", "readback"}

\* The typed outcomes of run_intent_service (NONE: no request made yet).
\* INVALID, REFUSED and HISTORY_UNAVAILABLE need no ledger state.
Kinds == {"NONE", "COMMITTED", "REPLAYED", "IN_PROGRESS", "FAILED",
          "CONFLICT", "EXPIRED", "UNAVAILABLE"}

\* row is the decoded copy, reply the outcome sent and the history id in it.
Request == [pc : Pcs, key : Keys, binding : Bindings, row : Row,
            reply : Kinds, replyHistory : Nat]

Idle == [pc |-> "done", key |-> CHOOSE k \in Keys : TRUE,
         binding |-> NoRow.binding, row |-> NoRow,
         reply |-> "NONE", replyHistory |-> 0]

----------------------------------------------------------------------------
(* Table-level helpers.                                                    *)

\* The trigger model_run_intents_identity_immutable lets this update pass.
TriggerAllows(old, new) ==
    /\ new.binding = old.binding
    /\ new.fingerprint = old.fingerprint
    /\ old.state \notin Terminal
    /\ \/ new.generation = old.generation /\ new.nonce = old.nonce
       \/ /\ new.generation = old.generation + 1
          /\ new.state = "RESERVED"
          /\ new.nonce # old.nonce

Update(k, new) ==
    /\ TriggerAllows(ledger[k], new)
    /\ ledger' = [ledger EXCEPT ![k] = new]

\* A faulty fence: it compares the inputs but neither generation nor nonce.
OwnsByInputs(k, r, states) ==
    /\ ledger[k].fingerprint = r.fingerprint
    /\ ledger[k].state \in states
    /\ ledger[k].leaseUntil > now

\* A faulty fence: it forgets the lease.
OwnsForEver(k, r, states) ==
    /\ ledger[k].generation = r.generation
    /\ ledger[k].nonce = r.nonce
    /\ ledger[k].fingerprint = r.fingerprint
    /\ ledger[k].state \in states

\* require_owner_cursor: the copy r still owns the key's row.
Owns(k, r, states) ==
    /\ ledger[k].generation = r.generation
    /\ ledger[k].nonce = r.nonce
    /\ ledger[k].fingerprint = r.fingerprint
    /\ ledger[k].state \in states
    /\ ledger[k].leaseUntil > now

\* Answer the client and forget the reservation.
Reply(q, kind, h) ==
    req' = [req EXCEPT ![q] = [@ EXCEPT !.pc = "done", !.row = NoRow,
                                        !.reply = kind, !.replyHistory = h]]

Goto(q, pc, row) ==
    req' = [req EXCEPT ![q] = [@ EXCEPT !.pc = pc, !.row = row]]

\* A faulty lease: no reader will ever see its end.
NoLeaseEnd == MaxTime + 1

\* julianday('now') + lease: the lease of a claim made now.
LeaseEnd == now + LeaseMs

\* The row that a request's INSERT writes.
FirstClaim(q, f) ==
    [state |-> "RESERVED", binding |-> req[q].binding, fingerprint |-> f,
     generation |-> 1, nonce |-> nonces + 1, leaseUntil |-> LeaseEnd,
     history |-> 0]

----------------------------------------------------------------------------
Init ==
    /\ ledger = [k \in Keys |-> NoRow]
    /\ history = <<>>
    /\ now = 0
    /\ setbacks = 0
    /\ nonces = 0
    /\ req = [q \in Requests |-> Idle]

(* decide(): look the key up under the binding the client submitted.       *)
Lookup(q, k, b) ==
    /\ req[q].pc = "done"
    /\ \/ /\ ledger[k].state # "ABSENT"
          /\ ledger[k].binding # b
          /\ req' = [req EXCEPT ![q] =
                [Idle EXCEPT !.key = k, !.binding = b, !.reply = "CONFLICT"]]
       \/ /\ ledger[k].state = "ABSENT" \/ ledger[k].binding = b
          /\ req' = [req EXCEPT ![q] =
                [Idle EXCEPT !.key = k, !.binding = b, !.row = ledger[k],
                             !.pc = IF ledger[k].state = "ABSENT"
                                    THEN "new" ELSE "decide"]]
    /\ UNCHANGED <<ledger, history, now, setbacks, nonces>>

(* _decide_existing(): classify the copy read before; an active row is     *)
(* judged by the clock as it is by now.                                    *)
DecisionKind(row) ==
    IF row.state = "COMMITTED" THEN "REPLAYED"
    ELSE IF row.state = "FAILED" THEN "FAILED"
    ELSE IF row.leaseUntil <= now THEN "EXPIRED" ELSE "IN_PROGRESS"

DecideExisting(q) ==
    /\ req[q].pc = "decide"
    /\ Reply(q, DecisionKind(req[q].row), req[q].row.history)
    /\ UNCHANGED <<ledger, history, now, setbacks, nonces>>

(* Faulty: INSERT OR REPLACE.                                              *)
ReserveAnew(q, f) ==
    /\ req[q].pc = "new"
    /\ now + LeaseMs <= MaxTime
    /\ ledger' = [ledger EXCEPT ![req[q].key] = FirstClaim(q, f)]
    /\ nonces' = nonces + 1
    /\ Goto(q, "claimed", FirstClaim(q, f))
    /\ UNCHANGED <<history, now, setbacks>>

(* reserve(): INSERT ... ON CONFLICT DO NOTHING, then read the row back.   *)
Reserve(q, f) ==
    LET k == req[q].key
        claim == FirstClaim(q, f)
    IN  /\ req[q].pc = "new"
        /\ \/ /\ ledger[k].state = "ABSENT"
              /\ now + LeaseMs <= MaxTime
              /\ ledger' = [ledger EXCEPT ![k] = claim]
              /\ nonces' = nonces + 1
              /\ Goto(q, "claimed", claim)
           \/ /\ ledger[k].state # "ABSENT"
              /\ ledger[k].binding # req[q].binding \/ ledger[k].fingerprint # f
              /\ Reply(q, "CONFLICT", 0)
              /\ UNCHANGED <<ledger, nonces>>
           \/ /\ ledger[k].state # "ABSENT"
              /\ ledger[k].binding = req[q].binding
              /\ ledger[k].fingerprint = f
              /\ Goto(q, "decide", ledger[k])
              /\ UNCHANGED <<ledger, nonces>>
        /\ UNCHANGED <<history, now, setbacks>>

(* start(): the claim becomes RUNNING; the lease is not extended.          *)
Start(q) ==
    LET k == req[q].key
        started == [ledger[k] EXCEPT !.state = "RUNNING"]
    IN  /\ req[q].pc = "claimed"
        /\ \/ /\ Owns(k, req[q].row, Active)
              /\ ledger[k].state = "RESERVED"
              /\ Update(k, started)
              /\ Goto(q, "running", started)
           \/ /\ ~(Owns(k, req[q].row, Active) /\ ledger[k].state = "RESERVED")
              /\ Reply(q, "UNAVAILABLE", 0)
              /\ UNCHANGED ledger
        /\ UNCHANGED <<history, now, setbacks, nonces>>

(* mark_failed(): record FAILED if the request still owns the key; a lost  *)
(* ownership is swallowed.  The client is told FAILED either way.          *)
FailAttempt(q) ==
    LET k == req[q].key
    IN  /\ req[q].pc = "running"
        /\ \/ /\ Owns(k, req[q].row, Active)
              /\ Update(k, [ledger[k] EXCEPT !.state = "FAILED"])
           \/ /\ ~Owns(k, req[q].row, Active)
              /\ UNCHANGED ledger
        /\ Reply(q, "FAILED", 0)
        /\ UNCHANGED <<history, now, setbacks, nonces>>

(* The commit transaction: append the history entry, bind it to the key,   *)
(* COMMIT.  A refusal of the owner fence or of finalize_cursor rolls the   *)
(* whole transaction back; the request then goes on to mark_failed.        *)
\* Faulty: an entry made from other inputs than the client's is bound.
BindsAnyEntry(q, entry) ==
    /\ Owns(req[q].key, req[q].row, {"RUNNING"})
    /\ entry.key = req[q].key

MayFinalize(q, entry) ==
    LET k == req[q].key
    IN  /\ Owns(k, req[q].row, {"RUNNING"})
        /\ entry.key = k
        /\ entry.binding = ledger[k].binding

Commit(q, entry) ==
    LET k == req[q].key
    IN  /\ req[q].pc = "running"
        /\ MayFinalize(q, entry)
        /\ history' = Append(history, entry)
        /\ Update(k, [ledger[k] EXCEPT !.state = "COMMITTED",
                                       !.history = Len(history) + 1])
        /\ Goto(q, "readback", NoRow)
        /\ UNCHANGED <<now, setbacks, nonces>>

(* committed_decision(): read the bound history id back and answer.        *)
ReadBack(q) ==
    LET row == ledger[req[q].key]
    IN  /\ req[q].pc = "readback"
        /\ IF row.state = "COMMITTED"
           THEN Reply(q, "COMMITTED", row.history)
           ELSE Reply(q, "UNAVAILABLE", 0)
        /\ UNCHANGED <<ledger, history, now, setbacks, nonces>>

(* recover(): an explicit takeover of an expired claim.  Nothing under     *)
(* app/ calls it yet; RecoveryWired says whether an operator does.         *)
Recover(q, k, b, f) ==
    LET taken == [ledger[k] EXCEPT !.state = "RESERVED",
                    !.generation = @ + 1, !.nonce = nonces + 1,
                    !.leaseUntil = LeaseEnd]
    IN  /\ RecoveryWired
        /\ req[q].pc = "done"
        /\ ledger[k].state \in Active
        /\ ledger[k].binding = b
        /\ ledger[k].fingerprint = f
        /\ ledger[k].leaseUntil <= now
        /\ ledger[k].generation < MaxGeneration
        /\ now + LeaseMs <= MaxTime
        /\ Update(k, taken)
        /\ nonces' = nonces + 1
        /\ req' = [req EXCEPT ![q] = [Idle EXCEPT !.pc = "claimed",
                        !.key = k, !.binding = b, !.row = taken]]
        /\ UNCHANGED <<history, now, setbacks>>

(* The task dies: the process is killed, or the request is cancelled and   *)
(* CancelledError passes every "except Exception" of the route.  Nothing   *)
(* is written; the client gets no answer.                                  *)
Crash(q) ==
    /\ req[q].pc # "done"
    /\ req' = [req EXCEPT ![q] = Idle]
    /\ UNCHANGED <<ledger, history, now, setbacks, nonces>>

Tick ==
    /\ now < MaxTime
    /\ now' = now + 1
    /\ UNCHANGED <<ledger, history, setbacks, nonces, req>>

\* julianday('now') is wall time: an adjustment may set it back.
SetClockBack ==
    /\ setbacks < MaxClockSteps
    /\ now > 0
    /\ now' = now - 1
    /\ setbacks' = setbacks + 1
    /\ UNCHANGED <<ledger, history, nonces, req>>

Next ==
    \/ \E q \in Requests, k \in Keys, b \in Bindings : Lookup(q, k, b)
    \/ \E q \in Requests : DecideExisting(q)
    \/ \E q \in Requests, f \in Fingerprints : Reserve(q, f)
    \/ \E q \in Requests : Start(q)
    \/ \E q \in Requests : FailAttempt(q)
    \/ \E q \in Requests, entry \in HistoryEntry : Commit(q, entry)
    \/ \E q \in Requests : ReadBack(q)
    \/ \E q \in Requests, k \in Keys, b \in Bindings, f \in Fingerprints :
            Recover(q, k, b, f)
    \/ \E q \in Requests : Crash(q)
    \/ Tick
    \/ SetClockBack

Spec == Init /\ [][Next]_vars

\* Time passes, whatever the requests do.
FairSpec == Spec /\ WF_vars(Tick)

----------------------------------------------------------------------------
(* Properties.                                                             *)

TypeOK ==
    /\ ledger \in [Keys -> Row]
    /\ history \in Seq(HistoryEntry)
    /\ now \in Nat
    /\ setbacks \in Nat
    /\ nonces \in Nat
    /\ req \in [Requests -> Request]

\* The requests that hold a reservation.
Holding(q) == req[q].pc \in {"claimed", "running"}

\* Of all the requests that believe they own a key (the first claimant, the
\* ones that took it over, the ones whose lease ran out without their
\* noticing) at most one can pass the owner fence of require_owner_cursor.
SingleOwner ==
    \A p, q \in Requests :
        /\ Holding(p) /\ Holding(q) /\ req[p].key = req[q].key
        /\ Owns(req[p].key, req[p].row, Active)
        /\ Owns(req[q].key, req[q].row, Active)
        => p = q

\* The ledger and the run history agree: a COMMITTED key names exactly one
\* history entry, made for that key from the inputs the client submitted, and
\* no history entry exists that no COMMITTED key names (finalize_cursor runs
\* in the transaction that appends the entry).
HistoryMatchesLedger ==
    /\ \A k \in Keys :
        ledger[k].state = "COMMITTED" =>
            /\ ledger[k].history \in 1..Len(history)
            /\ history[ledger[k].history].key = k
            /\ history[ledger[k].history].binding = ledger[k].binding
    /\ \A i \in 1..Len(history) :
            /\ ledger[history[i].key].state = "COMMITTED"
            /\ ledger[history[i].key].history = i

\* A client that is told COMMITTED or REPLAYED is given the history entry its
\* key is bound to, computed from the binding that very client submitted.
AnswersAreOriginal ==
    \A q \in Requests :
        req[q].reply \in {"COMMITTED", "REPLAYED"} =>
            /\ ledger[req[q].key].state = "COMMITTED"
            /\ req[q].replyHistory = ledger[req[q].key].history
            /\ req[q].replyHistory \in 1..Len(history)
            /\ history[req[q].replyHistory].binding = req[q].binding

\* Fencing: an outcome is recorded for a key only by a request that holds
\* the row's present generation and nonce, within its lease; a request whose
\* claim was taken over changes nothing ("the old owner can never finalize
\* generation+1").
FencedOutcome ==
    [][\A k \in Keys :
         ledger'[k].state \in Terminal /\ ledger[k].state \notin Terminal =>
            \E q \in Requests :
                /\ Holding(q) /\ req[q].key = k
                /\ req'[q].pc # req[q].pc
                /\ req[q].row.generation = ledger[k].generation
                /\ req[q].row.nonce = ledger[k].nonce
                /\ now < ledger[k].leaseUntil]_vars

\* A key is never left looking busy for ever: whatever died holding it, it
\* becomes terminal or its lease runs out, after which lookups say EXPIRED.
EventuallySettled ==
    \A k \in Keys :
        ledger[k].state \in Active ~>
            (ledger[k].state \notin Active \/ ledger[k].leaseUntil <= now)

\* What a row says of its key, whoever owns it and for how long.
OutcomeOf(row) ==
    IF row.state = "ABSENT" THEN "NONE"
    ELSE IF row.state \in Active THEN "OPEN" ELSE row.state

\* The ledger, its leases and its takeovers implement one immutable outcome
\* per key, each bound to a history record of its own.
Once == INSTANCE RunOnce WITH
    Unbound <- 0,
    outcome <- [k \in Keys |-> OutcomeOf(ledger[k])],
    bound <- [k \in Keys |-> ledger[k].history]

ImplementsRunOnce == Once!Spec
=============================================================================
