------------------------------ MODULE RunOnce ------------------------------
(***************************************************************************)
(* What the run intent ledger promises to the clients of a Run, without    *)
(* leases, generations or owners: a key is used for one calculation        *)
(* attempt after the other until one outcome, FAILED or COMMITTED, is      *)
(* recorded, and from then on the outcome and the history record it names  *)
(* never change (app/persistence/run_intent_repository.py, module          *)
(* docstring and fence triggers).                                          *)
(***************************************************************************)
EXTENDS Naturals

CONSTANTS Keys,      \* the (actor, project, run_intent_id) triples
          Unbound    \* "no history record": the NULL history_id

VARIABLES outcome,   \* what is recorded for each key
          bound      \* the history record each key is bound to

vars == <<outcome, bound>>

Outcomes == {"NONE", "OPEN", "FAILED", "COMMITTED"}

Init ==
    /\ outcome = [k \in Keys |-> "NONE"]
    /\ bound = [k \in Keys |-> Unbound]

\* The key is claimed for its first attempt.
Open(k) ==
    /\ outcome[k] = "NONE"
    /\ outcome' = [outcome EXCEPT ![k] = "OPEN"]
    /\ UNCHANGED bound

Fail(k) ==
    /\ outcome[k] = "OPEN"
    /\ outcome' = [outcome EXCEPT ![k] = "FAILED"]
    /\ UNCHANGED bound

\* The key is bound to a history record no other key is bound to.
Commit(k) ==
    /\ outcome[k] = "OPEN"
    /\ outcome' = [outcome EXCEPT ![k] = "COMMITTED"]
    /\ bound'[k] \in Nat \ {Unbound}
    /\ \A other \in Keys : bound[other] # bound'[k]
    /\ bound' = [bound EXCEPT ![k] = bound'[k]]

Next ==
    \E k \in Keys :
        \/ Open(k)
        \/ Fail(k)
        \/ Commit(k)

Spec == Init /\ [][Next]_vars
=============================================================================
