-------------------------- MODULE RunIntentProofs --------------------------
(***************************************************************************)
(* Machine-checked theorems about the run intent ledger, for every number  *)
(* of requests, keys, bindings and generations and every clock.            *)
(***************************************************************************)
EXTENDS RunIntent, TLAPS

\* The empty row and the idle request are well-typed.
LEMMA NoRowType == NoRow \in Row /\ Idle \in Request
<1>1. NoRow.binding \in Bindings /\ NoRow.fingerprint \in Fingerprints
  BY LedgerAssumption DEF NoRow
<1>2. NoRow \in Row
  BY <1>1 DEF NoRow, Row, States
<1>3. (CHOOSE k \in Keys : TRUE) \in Keys
  BY LedgerAssumption
<1>4. QED
  BY <1>1, <1>2, <1>3 DEF Idle, Request, Pcs, Kinds

\* A request that answers or moves on stays a well-typed request.
LEMMA ReplyType ==
    ASSUME TypeOK, NEW q \in Requests, NEW kind \in Kinds, NEW h \in Nat,
           Reply(q, kind, h)
    PROVE  req' \in [Requests -> Request]
<1>1. [req[q] EXCEPT !.pc = "done", !.row = NoRow,
                     !.reply = kind, !.replyHistory = h] \in Request
  BY NoRowType DEF TypeOK, Request, Pcs
<1>2. QED
  BY <1>1 DEF TypeOK, Reply

\* A move of q keeps the types.
LEMMA GotoType ==
    ASSUME TypeOK, NEW q \in Requests, NEW pc \in Pcs, NEW row \in Row,
           Goto(q, pc, row)
    PROVE  req' \in [Requests -> Request]
<1>1. [req[q] EXCEPT !.pc = pc, !.row = row] \in Request
  BY DEF TypeOK, Request
<1>2. QED
  BY <1>1 DEF TypeOK, Goto

\* What an answer, a move and an update change, and what they leave alone.
LEMMA ReplyEffect ==
    ASSUME TypeOK, NEW q \in Requests, NEW kind, NEW h, Reply(q, kind, h)
    PROVE  /\ req'[q].pc = "done" /\ req'[q].row = NoRow
           /\ req'[q].reply = kind /\ req'[q].replyHistory = h
           /\ req'[q].key = req[q].key /\ req'[q].binding = req[q].binding
           /\ \A p \in Requests : p # q => req'[p] = req[p]
<1>1. req[q] \in Request
  BY DEF TypeOK
<1>2. req'[q] = [req[q] EXCEPT !.pc = "done", !.row = NoRow,
                               !.reply = kind, !.replyHistory = h]
      /\ \A p \in Requests : p # q => req'[p] = req[p]
  BY DEF Reply, TypeOK
<1>3. QED
  BY <1>1, <1>2 DEF Request

\* A move of q changes no other request, nor what q was asked and told.
LEMMA GotoEffect ==
    ASSUME TypeOK, NEW q \in Requests, NEW pc, NEW row, Goto(q, pc, row)
    PROVE  /\ req'[q].pc = pc /\ req'[q].row = row
           /\ req'[q].reply = req[q].reply
           /\ req'[q].replyHistory = req[q].replyHistory
           /\ req'[q].key = req[q].key /\ req'[q].binding = req[q].binding
           /\ \A p \in Requests : p # q => req'[p] = req[p]
<1>1. req[q] \in Request
  BY DEF TypeOK
<1>2. req'[q] = [req[q] EXCEPT !.pc = pc, !.row = row]
      /\ \A p \in Requests : p # q => req'[p] = req[p]
  BY DEF Goto, TypeOK
<1>3. QED
  BY <1>1, <1>2 DEF Request

\* Writing the row of k leaves every other row alone.
LEMMA UpdateEffect ==
    ASSUME TypeOK, NEW k \in Keys, NEW new, Update(k, new)
    PROVE  /\ ledger'[k] = new
           /\ \A j \in Keys : j # k => ledger'[j] = ledger[j]
BY DEF TypeOK, Update

(***************************************************************************)
(* Type correctness, one step per action.                                  *)
(***************************************************************************)
LEMMA TypeStep == TypeOK /\ [Next]_vars => TypeOK'
<1> SUFFICES ASSUME TypeOK, [Next]_vars PROVE TypeOK'
  OBVIOUS
<1> USE LedgerAssumption, NoRowType
<1>1. ASSUME NEW q \in Requests, NEW k \in Keys, NEW b \in Bindings,
             Lookup(q, k, b)
      PROVE  TypeOK'
  <2>1. ledger[k] \in Row
    BY DEF TypeOK
  <2>2. [Idle EXCEPT !.key = k, !.binding = b, !.reply = "CONFLICT"] \in Request
    BY DEF Request, Kinds
  <2>3. \A pc \in Pcs : [Idle EXCEPT !.key = k, !.binding = b,
                           !.row = ledger[k], !.pc = pc] \in Request
    BY <2>1 DEF Request
  <2>4. (IF ledger[k].state = "ABSENT" THEN "new" ELSE "decide") \in Pcs
    BY DEF Pcs
  <2>5. req' \in [Requests -> Request]
    BY <1>1, <2>2, <2>3, <2>4 DEF Lookup, TypeOK
  <2>6. QED
    BY <1>1, <2>5 DEF Lookup, TypeOK
<1>2. ASSUME NEW q \in Requests, DecideExisting(q) PROVE TypeOK'
  <2>1. req[q].row \in Row
    BY DEF TypeOK, Request
  <2>2. DecisionKind(req[q].row) \in Kinds /\ req[q].row.history \in Nat
    BY <2>1 DEF DecisionKind, Kinds, Row
  <2>3. req' \in [Requests -> Request]
    BY <1>2, <2>2, ReplyType DEF DecideExisting
  <2>4. QED
    BY <1>2, <2>3 DEF DecideExisting, TypeOK
<1>3. ASSUME NEW q \in Requests, NEW f \in Fingerprints, Reserve(q, f)
      PROVE  TypeOK'
  <2> DEFINE k == req[q].key
             claim == FirstClaim(q, f)
  <2>1. k \in Keys /\ ledger[k] \in Row
    BY DEF TypeOK, Request
  <2>2. claim \in Row
    BY DEF TypeOK, Request, Row, States, FirstClaim, LeaseEnd
  <2>3. ledger' \in [Keys -> Row] /\ nonces' \in Nat
    <3> HIDE DEF claim
    <3>1. CASE ledger' = [ledger EXCEPT ![k] = claim] /\ nonces' = nonces + 1
      BY <3>1, <2>1, <2>2 DEF TypeOK
    <3>2. CASE UNCHANGED <<ledger, nonces>>
      BY <3>2 DEF TypeOK
    <3> QED
      BY <1>3, <3>1, <3>2 DEF Reserve, claim
  <2>4. req' \in [Requests -> Request]
    <3> HIDE DEF claim
    <3>1. CASE Goto(q, "claimed", claim)
      BY <3>1, <2>2, GotoType DEF Pcs
    <3>2. CASE Reply(q, "CONFLICT", 0)
      BY <3>2, ReplyType DEF Kinds
    <3>3. CASE Goto(q, "decide", ledger[k])
      BY <3>3, <2>1, GotoType DEF Pcs
    <3> QED
      BY <1>3, <3>1, <3>2, <3>3 DEF Reserve, claim
  <2>5. QED
    BY <1>3, <2>3, <2>4 DEF Reserve, TypeOK
<1>4. ASSUME NEW q \in Requests, Start(q) PROVE TypeOK'
  <2> DEFINE k == req[q].key
             started == [ledger[k] EXCEPT !.state = "RUNNING"]
  <2>1. k \in Keys /\ started \in Row
    BY DEF TypeOK, Request, Row, States
  <2>2. ledger' \in [Keys -> Row]
    BY <1>4, <2>1 DEF Start, Update, TypeOK
  <2>3. req' \in [Requests -> Request]
    <3> HIDE DEF started
    <3>1. CASE Goto(q, "running", started)
      BY <3>1, <2>1, GotoType DEF Pcs
    <3>2. CASE Reply(q, "UNAVAILABLE", 0)
      BY <3>2, ReplyType DEF Kinds
    <3> QED
      BY <1>4, <3>1, <3>2 DEF Start, started
  <2>4. QED
    BY <1>4, <2>2, <2>3 DEF Start, TypeOK
<1>5. ASSUME NEW q \in Requests, FailAttempt(q) PROVE TypeOK'
  <2>1. req[q].key \in Keys
        /\ [ledger[req[q].key] EXCEPT !.state = "FAILED"] \in Row
    BY DEF TypeOK, Request, Row, States
  <2>2. ledger' \in [Keys -> Row]
    BY <1>5, <2>1 DEF FailAttempt, Update, TypeOK
  <2>3. req' \in [Requests -> Request]
    BY <1>5, ReplyType DEF FailAttempt, Kinds
  <2>4. QED
    BY <1>5, <2>2, <2>3 DEF FailAttempt, TypeOK
<1>6. ASSUME NEW q \in Requests, NEW entry \in HistoryEntry, Commit(q, entry)
      PROVE  TypeOK'
  <2>1. Len(history) + 1 \in Nat /\ history' \in Seq(HistoryEntry)
    BY <1>6 DEF Commit, TypeOK
  <2>2. req[q].key \in Keys
        /\ [ledger[req[q].key] EXCEPT !.state = "COMMITTED",
                                      !.history = Len(history) + 1] \in Row
    BY <2>1 DEF TypeOK, Request, Row, States
  <2>3. ledger' \in [Keys -> Row]
    BY <1>6, <2>2 DEF Commit, Update, TypeOK
  <2>4. req' \in [Requests -> Request]
    BY <1>6, NoRowType, GotoType DEF Commit, Pcs
  <2>5. QED
    BY <1>6, <2>1, <2>3, <2>4 DEF Commit, TypeOK
<1>7. ASSUME NEW q \in Requests, ReadBack(q) PROVE TypeOK'
  <2>1. ledger[req[q].key].history \in Nat
    BY DEF TypeOK, Request, Row
  <2>2. req' \in [Requests -> Request]
    BY <1>7, <2>1, ReplyType DEF ReadBack, Kinds
  <2>3. QED
    BY <1>7, <2>2 DEF ReadBack, TypeOK
<1>8. ASSUME NEW q \in Requests, NEW k \in Keys, NEW b \in Bindings,
             NEW f \in Fingerprints, Recover(q, k, b, f)
      PROVE  TypeOK'
  <2> DEFINE taken == [ledger[k] EXCEPT !.state = "RESERVED",
                         !.generation = @ + 1, !.nonce = nonces + 1,
                         !.leaseUntil = LeaseEnd]
  <2>1. taken \in Row /\ nonces + 1 \in Nat
    <3>1. ledger[k] \in Row /\ nonces + 1 \in Nat /\ LeaseEnd \in Nat
      BY DEF TypeOK, LeaseEnd
    <3>2. ledger[k].generation + 1 \in Nat
      BY <3>1 DEF Row
    <3>3. QED
      BY <3>1, <3>2 DEF Row, States
  <2>2. ledger' \in [Keys -> Row]
    BY <1>8, <2>1 DEF Recover, Update, TypeOK
  <2>3. [Idle EXCEPT !.pc = "claimed", !.key = k, !.binding = b,
                     !.row = taken] \in Request
    BY <2>1 DEF Request, Pcs
  <2>4. req' \in [Requests -> Request]
    BY <1>8, <2>3 DEF Recover, TypeOK
  <2>5. QED
    BY <1>8, <2>1, <2>2, <2>4 DEF Recover, TypeOK
<1>9. ASSUME NEW q \in Requests, Crash(q) PROVE TypeOK'
  BY <1>9 DEF Crash, TypeOK
<1>10. CASE Tick
  BY <1>10 DEF Tick, TypeOK
<1>11. CASE SetClockBack
  BY <1>11 DEF SetClockBack, TypeOK
<1>12. CASE UNCHANGED vars
  BY <1>12 DEF vars, TypeOK
<1>13. QED
  BY <1>1, <1>2, <1>3, <1>4, <1>5, <1>6, <1>7, <1>8, <1>9, <1>10, <1>11,
     <1>12 DEF Next

\* Every reachable state of the ledger is well-typed: no step leaves a row,
\* a reservation copy or a reply outside the values the code can store.
THEOREM TypeCorrect == Spec => []TypeOK
<1>1. Init => TypeOK
  BY NoRowType DEF Init, TypeOK
<1>2. QED
  BY <1>1, TypeStep, PTL DEF Spec

(***************************************************************************)
(* What a step may do to a row: a terminal row never changes again, and a  *)
(* row never disappears nor changes the binding it was inserted with.      *)
(***************************************************************************)
RowsOnlyAdvance ==
    \A k \in Keys :
        /\ ledger[k].state \in Terminal => ledger'[k] = ledger[k]
        /\ ledger[k].state # "ABSENT" =>
              /\ ledger'[k].state # "ABSENT"
              /\ ledger'[k].binding = ledger[k].binding

\* An update the trigger lets through advances the row.
LEMMA UpdateAdvances ==
    ASSUME TypeOK, NEW k \in Keys, NEW new \in Row, Update(k, new),
           new.state # "ABSENT"
    PROVE  RowsOnlyAdvance
BY DEF TypeOK, Update, TriggerAllows, RowsOnlyAdvance

\* No step takes a row back.
LEMMA RowsAdvance == TypeOK /\ [Next]_vars => RowsOnlyAdvance
<1> SUFFICES ASSUME TypeOK, [Next]_vars PROVE RowsOnlyAdvance
  OBVIOUS
<1>0. ASSUME UNCHANGED ledger PROVE RowsOnlyAdvance
  BY <1>0 DEF RowsOnlyAdvance
<1>1. ASSUME NEW q \in Requests, NEW f \in Fingerprints, Reserve(q, f)
      PROVE  RowsOnlyAdvance
  <2>1. req[q].key \in Keys
    BY DEF TypeOK, Request
  <2>2. \/ UNCHANGED ledger
        \/ /\ ledger[req[q].key].state = "ABSENT"
           /\ \A k \in Keys : k # req[q].key => ledger'[k] = ledger[k]
    BY <1>1, <2>1 DEF Reserve, TypeOK
  <2>3. QED
    BY <2>2, <1>0 DEF RowsOnlyAdvance, Terminal
<1>2. ASSUME NEW q \in Requests, Start(q) PROVE RowsOnlyAdvance
  <2> DEFINE started == [ledger[req[q].key] EXCEPT !.state = "RUNNING"]
  <2>1. req[q].key \in Keys /\ ledger[req[q].key] \in Row
    BY DEF TypeOK, Request
  <2>2. started \in Row /\ started.state # "ABSENT"
    BY <2>1 DEF Row, States
  <2>3. Update(req[q].key, started) \/ UNCHANGED ledger
    BY <1>2 DEF Start
  <2>4. QED
    BY <1>0, <2>1, <2>2, <2>3, UpdateAdvances
<1>3. ASSUME NEW q \in Requests, FailAttempt(q) PROVE RowsOnlyAdvance
  <2> DEFINE failed == [ledger[req[q].key] EXCEPT !.state = "FAILED"]
  <2>1. req[q].key \in Keys /\ ledger[req[q].key] \in Row
    BY DEF TypeOK, Request
  <2>2. failed \in Row /\ failed.state # "ABSENT"
    BY <2>1 DEF Row, States
  <2>3. Update(req[q].key, failed) \/ UNCHANGED ledger
    BY <1>3 DEF FailAttempt
  <2>4. QED
    BY <1>0, <2>1, <2>2, <2>3, UpdateAdvances
<1>4. ASSUME NEW q \in Requests, NEW entry \in HistoryEntry, Commit(q, entry)
      PROVE  RowsOnlyAdvance
  <2> DEFINE bound == [ledger[req[q].key] EXCEPT !.state = "COMMITTED",
                                            !.history = Len(history) + 1]
  <2>1. req[q].key \in Keys /\ ledger[req[q].key] \in Row
        /\ Len(history) + 1 \in Nat
    BY DEF TypeOK, Request
  <2>2. bound \in Row /\ bound.state # "ABSENT"
    BY <2>1 DEF Row, States
  <2>3. Update(req[q].key, bound)
    BY <1>4 DEF Commit
  <2>4. QED
    BY <2>1, <2>2, <2>3, UpdateAdvances
<1>5. ASSUME NEW q \in Requests, NEW k \in Keys, NEW b \in Bindings,
             NEW f \in Fingerprints, Recover(q, k, b, f)
      PROVE  RowsOnlyAdvance
  <2> DEFINE taken == [ledger[k] EXCEPT !.state = "RESERVED",
                         !.generation = @ + 1, !.nonce = nonces + 1,
                         !.leaseUntil = LeaseEnd]
  <2>1. ledger[k] \in Row /\ nonces + 1 \in Nat /\ LeaseEnd \in Nat
    BY LedgerAssumption DEF TypeOK, LeaseEnd
  <2>2. taken \in Row /\ taken.state # "ABSENT"
    <3>1. ledger[k].generation + 1 \in Nat
      BY <2>1 DEF Row
    <3>2. QED
      BY <2>1, <3>1 DEF Row, States
  <2>3. Update(k, taken)
    BY <1>5 DEF Recover
  <2>4. QED
    BY <2>2, <2>3, UpdateAdvances
<1>6. QED
  BY <1>0, <1>1, <1>2, <1>3, <1>4, <1>5
     DEF Next, Lookup, DecideExisting, ReadBack, Crash, Tick, SetClockBack,
         vars

(***************************************************************************)
(* Fencing.  The nonces of the reservations held are distinct and were     *)
(* issued, so a fresh nonce is nobody's; two requests that pass the fence  *)
(* for one key hold the row's nonce both, and are the same request.        *)
(***************************************************************************)
NoncesFresh ==
    /\ \A k \in Keys : ledger[k].nonce <= nonces
    /\ \A q \in Requests : Holding(q) => req[q].row.nonce <= nonces
    /\ \A p, q \in Requests :
         Holding(p) /\ Holding(q) /\ req[p].row.nonce = req[q].row.nonce
           => p = q

\* A step that issues no nonce and lets q at most keep the nonce it holds.
LEMMA NonceKept ==
    ASSUME TypeOK, NoncesFresh, NEW q \in Requests, nonces' = nonces,
           \A k \in Keys : ledger'[k].nonce = ledger[k].nonce,
           \A p \in Requests : p # q => req'[p] = req[p],
           \/ req'[q].pc \notin {"claimed", "running"}
           \/ Holding(q) /\ req'[q].row.nonce = req[q].row.nonce
    PROVE  NoncesFresh'
BY DEF NoncesFresh, Holding, TypeOK

\* A step that issues the next nonce to request q.
LEMMA NonceIssued ==
    ASSUME TypeOK, NoncesFresh, NEW q \in Requests, nonces' = nonces + 1,
           NEW k \in Keys, ledger'[k].nonce = nonces + 1,
           \A j \in Keys : j # k => ledger'[j] = ledger[j],
           \A p \in Requests : p # q => req'[p] = req[p],
           req'[q].row.nonce = nonces + 1
    PROVE  NoncesFresh'
<1>1. \A j \in Keys : ledger[j].nonce \in Nat
  BY DEF TypeOK, Row
<1>2. \A p \in Requests : req[p].row.nonce \in Nat
  BY DEF TypeOK, Request, Row
<1>3. \A j \in Keys : ledger'[j].nonce <= nonces + 1
  BY <1>1 DEF NoncesFresh, TypeOK
<1>4. \A p \in Requests : Holding(p)' => req'[p].row.nonce <= nonces + 1
  BY <1>2 DEF NoncesFresh, Holding, TypeOK
<1>5. ASSUME NEW p \in Requests, NEW r \in Requests, Holding(p)', Holding(r)',
             req'[p].row.nonce = req'[r].row.nonce
      PROVE  p = r
  BY <1>2, <1>5 DEF NoncesFresh, Holding, TypeOK
<1>6. QED
  BY <1>3, <1>4, <1>5 DEF NoncesFresh

\* Every step keeps the nonces fresh.
LEMMA NoncesStep == TypeOK /\ NoncesFresh /\ [Next]_vars => NoncesFresh'
<1> SUFFICES ASSUME TypeOK, NoncesFresh, [Next]_vars PROVE NoncesFresh'
  OBVIOUS
<1>1. ASSUME NEW q \in Requests, NEW k \in Keys, NEW b \in Bindings,
             Lookup(q, k, b)
      PROVE  NoncesFresh'
  <2>1. req'[q].pc \notin {"claimed", "running"}
    <3> DEFINE conflict == [Idle EXCEPT !.key = k, !.binding = b, !.reply = "CONFLICT"]
               found == [Idle EXCEPT !.key = k, !.binding = b, !.row = ledger[k],
                                     !.pc = IF ledger[k].state = "ABSENT"
                                            THEN "new" ELSE "decide"]
    <3>1. conflict.pc = "done" /\ found.pc \in {"new", "decide"}
      BY DEF Idle
    <3>2. \/ req' = [req EXCEPT ![q] = conflict]
          \/ req' = [req EXCEPT ![q] = found]
      BY <1>1 DEF Lookup
    <3> HIDE DEF conflict, found
    <3> QED BY <3>1, <3>2 DEF TypeOK
  <2>2. QED
    BY <1>1, <2>1, NonceKept DEF Lookup, TypeOK
<1>2. ASSUME NEW q \in Requests, DecideExisting(q) PROVE NoncesFresh'
  BY <1>2, NonceKept DEF DecideExisting, Reply, TypeOK, Request
<1>3. ASSUME NEW q \in Requests, NEW f \in Fingerprints, Reserve(q, f)
      PROVE  NoncesFresh'
  <2> DEFINE k == req[q].key
             claim == FirstClaim(q, f)
  <2>1. k \in Keys /\ claim.nonce = nonces + 1
    BY DEF TypeOK, Request, FirstClaim
  <2>2. CASE /\ ledger' = [ledger EXCEPT ![k] = claim]
             /\ nonces' = nonces + 1
             /\ Goto(q, "claimed", claim)
    <3> HIDE DEF claim
    <3>1. req'[q].row = claim /\ \A p \in Requests : p # q => req'[p] = req[p]
      BY <2>2 DEF Goto, TypeOK, Request
    <3>2. ledger'[k] = claim /\ \A j \in Keys : j # k => ledger'[j] = ledger[j]
      BY <2>2, <2>1 DEF TypeOK
    <3>3. QED
      BY <2>1, <2>2, <3>1, <3>2, NonceIssued
  <2>3. CASE UNCHANGED <<ledger, nonces>>
             /\ (Reply(q, "CONFLICT", 0) \/ Goto(q, "decide", ledger[k]))
    <3>1. req'[q].pc \notin {"claimed", "running"}
          /\ \A p \in Requests : p # q => req'[p] = req[p]
      BY <2>3, ReplyEffect, GotoEffect
    <3>2. QED
      BY <2>3, <3>1, NonceKept
  <2>4. QED
    BY <1>3, <2>2, <2>3 DEF Reserve
<1>4. ASSUME NEW q \in Requests, Start(q) PROVE NoncesFresh'
  <2>1. req[q].key \in Keys
    BY DEF TypeOK, Request
  <2>2. CASE UNCHANGED ledger /\ Reply(q, "UNAVAILABLE", 0)
    BY <1>4, <2>2, NonceKept DEF Start, Reply, TypeOK, Request
  <2>3. CASE ~ (UNCHANGED ledger /\ Reply(q, "UNAVAILABLE", 0))
    <3>1. /\ req[q].row.nonce = ledger[req[q].key].nonce
          /\ ledger' = [ledger EXCEPT ![req[q].key] =
                          [ledger[req[q].key] EXCEPT !.state = "RUNNING"]]
          /\ Goto(q, "running",
                  [ledger[req[q].key] EXCEPT !.state = "RUNNING"])
      BY <1>4, <2>3 DEF Start, Owns, Update
    <3>2. [ledger[req[q].key] EXCEPT !.state = "RUNNING"].nonce
            = ledger[req[q].key].nonce
      BY <2>1 DEF TypeOK, Row
    <3>3. \A k \in Keys : ledger'[k].nonce = ledger[k].nonce
      BY <3>1, <3>2, <2>1 DEF TypeOK
    <3>4. req'[q].row.nonce = req[q].row.nonce
          /\ \A p \in Requests : p # q => req'[p] = req[p]
      BY <3>1, <3>2 DEF Goto, TypeOK, Request
    <3>5. Holding(q) /\ nonces' = nonces
      BY <1>4 DEF Start, Holding
    <3>6. QED
      BY <3>3, <3>4, <3>5, NonceKept
  <2>4. QED
    BY <2>2, <2>3
<1>5. ASSUME NEW q \in Requests, FailAttempt(q) PROVE NoncesFresh'
  <2>1. req[q].key \in Keys /\ ledger[req[q].key] \in Row
    BY DEF TypeOK, Request
  <2>2. \A k \in Keys : ledger'[k].nonce = ledger[k].nonce
    <3>1. [ledger[req[q].key] EXCEPT !.state = "FAILED"].nonce
            = ledger[req[q].key].nonce
      BY <2>1 DEF Row
    <3>2. QED
      BY <1>5, <2>1, <3>1, UpdateEffect DEF FailAttempt
  <2>3. req'[q].pc = "done" /\ \A p \in Requests : p # q => req'[p] = req[p]
    BY <1>5, ReplyEffect DEF FailAttempt
  <2>4. QED
    BY <1>5, <2>2, <2>3, NonceKept DEF FailAttempt
<1>6. ASSUME NEW q \in Requests, NEW entry \in HistoryEntry, Commit(q, entry)
      PROVE  NoncesFresh'
  <2>1. req[q].key \in Keys /\ ledger[req[q].key] \in Row
    BY DEF TypeOK, Request
  <2>2. \A k \in Keys : ledger'[k].nonce = ledger[k].nonce
    BY <1>6, <2>1 DEF Commit, Update, TypeOK, Row
  <2>3. req'[q].pc = "readback"
        /\ \A p \in Requests : p # q => req'[p] = req[p]
    BY <1>6 DEF Commit, Goto, TypeOK, Request
  <2>4. QED
    BY <1>6, <2>2, <2>3, NonceKept DEF Commit
<1>7. ASSUME NEW q \in Requests, ReadBack(q) PROVE NoncesFresh'
  <2>1. req'[q].pc = "done" /\ \A p \in Requests : p # q => req'[p] = req[p]
    BY <1>7, ReplyEffect DEF ReadBack
  <2>2. QED
    BY <1>7, <2>1, NonceKept DEF ReadBack
<1>8. ASSUME NEW q \in Requests, NEW k \in Keys, NEW b \in Bindings,
             NEW f \in Fingerprints, Recover(q, k, b, f)
      PROVE  NoncesFresh'
  <2> DEFINE taken == [ledger[k] EXCEPT !.state = "RESERVED",
                         !.generation = @ + 1, !.nonce = nonces + 1,
                         !.leaseUntil = LeaseEnd]
  <2>1. taken.nonce = nonces + 1
    BY DEF TypeOK, Row
  <2> HIDE DEF taken
  <2>2. ledger'[k] = taken /\ nonces' = nonces + 1
        /\ \A j \in Keys : j # k => ledger'[j] = ledger[j]
    BY <1>8 DEF Recover, Update, TypeOK, taken
  <2>3. req'[q].row = taken /\ \A p \in Requests : p # q => req'[p] = req[p]
    BY <1>8 DEF Recover, TypeOK, Request, Idle, taken
  <2>4. QED
    BY <2>1, <2>2, <2>3, NonceIssued
<1>9. ASSUME NEW q \in Requests, Crash(q) PROVE NoncesFresh'
  <2>1. req'[q].pc = "done" /\ \A p \in Requests : p # q => req'[p] = req[p]
    BY <1>9 DEF Crash, TypeOK, Idle
  <2>2. QED
    BY <1>9, <2>1, NonceKept DEF Crash
<1>10. CASE Tick \/ SetClockBack \/ UNCHANGED vars
  BY <1>10 DEF Tick, SetClockBack, vars, NoncesFresh, Holding
<1>11. QED
  BY <1>1, <1>2, <1>3, <1>4, <1>5, <1>6, <1>7, <1>8, <1>9, <1>10 DEF Next

\* At most one of the requests that believe they own a key can pass the owner
\* fence, however often the claim was taken over and whatever the clock does.
THEOREM OwnerIsUnique == Spec => []SingleOwner
<1>1. Init => NoncesFresh
  BY DEF Init, NoncesFresh, NoRow, Idle, Holding
<1>2. TypeOK /\ NoncesFresh => SingleOwner
  <2> SUFFICES ASSUME TypeOK, NoncesFresh, NEW p \in Requests,
                      NEW q \in Requests, Holding(p), Holding(q),
                      req[p].key = req[q].key,
                      Owns(req[p].key, req[p].row, Active),
                      Owns(req[q].key, req[q].row, Active)
               PROVE  p = q
    BY DEF SingleOwner
  <2>1. req[p].row.nonce = req[q].row.nonce
    BY DEF Owns
  <2>2. QED
    BY <2>1 DEF NoncesFresh
<1>3. QED
  BY <1>1, <1>2, TypeCorrect, NoncesStep, PTL DEF Spec

(***************************************************************************)
(* The ledger and the run history agree.  Only a commit appends, and it    *)
(* appends for a key that is still active, which no entry names yet.       *)
(***************************************************************************)
LEMMA HistoryStep == TypeOK /\ HistoryMatchesLedger /\ [Next]_vars
                        => HistoryMatchesLedger'
<1> SUFFICES ASSUME TypeOK, HistoryMatchesLedger, [Next]_vars
             PROVE  HistoryMatchesLedger'
  OBVIOUS
<1>1. \A i \in 1..Len(history) : history[i].key \in Keys
  <2>1. \A i \in 1..Len(history) : history[i] \in HistoryEntry
    BY DEF TypeOK
  <2>2. QED
    BY <2>1 DEF HistoryEntry
<1>2. ASSUME history' = history,
             \A k \in Keys : \/ ledger'[k] = ledger[k]
                             \/ /\ ledger[k].state # "COMMITTED"
                                /\ ledger'[k].state # "COMMITTED"
      PROVE  HistoryMatchesLedger'
  BY <1>1, <1>2 DEF HistoryMatchesLedger
<1>3. ASSUME NEW k \in Keys, NEW new, Update(k, new), history' = history,
             new.state # "COMMITTED"
      PROVE  HistoryMatchesLedger'
  <2>1. ledger[k].state # "COMMITTED"
    BY <1>3 DEF Update, TriggerAllows, Terminal
  <2>2. QED
    BY <1>2, <1>3, <2>1, UpdateEffect
<1>4. ASSUME NEW q \in Requests, NEW f \in Fingerprints, Reserve(q, f)
      PROVE  HistoryMatchesLedger'
  <2> DEFINE k == req[q].key
             claim == FirstClaim(q, f)
  <2>1. k \in Keys /\ claim.state # "COMMITTED"
    BY DEF TypeOK, Request, FirstClaim
  <2> HIDE DEF claim
  <2>2. CASE ledger[k].state = "ABSENT" /\ ledger' = [ledger EXCEPT ![k] = claim]
    BY <1>4, <2>1, <2>2, <1>2 DEF Reserve, TypeOK
  <2>3. CASE UNCHANGED ledger
    BY <1>4, <2>3, <1>2 DEF Reserve
  <2>4. QED
    BY <1>4, <2>2, <2>3 DEF Reserve, claim
<1>5. ASSUME NEW q \in Requests, Start(q) PROVE HistoryMatchesLedger'
  <2>1. req[q].key \in Keys /\ ledger[req[q].key] \in Row
    BY DEF TypeOK, Request
  <2>2. [ledger[req[q].key] EXCEPT !.state = "RUNNING"].state # "COMMITTED"
    BY <2>1 DEF Row
  <2>3. QED
    BY <1>5, <2>1, <2>2, <1>2, <1>3 DEF Start
<1>6. ASSUME NEW q \in Requests, FailAttempt(q) PROVE HistoryMatchesLedger'
  <2>1. req[q].key \in Keys /\ ledger[req[q].key] \in Row
    BY DEF TypeOK, Request
  <2>2. [ledger[req[q].key] EXCEPT !.state = "FAILED"].state # "COMMITTED"
    BY <2>1 DEF Row
  <2>3. QED
    BY <1>6, <2>1, <2>2, <1>2, <1>3 DEF FailAttempt
<1>7. ASSUME NEW q \in Requests, NEW entry \in HistoryEntry, Commit(q, entry)
      PROVE  HistoryMatchesLedger'
  <2> DEFINE k == req[q].key
             n == Len(history) + 1
  <2>1. k \in Keys /\ ledger[k] \in Row /\ n \in Nat
    BY DEF TypeOK, Request
  <2>2. /\ ledger[k].state = "RUNNING"
        /\ entry.key = k /\ entry.binding = ledger[k].binding
    BY <1>7 DEF Commit, MayFinalize, Owns
  <2>3. /\ ledger'[k].state = "COMMITTED" /\ ledger'[k].history = n
        /\ ledger'[k].binding = ledger[k].binding
        /\ \A j \in Keys : j # k => ledger'[j] = ledger[j]
    <3> DEFINE new == [ledger[k] EXCEPT !.state = "COMMITTED", !.history = n]
    <3>1. /\ new.state = "COMMITTED" /\ new.history = n
          /\ new.binding = ledger[k].binding
      BY <2>1 DEF Row
    <3>2. Update(k, new)
      BY <1>7 DEF Commit
    <3> HIDE DEF new
    <3>3. QED
      BY <2>1, <3>1, <3>2, UpdateEffect
  <2>4. /\ Len(history') = n /\ history'[n] = entry
        /\ \A i \in 1..Len(history) : history'[i] = history[i]
        /\ 1..n = 1..Len(history) \cup {n}
    BY <1>7 DEF Commit, TypeOK
  <2>5. \A i \in 1..Len(history) : history[i].key # k
    BY <2>2 DEF HistoryMatchesLedger
  <2> HIDE DEF k, n
  <2>6. QED
    BY <1>1, <2>1, <2>2, <2>3, <2>4, <2>5 DEF HistoryMatchesLedger
<1>8. ASSUME NEW q \in Requests, NEW k \in Keys, NEW b \in Bindings,
             NEW f \in Fingerprints, Recover(q, k, b, f)
      PROVE  HistoryMatchesLedger'
  <2> DEFINE taken == [ledger[k] EXCEPT !.state = "RESERVED",
                         !.generation = @ + 1, !.nonce = nonces + 1,
                         !.leaseUntil = LeaseEnd]
  <2>1. taken.state # "COMMITTED"
    BY DEF TypeOK, Row
  <2>2. Update(k, taken) /\ history' = history
    BY <1>8 DEF Recover
  <2> HIDE DEF taken
  <2>3. QED
    BY <2>1, <2>2, <1>3
<1>9. ASSUME UNCHANGED <<ledger, history>> PROVE HistoryMatchesLedger'
  BY <1>9, <1>2
<1>10. QED
  BY <1>4, <1>5, <1>6, <1>7, <1>8, <1>9
     DEF Next, Lookup, DecideExisting, ReadBack, Crash, Tick, SetClockBack,
         vars

\* A committed key names exactly one history entry, its own, computed from the
\* submitted binding, and no history entry exists without its committed key.
THEOREM LedgerAgreesWithHistory == Spec => []HistoryMatchesLedger
<1>1. Init => HistoryMatchesLedger
  BY DEF Init, HistoryMatchesLedger, NoRow
<1>2. QED
  BY <1>1, TypeCorrect, HistoryStep, PTL DEF Spec

(***************************************************************************)
(* Fencing of the outcome.                                                 *)
(***************************************************************************)
\* The action FencedOutcome asserts of a step.
RecordedByOwner ==
    \A k \in Keys :
        ledger'[k].state \in Terminal /\ ledger[k].state \notin Terminal =>
            \E q \in Requests :
                /\ Holding(q) /\ req[q].key = k
                /\ req'[q].pc # req[q].pc
                /\ req[q].row.generation = ledger[k].generation
                /\ req[q].row.nonce = ledger[k].nonce
                /\ now < ledger[k].leaseUntil

\* Only the owner of a row records its outcome.
LEMMA OutcomeStep == TypeOK /\ [Next]_vars => RecordedByOwner
<1> SUFFICES ASSUME TypeOK, [Next]_vars PROVE RecordedByOwner
  OBVIOUS
<1>1. ASSUME \A k \in Keys : \/ ledger'[k] = ledger[k]
                             \/ ledger'[k].state \notin Terminal
      PROVE  RecordedByOwner
  BY <1>1 DEF RecordedByOwner
<1>2. ASSUME NEW q \in Requests, NEW new, Update(req[q].key, new),
             Holding(q), Owns(req[q].key, req[q].row, Active),
             req'[q].pc # req[q].pc
      PROVE  RecordedByOwner
  <2>1. req[q].key \in Keys /\ ledger[req[q].key] \in Row /\ now \in Nat
    BY DEF TypeOK, Request
  <2>2. \A j \in Keys : j # req[q].key => ledger'[j] = ledger[j]
    BY <1>2, <2>1, UpdateEffect
  <2>3. now < ledger[req[q].key].leaseUntil
    BY <1>2, <2>1 DEF Owns, Row
  <2>4. QED
    BY <1>2, <2>1, <2>2, <2>3 DEF RecordedByOwner, Owns
<1>3. ASSUME NEW q \in Requests, NEW f \in Fingerprints, Reserve(q, f)
      PROVE  RecordedByOwner
  <2>1. req[q].key \in Keys
    BY DEF TypeOK, Request
  <2>2. QED
    BY <1>1, <1>3, <2>1 DEF Reserve, FirstClaim, TypeOK, Terminal
<1>4. ASSUME NEW q \in Requests, Start(q) PROVE RecordedByOwner
  <2>1. req[q].key \in Keys /\ ledger[req[q].key] \in Row
    BY DEF TypeOK, Request
  <2>2. [ledger[req[q].key] EXCEPT !.state = "RUNNING"].state \notin Terminal
    BY <2>1 DEF Row, Terminal
  <2>3. QED
    BY <1>1, <1>4, <2>1, <2>2, UpdateEffect DEF Start
<1>5. ASSUME NEW q \in Requests, FailAttempt(q) PROVE RecordedByOwner
  <2>1. req'[q].pc = "done" /\ req[q].pc = "running"
    BY <1>5, ReplyEffect DEF FailAttempt
  <2>2. QED
    BY <1>1, <1>2, <1>5, <2>1 DEF FailAttempt, Holding
<1>6. ASSUME NEW q \in Requests, NEW entry \in HistoryEntry, Commit(q, entry)
      PROVE  RecordedByOwner
  <2>1. req'[q].pc = "readback" /\ req[q].pc = "running"
    BY <1>6, GotoEffect DEF Commit
  <2>2. Owns(req[q].key, req[q].row, Active)
    BY <1>6 DEF Commit, MayFinalize, Owns, Active
  <2>3. QED
    BY <1>2, <1>6, <2>1, <2>2 DEF Commit, Holding
<1>7. ASSUME NEW q \in Requests, NEW k \in Keys, NEW b \in Bindings,
             NEW f \in Fingerprints, Recover(q, k, b, f)
      PROVE  RecordedByOwner
  <2> DEFINE taken == [ledger[k] EXCEPT !.state = "RESERVED",
                         !.generation = @ + 1, !.nonce = nonces + 1,
                         !.leaseUntil = LeaseEnd]
  <2>1. taken.state \notin Terminal
    BY DEF TypeOK, Row, Terminal
  <2>2. Update(k, taken)
    BY <1>7 DEF Recover
  <2> HIDE DEF taken
  <2>3. QED
    BY <1>1, <2>1, <2>2, UpdateEffect
<1>8. ASSUME UNCHANGED ledger PROVE RecordedByOwner
  BY <1>1, <1>8
<1>9. QED
  BY <1>3, <1>4, <1>5, <1>6, <1>7, <1>8
     DEF Next, Lookup, DecideExisting, ReadBack, Crash, Tick, SetClockBack,
         vars

\* An outcome is recorded only by the holder of the row's present generation
\* and nonce, within its lease: a request whose claim was taken over records
\* nothing.
THEOREM OutcomeIsFenced == Spec => FencedOutcome
<1>1. TypeOK /\ [Next]_vars => [RecordedByOwner]_vars
  BY OutcomeStep
<1>2. QED
  BY <1>1, TypeCorrect, PTL DEF Spec, FencedOutcome, RecordedByOwner

(***************************************************************************)
(* Answers.  The copy a request decides by is the stored row once it is    *)
(* COMMITTED, since a terminal row never changes; and the row of a request *)
(* under way was inserted with the binding that request submitted.         *)
(***************************************************************************)
AnswerOf(v) ==
    LET row == ledger[v.key]
    IN  /\ v.reply \in {"COMMITTED", "REPLAYED"} =>
              /\ row.state = "COMMITTED" /\ v.replyHistory = row.history
              /\ row.binding = v.binding
        /\ v.pc \in {"decide", "claimed", "running", "readback"} =>
              row.state # "ABSENT" /\ row.binding = v.binding
        /\ v.pc = "decide" /\ v.row.state = "COMMITTED" => row = v.row

EveryAnswer == \A q \in Requests : AnswerOf(req[q])

\* Rows that only advance keep what a request knows.
LEMMA AnswerKept ==
    ASSUME RowsOnlyAdvance, NEW v \in Request, AnswerOf(v)
    PROVE  AnswerOf(v)'
<1>1. v.key \in Keys
  BY DEF Request
<1> QED BY <1>1 DEF AnswerOf, RowsOnlyAdvance, Terminal

\* A request that is told something else than a run has no claim to one.
LEMMA OtherReply ==
    ASSUME TypeOK, RowsOnlyAdvance, NEW q \in Requests,
           NEW kind \in Kinds \ {"COMMITTED", "REPLAYED"}, NEW h, Reply(q, kind, h)
    PROVE  AnswerOf(req[q])'
BY ReplyEffect DEF AnswerOf

\* A request that goes on keeps its answer, if it had one before.
LEMMA MoveAnswer ==
    ASSUME TypeOK, RowsOnlyAdvance, NEW q \in Requests, AnswerOf(req[q]),
           NEW pc \in {"claimed", "running", "readback"}, NEW row, Goto(q, pc, row),
           ledger'[req[q].key].state # "ABSENT",
           ledger'[req[q].key].binding = req[q].binding
    PROVE  AnswerOf(req[q])'
<1>1. req[q].key \in Keys
  BY DEF TypeOK, Request
<1>2. /\ req'[q].pc = pc /\ req'[q].reply = req[q].reply
      /\ req'[q].replyHistory = req[q].replyHistory
      /\ req'[q].key = req[q].key /\ req'[q].binding = req[q].binding
  BY GotoEffect
<1>3. req[q].reply \in {"COMMITTED", "REPLAYED"} =>
         ledger'[req[q].key] = ledger[req[q].key]
  BY <1>1 DEF AnswerOf, RowsOnlyAdvance, Terminal
<1> QED BY <1>2, <1>3 DEF AnswerOf


\* Every step keeps what the requests know.
LEMMA AnswerStep == TypeOK /\ EveryAnswer /\ [Next]_vars => EveryAnswer'
<1> SUFFICES ASSUME TypeOK, EveryAnswer, [Next]_vars PROVE EveryAnswer'
  OBVIOUS
<1>0. RowsOnlyAdvance
  BY RowsAdvance
\* It is enough to look at the request that moves.
<1>1. ASSUME NEW q \in Requests, \A p \in Requests : p # q => req'[p] = req[p],
             AnswerOf(req[q])'
      PROVE  EveryAnswer'
  <2>1. ASSUME NEW p \in Requests, p # q
        PROVE  AnswerOf(req[p])'
    <3>1. PICK v \in Request : v = req[p]
      BY DEF TypeOK
    <3>2. AnswerOf(v)
      BY <3>1 DEF EveryAnswer, AnswerOf
    <3>3. AnswerOf(v)'
      BY <1>0, <3>2, AnswerKept
    <3>4. req'[p] = v
      BY <1>1, <2>1, <3>1
    <3> QED BY <3>3, <3>4 DEF AnswerOf
  <2> QED BY <1>1, <2>1 DEF EveryAnswer
<1>2. ASSUME UNCHANGED req
      PROVE  EveryAnswer'
  <2>1. ASSUME NEW p \in Requests
        PROVE  AnswerOf(req[p])'
    <3>1. PICK v \in Request : v = req[p]
      BY DEF TypeOK
    <3>2. AnswerOf(v)
      BY <3>1 DEF EveryAnswer, AnswerOf
    <3>3. AnswerOf(v)'
      BY <1>0, <3>2, AnswerKept
    <3> QED BY <1>2, <3>1, <3>3 DEF AnswerOf
  <2> QED BY <2>1 DEF EveryAnswer
<1>3. ASSUME NEW q \in Requests
      PROVE  AnswerOf(req[q]) /\ req[q].key \in Keys /\ req[q] \in Request
  BY DEF EveryAnswer, TypeOK, Request
<1>4. ASSUME NEW q \in Requests, NEW k \in Keys, NEW b \in Bindings, Lookup(q, k, b)
      PROVE  EveryAnswer'
  <2>1. \A p \in Requests : p # q => req'[p] = req[p]
    BY <1>4 DEF Lookup, TypeOK
  <2>2. /\ req'[q].key = k /\ req'[q].binding = b
        /\ req'[q].reply \in {"NONE", "CONFLICT"} /\ req'[q].pc \in {"done", "new", "decide"}
        /\ req'[q].pc = "decide" =>
              /\ ledger[k].state # "ABSENT" /\ ledger[k].binding = b
              /\ req'[q].row = ledger[k]
    <3>1. CASE req' = [req EXCEPT ![q] =
                  [Idle EXCEPT !.key = k, !.binding = b, !.reply = "CONFLICT"]]
      BY <3>1 DEF TypeOK, Idle
    <3>2. CASE /\ ledger[k].state = "ABSENT" \/ ledger[k].binding = b
               /\ req' = [req EXCEPT ![q] =
                     [Idle EXCEPT !.key = k, !.binding = b, !.row = ledger[k],
                                  !.pc = IF ledger[k].state = "ABSENT"
                                         THEN "new" ELSE "decide"]]
      BY <3>2 DEF TypeOK, Idle
    <3> QED BY <1>4, <3>1, <3>2 DEF Lookup
  <2>3. ledger' = ledger
    BY <1>4 DEF Lookup
  <2>4. AnswerOf(req[q])'
    BY <2>2, <2>3 DEF AnswerOf
  <2> QED BY <1>1, <2>1, <2>4
<1>5. ASSUME NEW q \in Requests, DecideExisting(q)
      PROVE  EveryAnswer'
  <2> DEFINE kind == DecisionKind(req[q].row)
  <2>1. Reply(q, kind, req[q].row.history) /\ ledger' = ledger /\ req[q].pc = "decide"
    BY <1>5 DEF DecideExisting
  <2>2. /\ kind \in Kinds
        /\ kind \in {"COMMITTED", "REPLAYED"} => req[q].row.state = "COMMITTED"
    BY DEF DecisionKind, Kinds
  <2>3. kind \in {"COMMITTED", "REPLAYED"} =>
           ledger[req[q].key] = req[q].row /\ ledger[req[q].key].binding = req[q].binding
    BY <1>3, <2>1, <2>2 DEF AnswerOf
  <2> HIDE DEF kind
  <2>4. AnswerOf(req[q])'
    BY <2>1, <2>2, <2>3, ReplyEffect DEF AnswerOf
  <2> QED BY <1>1, <2>1, <2>4, ReplyEffect
<1>6. ASSUME NEW q \in Requests, NEW f \in Fingerprints, Reserve(q, f)
      PROVE  EveryAnswer'
  <2> DEFINE k == req[q].key
             claim == FirstClaim(q, f)
  <2>1. CASE ledger' = [ledger EXCEPT ![k] = claim] /\ Goto(q, "claimed", claim)
    <3>1. ledger'[k].state # "ABSENT" /\ ledger'[k].binding = req[q].binding
      BY <1>3, <2>1 DEF TypeOK, FirstClaim
    <3>2. AnswerOf(req[q])'
      BY <1>0, <1>3, <2>1, <3>1, MoveAnswer
    <3> QED BY <1>1, <2>1, <3>2, GotoEffect
  <2>2. CASE Reply(q, "CONFLICT", 0)
    <3>1. AnswerOf(req[q])'
      BY <1>0, <2>2, OtherReply DEF Kinds
    <3> QED BY <1>1, <2>2, <3>1, ReplyEffect
  <2>3. CASE /\ ledger[k].state # "ABSENT" /\ ledger[k].binding = req[q].binding
             /\ Goto(q, "decide", ledger[k]) /\ ledger' = ledger
    <3>1. AnswerOf(req[q])'
      BY <1>3, <2>3, GotoEffect DEF AnswerOf
    <3> QED BY <1>1, <2>3, <3>1, GotoEffect
  <2> QED BY <1>6, <2>1, <2>2, <2>3 DEF Reserve
<1>7. ASSUME NEW q \in Requests,
             \/ Start(q) \/ FailAttempt(q)
             \/ \E entry \in HistoryEntry : Commit(q, entry)
      PROVE  EveryAnswer'
  <2>1. /\ req[q].pc \in {"claimed", "running"}
        /\ \/ \E kind \in {"UNAVAILABLE", "FAILED"} : Reply(q, kind, 0)
           \/ \E pc \in {"running", "readback"} : \E row : Goto(q, pc, row)
    BY <1>7 DEF Start, FailAttempt, Commit
  <2>2. ASSUME NEW kind \in {"UNAVAILABLE", "FAILED"}, Reply(q, kind, 0)
        PROVE  EveryAnswer'
    <3>1. AnswerOf(req[q])'
      BY <1>0, <2>2, OtherReply DEF Kinds
    <3> QED BY <1>1, <2>2, <3>1, ReplyEffect
  <2>3. ASSUME NEW pc \in {"running", "readback"}, NEW row, Goto(q, pc, row)
        PROVE  EveryAnswer'
    <3>1. ledger'[req[q].key].state # "ABSENT"
          /\ ledger'[req[q].key].binding = req[q].binding
      BY <1>0, <1>3, <2>1 DEF AnswerOf, RowsOnlyAdvance
    <3>2. AnswerOf(req[q])'
      BY <1>0, <1>3, <2>3, <3>1, MoveAnswer
    <3> QED BY <1>1, <2>3, <3>2, GotoEffect
  <2> QED BY <2>1, <2>2, <2>3
<1>8. ASSUME NEW q \in Requests, ReadBack(q)
      PROVE  EveryAnswer'
  <2>1. CASE ledger[req[q].key].state = "COMMITTED"
    <3>1. /\ Reply(q, "COMMITTED", ledger[req[q].key].history) /\ ledger' = ledger
          /\ ledger[req[q].key].binding = req[q].binding
      BY <1>3, <1>8, <2>1 DEF ReadBack, AnswerOf
    <3>2. AnswerOf(req[q])'
      BY <2>1, <3>1, ReplyEffect DEF AnswerOf
    <3> QED BY <1>1, <3>1, <3>2, ReplyEffect
  <2>2. CASE Reply(q, "UNAVAILABLE", 0)
    <3>1. AnswerOf(req[q])'
      BY <1>0, <2>2, OtherReply DEF Kinds
    <3> QED BY <1>1, <2>2, <3>1, ReplyEffect
  <2> QED BY <1>8, <2>1, <2>2 DEF ReadBack
<1>9. ASSUME NEW q \in Requests, NEW k \in Keys, NEW b \in Bindings,
             NEW f \in Fingerprints, Recover(q, k, b, f)
      PROVE  EveryAnswer'
  <2>1. /\ \A p \in Requests : p # q => req'[p] = req[p]
        /\ req'[q].key = k /\ req'[q].binding = b /\ req'[q].pc = "claimed"
        /\ req'[q].reply = "NONE"
    BY <1>9 DEF Recover, TypeOK, Idle
  <2>2. ledger'[k].state # "ABSENT" /\ ledger'[k].binding = b
    BY <1>0, <1>9 DEF Recover, RowsOnlyAdvance, Active
  <2>3. AnswerOf(req[q])'
    BY <2>1, <2>2 DEF AnswerOf
  <2> QED BY <1>1, <2>1, <2>3
<1>10. ASSUME NEW q \in Requests, Crash(q)
       PROVE  EveryAnswer'
  <2>1. /\ \A p \in Requests : p # q => req'[p] = req[p]
        /\ req'[q].pc = "done" /\ req'[q].reply = "NONE"
    BY <1>10 DEF Crash, TypeOK, Idle
  <2>2. AnswerOf(req[q])'
    BY <2>1 DEF AnswerOf
  <2> QED BY <1>1, <2>1, <2>2
<1>11. CASE Tick \/ SetClockBack \/ UNCHANGED vars
  BY <1>2, <1>11 DEF Tick, SetClockBack, vars
<1> QED BY <1>4, <1>5, <1>6, <1>7, <1>8, <1>9, <1>10, <1>11 DEF Next

\* A client told COMMITTED, by its own run or by a replay, is given the
\* history entry its key is bound to, and that entry was computed from the
\* binding this client submitted, whoever crashed or took over in between.
THEOREM AnswersAreTheOriginals == Spec => []AnswersAreOriginal
<1>1. Init => EveryAnswer
  <2>1. Idle.pc = "done" /\ Idle.reply = "NONE"
    BY DEF Idle
  <2>2. AnswerOf(Idle)
    BY <2>1 DEF AnswerOf
  <2>3. ASSUME Init, NEW q \in Requests
        PROVE  req[q] = Idle
    BY <2>3 DEF Init
  <2> QED BY <2>2, <2>3 DEF EveryAnswer, AnswerOf
<1>2. TypeOK /\ EveryAnswer /\ HistoryMatchesLedger => AnswersAreOriginal
  BY DEF TypeOK, Request, EveryAnswer, AnswerOf, HistoryMatchesLedger, AnswersAreOriginal
<1> QED BY <1>1, <1>2, TypeCorrect, AnswerStep, LedgerAgreesWithHistory, PTL DEF Spec

(***************************************************************************)
(* Refinement: the ledger implements RunOnce.  Only a commit binds a       *)
(* history record, so the record it appends is nobody else's.              *)
(***************************************************************************)
BoundOnlyIfCommitted ==
    \A k \in Keys : ledger[k].state # "COMMITTED" => ledger[k].history = 0

\* Every step leaves the ledger alone or changes one row in one of four ways.
RowChanges(k) ==
    /\ \A j \in Keys : j # k => ledger'[j] = ledger[j]
    /\ \/ /\ ledger[k].state = "ABSENT"                           \* reserve
          /\ ledger'[k].state = "RESERVED" /\ ledger'[k].history = 0
       \/ /\ ledger[k].state \in Active                   \* start, recover
          /\ ledger'[k].state \in Active
          /\ ledger'[k].history = ledger[k].history
       \/ /\ ledger[k].state \in Active                              \* fail
          /\ ledger'[k].state = "FAILED"
          /\ ledger'[k].history = ledger[k].history
       \/ /\ ledger[k].state \in Active                            \* commit
          /\ ledger'[k].state = "COMMITTED"
          /\ ledger'[k].history = Len(history) + 1

\* A step changes at most one row, in one of the ways of RowChanges.
LEMMA ChangesOfRows ==
    TypeOK /\ [Next]_vars => UNCHANGED ledger \/ \E k \in Keys : RowChanges(k)
<1> SUFFICES ASSUME TypeOK, [Next]_vars, ~ UNCHANGED ledger
             PROVE  \E k \in Keys : RowChanges(k)
  OBVIOUS
<1>1. ASSUME NEW q \in Requests, NEW f \in Fingerprints, Reserve(q, f)
      PROVE  RowChanges(req[q].key) /\ req[q].key \in Keys
  BY <1>1 DEF Reserve, FirstClaim, RowChanges, TypeOK, Request
<1>2. ASSUME NEW q \in Requests, Start(q)
      PROVE  RowChanges(req[q].key) /\ req[q].key \in Keys
  <2> DEFINE started == [ledger[req[q].key] EXCEPT !.state = "RUNNING"]
  <2>1. req[q].key \in Keys /\ ledger[req[q].key] \in Row
    BY DEF TypeOK, Request
  <2>2. /\ Update(req[q].key, started)
        /\ ledger[req[q].key].state \in Active
    BY <1>2 DEF Start, Owns
  <2>3. started.state = "RUNNING"
        /\ started.history = ledger[req[q].key].history
    BY <2>1 DEF Row
  <2> HIDE DEF started
  <2>4. QED
    BY <2>1, <2>2, <2>3, UpdateEffect DEF RowChanges, Active
<1>3. ASSUME NEW q \in Requests, FailAttempt(q)
      PROVE  RowChanges(req[q].key) /\ req[q].key \in Keys
  <2> DEFINE failed == [ledger[req[q].key] EXCEPT !.state = "FAILED"]
  <2>1. req[q].key \in Keys /\ ledger[req[q].key] \in Row
    BY DEF TypeOK, Request
  <2>2. /\ Update(req[q].key, failed)
        /\ ledger[req[q].key].state \in Active
    BY <1>3 DEF FailAttempt, Owns
  <2>3. failed.state = "FAILED"
        /\ failed.history = ledger[req[q].key].history
    BY <2>1 DEF Row
  <2> HIDE DEF failed
  <2>4. QED
    BY <2>1, <2>2, <2>3, UpdateEffect DEF RowChanges
<1>4. ASSUME NEW q \in Requests, NEW entry \in HistoryEntry, Commit(q, entry)
      PROVE  RowChanges(req[q].key) /\ req[q].key \in Keys
  <2> DEFINE new == [ledger[req[q].key] EXCEPT !.state = "COMMITTED",
                                               !.history = Len(history) + 1]
  <2>1. req[q].key \in Keys /\ ledger[req[q].key] \in Row
    BY DEF TypeOK, Request
  <2>2. /\ Update(req[q].key, new)
        /\ ledger[req[q].key].state \in Active
    BY <1>4 DEF Commit, MayFinalize, Owns, Active
  <2>3. new.state = "COMMITTED" /\ new.history = Len(history) + 1
    BY <2>1 DEF Row
  <2> HIDE DEF new
  <2>4. QED
    BY <2>1, <2>2, <2>3, UpdateEffect DEF RowChanges
<1>5. ASSUME NEW q \in Requests, NEW k \in Keys, NEW b \in Bindings,
             NEW f \in Fingerprints, Recover(q, k, b, f)
      PROVE  RowChanges(k)
  <2> DEFINE taken == [ledger[k] EXCEPT !.state = "RESERVED",
                         !.generation = @ + 1, !.nonce = nonces + 1,
                         !.leaseUntil = LeaseEnd]
  <2>1. taken.state = "RESERVED" /\ taken.history = ledger[k].history
    BY DEF TypeOK, Row
  <2>2. Update(k, taken) /\ ledger[k].state \in Active
    BY <1>5 DEF Recover
  <2> HIDE DEF taken
  <2>3. QED
    BY <2>1, <2>2, UpdateEffect DEF RowChanges, Active
<1>6. QED
  BY <1>1, <1>2, <1>3, <1>4, <1>5
     DEF Next, Lookup, DecideExisting, ReadBack, Crash, Tick, SetClockBack,
         vars

\* Every step binds a row only to a Run that was committed.
LEMMA BoundStep == TypeOK /\ BoundOnlyIfCommitted /\ [Next]_vars
                     => BoundOnlyIfCommitted'
<1> SUFFICES ASSUME TypeOK, BoundOnlyIfCommitted, [Next]_vars
             PROVE  BoundOnlyIfCommitted'
  OBVIOUS
<1>1. CASE UNCHANGED ledger
  BY <1>1 DEF BoundOnlyIfCommitted
<1>2. ASSUME NEW k \in Keys, RowChanges(k) PROVE BoundOnlyIfCommitted'
  BY <1>2 DEF BoundOnlyIfCommitted, RowChanges, Active
<1>3. QED
  BY <1>1, <1>2, ChangesOfRows

\* Every step is a step of the abstract ledger, or none.
LEMMA RefinementStep ==
    TypeOK /\ HistoryMatchesLedger /\ BoundOnlyIfCommitted /\ [Next]_vars
      => [Once!Next]_(Once!vars)
<1> SUFFICES ASSUME TypeOK, HistoryMatchesLedger, BoundOnlyIfCommitted,
                    [Next]_vars
             PROVE  [Once!Next]_(Once!vars)
  OBVIOUS
<1> DEFINE outcome == [k \in Keys |-> OutcomeOf(ledger[k])]
           bound == [k \in Keys |-> ledger[k].history]
<1>1. CASE UNCHANGED ledger
  BY <1>1 DEF Once!vars, OutcomeOf
<1>2. ASSUME NEW k \in Keys, RowChanges(k) PROVE [Once!Next]_(Once!vars)
  <2>1. /\ outcome' = [outcome EXCEPT ![k] = OutcomeOf(ledger'[k])]
        /\ bound' = [bound EXCEPT ![k] = ledger'[k].history]
    BY <1>2 DEF RowChanges, OutcomeOf
  <2>2. CASE /\ ledger[k].state = "ABSENT"
             /\ ledger'[k].state = "RESERVED" /\ ledger'[k].history = 0
    <3>1. OutcomeOf(ledger[k]) = "NONE" /\ OutcomeOf(ledger'[k]) = "OPEN"
      BY <2>2 DEF OutcomeOf, Active
    <3>2. bound' = bound
      BY <2>1, <2>2 DEF BoundOnlyIfCommitted
    <3>3. Once!Open(k)
      BY <2>1, <3>1, <3>2 DEF Once!Open
    <3>4. QED
      BY <3>3 DEF Once!Next
  <2>3. CASE /\ ledger[k].state \in Active /\ ledger'[k].state \in Active
             /\ ledger'[k].history = ledger[k].history
    <3>1. OutcomeOf(ledger'[k]) = OutcomeOf(ledger[k])
      BY <2>3 DEF OutcomeOf, Active
    <3>2. outcome' = outcome /\ bound' = bound
      BY <2>1, <2>3, <3>1
    <3>3. QED
      BY <3>2 DEF Once!vars
  <2>4. CASE /\ ledger[k].state \in Active /\ ledger'[k].state = "FAILED"
             /\ ledger'[k].history = ledger[k].history
    <3>1. OutcomeOf(ledger[k]) = "OPEN" /\ OutcomeOf(ledger'[k]) = "FAILED"
      BY <2>4 DEF OutcomeOf, Active
    <3>2. bound' = bound
      BY <2>1, <2>4
    <3>3. Once!Fail(k)
      BY <2>1, <3>1, <3>2 DEF Once!Fail
    <3>4. QED
      BY <3>3 DEF Once!Next
  <2>5. CASE /\ ledger[k].state \in Active /\ ledger'[k].state = "COMMITTED"
             /\ ledger'[k].history = Len(history) + 1
    <3>1. OutcomeOf(ledger[k]) = "OPEN" /\ OutcomeOf(ledger'[k]) = "COMMITTED"
      BY <2>5 DEF OutcomeOf, Active
    <3>2. Len(history) \in Nat
      BY DEF TypeOK
    <3>3. \A j \in Keys : ledger[j].history \in 0..Len(history)
      BY <3>2 DEF HistoryMatchesLedger, BoundOnlyIfCommitted
    <3>4. /\ bound'[k] = Len(history) + 1
          /\ bound' = [bound EXCEPT ![k] = bound'[k]]
          /\ \A j \in Keys : bound[j] # bound'[k]
      <4>1. bound'[k] = Len(history) + 1
        BY <2>5
      <4>2. bound' = [bound EXCEPT ![k] = bound'[k]]
        BY <2>1, <2>5, <4>1
      <4>3. \A j \in Keys : bound[j] # Len(history) + 1
        BY <3>2, <3>3
      <4>4. QED
        BY <4>1, <4>2, <4>3
    <3>5. Once!Commit(k)
      BY <2>1, <3>1, <3>2, <3>4 DEF Once!Commit
    <3>6. QED
      BY <3>5 DEF Once!Next
  <2>6. QED
    BY <1>2, <2>2, <2>3, <2>4, <2>5 DEF RowChanges
<1>3. QED
  BY <1>1, <1>2, ChangesOfRows

\* The ledger, with its leases, crashes, takeovers and wall clock, implements
\* the one-immutable-outcome-per-key specification.
THEOREM LedgerImplementsRunOnce == Spec => ImplementsRunOnce
<1>1. Init => Once!Init
  BY DEF Init, Once!Init, NoRow, OutcomeOf
<1>2. Init => BoundOnlyIfCommitted
  BY DEF Init, BoundOnlyIfCommitted, NoRow
<1>3. Spec => []BoundOnlyIfCommitted
  BY <1>2, TypeCorrect, BoundStep, PTL DEF Spec
<1>4. QED
  BY <1>1, <1>3, TypeCorrect, LedgerAgreesWithHistory, RefinementStep, PTL
     DEF Spec, ImplementsRunOnce, Once!Spec
=============================================================================
