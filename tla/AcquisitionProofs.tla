------------------------- MODULE AcquisitionProofs -------------------------
(***************************************************************************)
(* Theorems about Acquisition for any number of callers, requests,         *)
(* providers and slots, and any deadlines.                                 *)
(*                                                                         *)
(* Three inductive invariants, each on top of the types: the slots add up; *)
(* a flight has one leader, who alone writes its results (Led), so that    *)
(* what was collected stays in time (InTime); and the flight that leads a  *)
(* request is the one in the map, not older than the cache (Mapped).       *)
(***************************************************************************)
EXTENDS Acquisition, FiniteSetTheorems, SequenceTheorems, TLAPS

\* The callers that lead a flight.
Leading == {"start", "dispatch", "providers", "cache", "settle", "signal"}

\* The calls counted by Call leave room for the flights they may yet lead.
Budget == Len(flights) + Cardinality(Undecided) <= MaxFlights

Typed ==
    /\ TypeOK /\ Budget
    /\ \A c \in Callers : caller[c].pc \in Leading => caller[c].flight \in 1..Len(flights)

----------------------------------------------------------------------------
(* The effect of the assignments the actions are made of.                  *)

\* Only the record of c changes, to v.
Becomes(c, v) ==
    /\ caller' \in [Callers -> Caller] /\ caller'[c] = v
    /\ \A d \in Callers : d # c => caller'[d] = caller[d]

\* Setting the record of c leaves every other record alone.
LEMMA CallerEffect ==
    ASSUME TypeOK, NEW c \in Callers, NEW v \in Caller, caller' = [caller EXCEPT ![c] = v]
    PROVE  Becomes(c, v)
BY DEF TypeOK, Becomes

\* c goes on to pc, with the request and the flight it had.
Goes(c, pc) ==
    /\ caller' \in [Callers -> Caller]
    /\ caller'[c].pc = pc /\ caller'[c].fp = caller[c].fp
    /\ caller'[c].flight = caller[c].flight
    /\ \A d \in Callers : d # c => caller'[d] = caller[d]

Pcs == {"idle", "lookup", "join", "wait", "start", "dispatch",
        "providers", "cache", "settle", "signal"}

\* Goto moves c and changes nothing else of its record.
LEMMA GotoEffect ==
    ASSUME TypeOK, NEW c \in Callers, NEW pc \in Pcs, Goto(c, pc)
    PROVE  Goes(c, pc)
<1> DEFINE v == [caller[c] EXCEPT !.pc = pc]
<1>1. /\ v \in Caller /\ v.pc = pc /\ v.fp = caller[c].fp
      /\ v.flight = caller[c].flight
  BY DEF TypeOK, Caller, Pcs
<1>2. caller' = [caller EXCEPT ![c] = v]
  BY DEF Goto
<1> HIDE DEF v
<1> QED BY <1>1, <1>2, CallerEffect DEF Becomes, Goes

\* An answered call is idle again.
LEMMA AnswerEffect ==
    ASSUME TypeOK, NEW c \in Callers, NEW reply \in Flights, Answer(c, reply)
    PROVE  Goes(c, "idle")
<1> DEFINE v == [caller[c] EXCEPT !.pc = "idle", !.reply = reply]
<1>1. /\ v \in Caller /\ v.pc = "idle" /\ v.fp = caller[c].fp
      /\ v.flight = caller[c].flight
  BY DEF TypeOK, Caller
<1>2. caller' = [caller EXCEPT ![c] = v]
  BY DEF Answer
<1> HIDE DEF v
<1> QED BY <1>1, <1>2, CallerEffect DEF Becomes, Goes

\* Only the flight f changes, to v.
FlightSet(f, v) ==
    /\ flights' \in Seq(Flight) /\ Len(flights') = Len(flights)
    /\ flights'[f] = v
    /\ \A g \in 1..Len(flights) : g # f => flights'[g] = flights[g]

\* Setting the record of f leaves every other flight alone.
LEMMA FlightEffect ==
    ASSUME TypeOK, NEW f \in 1..Len(flights), NEW v \in Flight,
           flights' = [flights EXCEPT ![f] = v]
    PROVE  FlightSet(f, v)
<1>1. flights \in Seq(Flight)
  BY DEF TypeOK
<1> DEFINE new == [flights EXCEPT ![f] = v]
<1>2. /\ new \in Seq(Flight) /\ Len(new) = Len(flights)
      /\ \A j \in 1..Len(flights) : new[j] = IF j = f THEN v ELSE flights[j]
  BY <1>1, ExceptSeq
<1>3. flights' = new
  OBVIOUS
<1> HIDE DEF new
<1> QED BY <1>2, <1>3 DEF FlightSet

\* A flight that was begun is well typed.
LEMMA FlightIs ==
    ASSUME TypeOK, NEW f \in 1..Len(flights)
    PROVE  /\ flights[f] \in Flight
           /\ flights[f].result \in [Providers -> Results]
<1>1. flights[f] \in Flight
  BY DEF TypeOK
<1> QED BY <1>1 DEF Flight

\* One result of f is set, the rest of the flight stays.
ResultSet(f, p, result) ==
    /\ flights' \in Seq(Flight) /\ Len(flights') = Len(flights)
    /\ \A g \in 1..Len(flights) :
          /\ flights'[g].began = flights[g].began
          /\ flights'[g].dispatched = flights[g].dispatched
          /\ \A q \in Providers : flights'[g].result[q] =
                IF g = f /\ q = p THEN result ELSE flights[g].result[q]

\* Setting one result of f leaves every other result alone.
LEMMA ResultEffect ==
    ASSUME TypeOK, NEW f \in 1..Len(flights), NEW p \in Providers,
           NEW result \in Results, SetResult(f, p, result)
    PROVE  ResultSet(f, p, result)
<1> DEFINE rs == [flights[f].result EXCEPT ![p] = result]
           v == [flights[f] EXCEPT !.result = rs]
<1>1. flights[f] \in Flight /\ flights[f].result \in [Providers -> Results]
  BY FlightIs
<1>2. /\ rs \in [Providers -> Results] /\ rs[p] = result
      /\ \A q \in Providers : q # p => rs[q] = flights[f].result[q]
  BY <1>1
<1>3. flights' = [flights EXCEPT ![f] = v]
  BY DEF SetResult
<1> HIDE DEF rs
<1>4. /\ v \in Flight /\ v.result = rs /\ v.began = flights[f].began
      /\ v.dispatched = flights[f].dispatched
  BY <1>1, <1>2 DEF Flight
<1> HIDE DEF v
<1>5. FlightSet(f, v)
  BY <1>3, <1>4, FlightEffect
<1> QED BY <1>2, <1>4, <1>5 DEF FlightSet, ResultSet

\* The results and the deadlines of the flights stay.
ResultsKept ==
    /\ flights' \in Seq(Flight) /\ Len(flights') = Len(flights)
    /\ \A g \in 1..Len(flights) :
          /\ flights'[g].began = flights[g].began
          /\ flights'[g].dispatched = flights[g].dispatched
          /\ flights'[g].result = flights[g].result

\* Noting an error or the end changes no result.
LEMMA EndEffect ==
    ASSUME TypeOK, NEW f \in 1..Len(flights),
           \/ Fails(f)
           \/ \E b \in BOOLEAN : flights' = [flights EXCEPT ![f].done = b]
    PROVE  ResultsKept
<1>1. flights[f] \in Flight
  BY FlightIs
<1>2. PICK v \in Flight : /\ flights' = [flights EXCEPT ![f] = v]
                          /\ v.began = flights[f].began
                          /\ v.dispatched = flights[f].dispatched
                          /\ v.result = flights[f].result
  <2>1. CASE Fails(f)
    <3> DEFINE v == [flights[f] EXCEPT !.error = TRUE]
    <3>1. v \in Flight /\ v.began = flights[f].began
          /\ v.dispatched = flights[f].dispatched /\ v.result = flights[f].result
      BY <1>1 DEF Flight
    <3>2. flights' = [flights EXCEPT ![f] = v]
      BY <2>1 DEF Fails
    <3> QED BY <3>1, <3>2
  <2>2. ASSUME NEW b \in BOOLEAN, flights' = [flights EXCEPT ![f].done = b]
        PROVE  \E v \in Flight : /\ flights' = [flights EXCEPT ![f] = v]
                                 /\ v.began = flights[f].began
                                 /\ v.dispatched = flights[f].dispatched
                                 /\ v.result = flights[f].result
    <3> DEFINE v == [flights[f] EXCEPT !.done = b]
    <3>1. v \in Flight /\ v.began = flights[f].began
          /\ v.dispatched = flights[f].dispatched /\ v.result = flights[f].result
      BY <1>1 DEF Flight
    <3>2. flights' = [flights EXCEPT ![f] = v]
      BY <2>2
    <3> QED BY <3>1, <3>2
  <2> QED BY <2>1, <2>2
<1>3. FlightSet(f, v)
  BY <1>2, FlightEffect
<1> QED BY <1>2, <1>3 DEF FlightSet, ResultsKept

\* One of the two times of a flight is taken.
TimeTaken(f) ==
    /\ flights' \in Seq(Flight) /\ Len(flights') = Len(flights)
    /\ \A g \in 1..Len(flights) :
          /\ flights'[g].result = flights[g].result
          /\ g # f => /\ flights'[g].began = flights[g].began
                      /\ flights'[g].dispatched = flights[g].dispatched

\* Noting a time changes no result.
LEMMA TimeEffect ==
    ASSUME TypeOK, NEW f \in 1..Len(flights),
           \/ flights' = [flights EXCEPT ![f].began = clock]
           \/ flights' = [flights EXCEPT ![f].dispatched = clock]
    PROVE  TimeTaken(f)
<1>1. flights[f] \in Flight /\ clock \in Times
  BY FlightIs DEF TypeOK
<1> DEFINE b == [flights[f] EXCEPT !.began = clock]
           d == [flights[f] EXCEPT !.dispatched = clock]
<1>2. /\ b \in Flight /\ b.result = flights[f].result
      /\ d \in Flight /\ d.result = flights[f].result
  BY <1>1 DEF Flight
<1>3. flights' = [flights EXCEPT ![f] = b] \/ flights' = [flights EXCEPT ![f] = d]
  OBVIOUS
<1> HIDE DEF b, d
<1>4. FlightSet(f, b) \/ FlightSet(f, d)
  BY <1>2, <1>3, FlightEffect
<1> QED BY <1>2, <1>4 DEF FlightSet, TimeTaken

\* A worker's record becomes v.
WorkSet(f, p, v) ==
    /\ work' \in [1..MaxFlights -> [Providers -> Work]]
    /\ work'[f][p] = v
    /\ \A g \in 1..MaxFlights, q \in Providers :
          <<g, q>> # <<f, p>> => work'[g][q] = work[g][q]

\* Setting one piece of work leaves every other alone.
LEMMA WorkEffect ==
    ASSUME TypeOK, NEW f \in 1..MaxFlights, NEW p \in Providers, NEW v \in Work,
           work' = [work EXCEPT ![f][p] = v]
    PROVE  WorkSet(f, p, v)
<1> DEFINE ws == [work[f] EXCEPT ![p] = v]
<1>1. /\ ws \in [Providers -> Work] /\ ws[p] = v
      /\ \A q \in Providers : q # p => ws[q] = work[f][q]
  BY DEF TypeOK
<1>2. work' = [work EXCEPT ![f] = ws]
  OBVIOUS
<1> HIDE DEF ws
<1> QED BY <1>1, <1>2 DEF TypeOK, WorkSet

States == {"none", "queued", "running", "captured", "published", "released"}

\* A new state of a piece of work keeps the time it was done at.
LEMMA StateEffect ==
    ASSUME TypeOK, NEW f \in 1..MaxFlights, NEW p \in Providers, NEW s \in States,
           work' = [work EXCEPT ![f][p].state = s]
    PROVE  WorkSet(f, p, [state |-> s, at |-> work[f][p].at])
<1> DEFINE v == [state |-> s, at |-> work[f][p].at]
<1>1. work[f][p] \in Work
  BY DEF TypeOK
<1>2. v \in Work /\ v = [work[f][p] EXCEPT !.state = s]
  BY <1>1 DEF Work, States
<1>3. work' = [work EXCEPT ![f][p] = v]
  BY <1>2
<1> HIDE DEF v
<1>4. WorkSet(f, p, v)
  BY <1>2, <1>3, WorkEffect
<1> QED BY <1>4 DEF v

----------------------------------------------------------------------------
(* Types.                                                                  *)

\* The bounds are naturals.
LEMMA Numbers ==
    /\ Sources \in Nat /\ Capacity \in Nat /\ Ttl \in Nat /\ MaxTime \in Nat
    /\ PerTimeout \in Nat /\ TotalBudget \in Nat /\ MaxFlights \in Nat
BY AcquisitionAssumption DEF AcquisitionAssumption

\* A step of c that leaves it decided frees its room, if it had any.
LEMMA Leaves ==
    ASSUME TypeOK, NEW c \in Callers, NEW pc \in Pcs, Goes(c, pc),
           pc \notin {"lookup", "join"}
    PROVE  /\ Cardinality(Undecided) \in Nat /\ Cardinality(Undecided') \in Nat
           /\ Cardinality(Undecided') =
                IF c \in Undecided THEN Cardinality(Undecided) - 1
                ELSE Cardinality(Undecided)
<1>1. Undecided' = Undecided \ {c}
  BY DEF Goes, Undecided
<1>2. IsFiniteSet(Undecided)
  BY FS_Subset, AcquisitionAssumption DEF Undecided, AcquisitionAssumption
<1>3. IsFiniteSet(Undecided') /\ Cardinality(Undecided') =
         IF c \in Undecided THEN Cardinality(Undecided) - 1 ELSE Cardinality(Undecided)
  BY <1>1, <1>2, FS_RemoveElement
<1> QED BY <1>2, <1>3, FS_CardinalityType

\* The steps of a call that lead no flight keep what Typed says of callers.
LEMMA CallerTyped ==
    ASSUME Typed, NEW c \in Callers, NEW pc \in Pcs, Goes(c, pc),
           Len(flights') = Len(flights),
           \/ pc \notin {"lookup", "join"}
           \/ caller[c].pc = "lookup" /\ pc = "join",
           pc \in Leading => caller[c].pc \in Leading
    PROVE  /\ caller' \in [Callers -> Caller] /\ Budget'
           /\ \A d \in Callers : caller'[d].pc \in Leading =>
                                  caller'[d].flight \in 1..Len(flights')
<1>1. caller' \in [Callers -> Caller]
  BY DEF Goes
<1>2. \A d \in Callers : caller'[d].pc \in Leading =>
                          caller'[d].flight \in 1..Len(flights')
  BY DEF Typed, Goes
<1>3. Budget'
  <2>1. CASE pc \notin {"lookup", "join"}
    <3>1. Len(flights) \in Nat /\ MaxFlights \in Nat
      BY Numbers DEF Typed, TypeOK
    <3>2. /\ Cardinality(Undecided) \in Nat /\ Cardinality(Undecided') \in Nat
          /\ Cardinality(Undecided') <= Cardinality(Undecided)
      BY <2>1, Leaves DEF Typed
    <3> QED BY <3>1, <3>2 DEF Typed, Budget
  <2>2. CASE caller[c].pc = "lookup" /\ pc = "join"
    <3>1. Undecided' = Undecided
      BY <2>2 DEF Goes, Undecided
    <3> QED BY <3>1 DEF Typed, Budget
  <2> QED BY <2>1, <2>2
<1> QED BY <1>1, <1>2, <1>3

\* And so does everything that changes neither callers nor the number of flights.
LEMMA OthersTyped ==
    ASSUME Typed, UNCHANGED caller, Len(flights') = Len(flights)
    PROVE  /\ Budget'
           /\ \A d \in Callers : caller'[d].pc \in Leading =>
                                  caller'[d].flight \in 1..Len(flights')
BY DEF Typed, Budget, Undecided

\* A new flight is the last, with no results, and its caller leads it.
LEMMA LeadTyped ==
    ASSUME Typed, NEW c \in Callers, Lead(c)
    PROVE  /\ Typed'
           /\ Len(flights') = Len(flights) + 1 /\ Len(flights') <= MaxFlights
           /\ \A f \in 1..Len(flights) : flights'[f] = flights[f]
           /\ flights'[Len(flights')].result = NoResults
           /\ caller'[c].pc = "start" /\ caller'[c].fp = caller[c].fp
           /\ caller'[c].flight = Len(flights')
           /\ \A d \in Callers : d # c => caller'[d] = caller[d]
<1> DEFINE fp == caller[c].fp
           n == Len(flights) + 1
           new == [fp |-> fp, began |-> 0, dispatched |-> 0,
                   result |-> NoResults, error |-> FALSE, done |-> FALSE]
           v == [caller[c] EXCEPT !.pc = "start", !.flight = n]
<1>1. /\ caller[c] \in Caller /\ fp \in Fingerprints /\ caller[c].pc = "join"
      /\ flights \in Seq(Flight) /\ Len(flights) \in Nat
  BY DEF Typed, TypeOK, Caller, Lead
<1>2. /\ Cardinality(Undecided) \in Nat /\ Cardinality(Undecided) # 0
      /\ IsFiniteSet(Undecided) /\ c \in Undecided
  <2>1. c \in Undecided
    BY <1>1 DEF Undecided
  <2>2. IsFiniteSet(Undecided)
    BY FS_Subset, AcquisitionAssumption DEF Undecided, AcquisitionAssumption
  <2> QED BY <2>1, <2>2, FS_CardinalityType, FS_EmptySet
<1>3. n <= MaxFlights
  BY <1>1, <1>2, Numbers DEF Typed, Budget
<1>4. new \in Flight /\ new.result = NoResults
  BY <1>1, Numbers DEF Flight, NoResults, Results, Times
<1>5. /\ v \in Caller /\ v.pc = "start" /\ v.flight = n /\ v.fp = fp
  <2>1. n \in Flights
    BY <1>1, <1>3, Numbers DEF Flights
  <2> HIDE DEF n
  <2> QED BY <1>1, <2>1 DEF Caller
<1>6. /\ flights' = Append(flights, new) /\ caller' = [caller EXCEPT ![c] = v]
      /\ inflight' = [inflight EXCEPT ![fp] = n]
      /\ UNCHANGED <<clock, cache, store, work, capacity, threads, closed>>
  BY DEF Lead, pool
<1> HIDE DEF new, v, fp
<1>7. /\ flights' \in Seq(Flight) /\ Len(flights') = n /\ flights'[n] = new
      /\ \A f \in 1..Len(flights) : flights'[f] = flights[f]
  BY <1>1, <1>4, <1>6
<1>8. Becomes(c, v)
  BY <1>5, <1>6, CallerEffect DEF Typed
<1>9. TypeOK'
  BY <1>1, <1>3, <1>6, <1>7, <1>8 DEF Typed, TypeOK, Becomes
<1>10. \A d \in Callers : caller'[d].pc \in Leading => caller'[d].flight \in 1..Len(flights')
  BY <1>1, <1>5, <1>7, <1>8 DEF Typed, Becomes
<1>11. Budget'
  <2>1. Undecided' = Undecided \ {c}
    BY <1>5, <1>8 DEF Becomes, Undecided
  <2>2. Cardinality(Undecided') = Cardinality(Undecided) - 1
    BY <1>2, <2>1, FS_RemoveElement
  <2> QED BY <1>1, <1>2, <1>7, <2>2, Numbers DEF Typed, Budget
<1> QED BY <1>3, <1>4, <1>5, <1>7, <1>8, <1>9, <1>10, <1>11 DEF Typed, Becomes, fp

\* Where each step of a call goes.
LEMMA Moves ==
    ASSUME Typed, NEW c \in Callers, CallerStep(c), ~Lead(c)
    PROVE  \/ Lookup(c) /\ (Goes(c, "join") \/ (Goes(c, "idle") /\ UNCHANGED cache))
           \/ Join(c) /\ Becomes(c, [caller[c] EXCEPT !.pc = "wait",
                                        !.flight = inflight[caller[c].fp]])
           \/ Wake(c) /\ Goes(c, "idle")
           \/ Start(c) /\ Goes(c, "dispatch")
           \/ Dispatch(c) /\ Goes(c, "providers")
           \/ Admit(c) /\ UNCHANGED caller
           \/ Collect(c) /\ UNCHANGED caller
           \/ Persist(c) /\ Goes(c, "cache") /\ UNCHANGED flights
           \/ Persist(c) /\ Goes(c, "settle") /\ UNCHANGED store
           \/ CachePut(c) /\ Goes(c, "settle")
           \/ Settle(c) /\ Goes(c, "signal")
           \/ Signal(c) /\ Goes(c, "idle")
<1>0. /\ TypeOK /\ caller[c] \in Caller /\ caller[c].flight \in Flights
      /\ 0 \in Flights /\ caller[c].fp \in Fingerprints
  BY Numbers DEF Typed, TypeOK, Caller, Flights
<1>1. CASE Lookup(c)
  <2>1. cache[caller[c].fp].flight \in Flights
    BY <1>0 DEF TypeOK
  <2> QED BY <1>0, <1>1, <2>1, GotoEffect, AnswerEffect DEF Lookup, Pcs
<1>2. CASE Join(c)
  <2> DEFINE f == inflight[caller[c].fp]
             v == [caller[c] EXCEPT !.pc = "wait", !.flight = f]
  <2>1. f \in Flights
    BY <1>0, Numbers DEF TypeOK, Flights
  <2> HIDE DEF f
  <2>2. v \in Caller
    BY <1>0, <2>1 DEF Caller
  <2>3. caller' = [caller EXCEPT ![c] = v]
    BY <1>2 DEF Join, f
  <2> HIDE DEF v
  <2>4. Becomes(c, v)
    BY <1>0, <2>2, <2>3, CallerEffect
  <2> QED BY <1>2, <2>4 DEF v, f
<1>3. CASE Wake(c) \/ Signal(c)
  <2>1. PICK reply \in Flights : Answer(c, reply)
    BY <1>0, <1>3 DEF Wake, Signal
  <2> QED BY <1>0, <1>3, <2>1, AnswerEffect
<1>4. CASE Start(c) \/ Dispatch(c) \/ CachePut(c) \/ Settle(c)
  BY <1>0, <1>4, GotoEffect DEF Start, Dispatch, CachePut, Settle, Pcs
<1>5. CASE Persist(c)
  BY <1>0, <1>5, GotoEffect DEF Persist, Pcs
<1>6. CASE Admit(c) \/ Collect(c)
  BY <1>6 DEF Admit, Collect
<1> QED BY <1>1, <1>2, <1>3, <1>4, <1>5, <1>6 DEF CallerStep

\* A wait for another's flight is a step of a call, too.
LEMMA JoinTyped ==
    ASSUME Typed, NEW c \in Callers, Join(c)
    PROVE  Typed'
<1> DEFINE v == [caller[c] EXCEPT !.pc = "wait", !.flight = inflight[caller[c].fp]]
<1>1. Becomes(c, v) /\ v.pc = "wait"
  <2>1. v.pc = "wait"
    BY DEF Typed, TypeOK, Caller
  <2>2. caller[c].pc = "join"
    BY DEF Join
  <2> QED BY <2>1, <2>2, Moves
          DEF CallerStep, Lead, MayLead, Join, Lookup, Wake, Start, Dispatch, Admit,
              Collect, Persist, CachePut, Settle, Signal
<1> HIDE DEF v
<1>2. UNCHANGED <<clock, shared, flights, pool>>
  BY DEF Join
<1>3. TypeOK'
  BY <1>1, <1>2 DEF Typed, TypeOK, Becomes, shared, pool
<1>4. Undecided' = Undecided \ {c}
  BY <1>1 DEF Becomes, Undecided
<1>5. Cardinality(Undecided') <= Cardinality(Undecided)
      /\ Cardinality(Undecided') \in Nat /\ Cardinality(Undecided) \in Nat
  <2>1. IsFiniteSet(Undecided)
    BY FS_Subset, AcquisitionAssumption DEF Undecided, AcquisitionAssumption
  <2> QED BY <1>4, <2>1, FS_Subset, FS_CardinalityType
<1>6. Budget'
  <2>1. flights' = flights /\ Len(flights) \in Nat
    BY <1>2 DEF Typed, TypeOK
  <2> QED BY <1>5, <2>1, Numbers DEF Typed, Budget
<1>7. \A d \in Callers : caller'[d].pc \in Leading => caller'[d].flight \in 1..Len(flights')
  BY <1>1, <1>2 DEF Typed, Becomes, Leading
<1> QED BY <1>3, <1>6, <1>7 DEF Typed

\* What an admission does to the results and to the pool.
LEMMA AdmitCases ==
    ASSUME NEW c \in Callers, Admit(c)
    PROVE  \E p \in Providers :
             /\ p \in NotAdmitted(caller[c].flight)
             /\ \/ UNCHANGED flights
                \/ \E result \in {"closed", "exhausted"} :
                      SetResult(caller[c].flight, p, result)
             /\ \/ UNCHANGED pool
                \/ /\ work' = [work EXCEPT ![caller[c].flight][p].state = "queued"]
                   /\ \/ capacity' = capacity /\ SetResult(caller[c].flight, p, "closed")
                      \/ capacity > 0 /\ capacity' = capacity - 1
                   /\ threads' = threads \/ threads' \in 1..Capacity
BY DEF Admit, First

\* A step of a caller that makes no flight keeps the types.
LEMMA CallerStepTyped ==
    ASSUME Typed, NEW c \in Callers, CallerStep(c), ~Lead(c), ~Join(c)
    PROVE  Typed'
<1> DEFINE f == caller[c].flight
           fp == caller[c].fp
<1>0. /\ TypeOK /\ fp \in Fingerprints /\ f \in Flights
      /\ caller[c].pc \in Leading => f \in 1..Len(flights)
  BY DEF Typed, TypeOK, Caller
<1>1. CASE Lookup(c)
  <2>1. flights' = flights /\ UNCHANGED <<clock, store, inflight, pool>>
    BY <1>1 DEF Lookup
  <2>2. cache' \in [Fingerprints -> [flight : Flights, expires : 0..(MaxTime + Ttl)]]
    <3>1. [flight |-> 0, expires |-> 0] \in [flight : Flights, expires : 0..(MaxTime + Ttl)]
      BY Numbers DEF Flights
    <3>2. cache' = cache \/ cache' = [cache EXCEPT ![fp] = [flight |-> 0, expires |-> 0]]
      BY <1>1 DEF Lookup
    <3> HIDE DEF fp
    <3> QED BY <1>0, <3>1, <3>2 DEF TypeOK
  <2>3. \E pc \in {"idle", "join"} : Goes(c, pc)
    <3>1. cache[fp].flight \in Flights /\ 0 \in Flights
      BY <1>0, Numbers DEF TypeOK, Flights
    <3>2. Goto(c, "join") \/ \E reply \in {cache[fp].flight, 0} : Answer(c, reply)
      BY <1>1 DEF Lookup
    <3>3. "join" \in Pcs
      BY DEF Pcs
    <3> HIDE DEF fp
    <3> QED BY <1>0, <3>1, <3>2, <3>3, GotoEffect, AnswerEffect
  <2>4. /\ caller' \in [Callers -> Caller] /\ Budget'
        /\ \A d \in Callers : caller'[d].pc \in Leading => caller'[d].flight \in 1..Len(flights')
    BY <1>1, <2>1, <2>3, CallerTyped DEF Lookup, Pcs, Leading
  <2> QED BY <2>1, <2>2, <2>4 DEF Typed, TypeOK, pool
<1>2. CASE Wake(c)
  <2>1. Goes(c, "idle") /\ UNCHANGED <<clock, shared, flights, pool>>
    BY <1>2, Moves DEF Wake, Lookup, Join, Start, Dispatch, Admit, Collect, Persist,
                       CachePut, Settle, Signal
  <2>2. /\ caller' \in [Callers -> Caller] /\ Budget'
        /\ \A d \in Callers : caller'[d].pc \in Leading => caller'[d].flight \in 1..Len(flights')
    BY <2>1, CallerTyped DEF Pcs, Leading
  <2> QED BY <2>1, <2>2 DEF Typed, TypeOK, shared, pool
<1>3. CASE Start(c) \/ Dispatch(c)
  <2>1. (\E pc \in {"dispatch", "providers"} : Goes(c, pc)) /\ UNCHANGED <<clock, shared, pool>>
    BY <1>3, <1>0, GotoEffect DEF Start, Dispatch, Pcs
  <2>2. caller[c].pc \in Leading /\ TimeTaken(f)
    BY <1>0, <1>3, TimeEffect DEF Start, Dispatch, Leading
  <2>3. flights' \in Seq(Flight) /\ Len(flights') = Len(flights)
    BY <2>2 DEF TimeTaken
  <2>4. /\ caller' \in [Callers -> Caller] /\ Budget'
        /\ \A d \in Callers : caller'[d].pc \in Leading => caller'[d].flight \in 1..Len(flights')
    BY <2>1, <2>2, <2>3, CallerTyped DEF Pcs
  <2> QED BY <2>1, <2>3, <2>4 DEF Typed, TypeOK, shared, pool
<1>4. CASE Admit(c)
  <2>1. /\ UNCHANGED <<clock, shared, caller, closed>> /\ f \in 1..Len(flights)
        /\ f \in 1..MaxFlights
    BY <1>0, <1>4, Numbers DEF Admit, Leading, pool, Typed, TypeOK
  <2>2. PICK p \in Providers :
          /\ \/ UNCHANGED flights
             \/ \E result \in {"closed", "exhausted"} : SetResult(f, p, result)
          /\ \/ UNCHANGED pool
             \/ /\ work' = [work EXCEPT ![f][p].state = "queued"]
                /\ capacity' = capacity \/ (capacity > 0 /\ capacity' = capacity - 1)
                /\ threads' = threads \/ threads' \in 1..Capacity
    BY <1>4, AdmitCases
  <2>3. flights' \in Seq(Flight) /\ Len(flights') = Len(flights)
    BY <1>0, <2>1, <2>2, ResultEffect DEF Results, ResultSet, TypeOK
  <2>4. /\ work' \in [1..MaxFlights -> [Providers -> Work]]
        /\ capacity' \in 0..Capacity /\ threads' \in 0..Capacity
    <3>1. CASE UNCHANGED pool
      BY <1>0, <3>1 DEF TypeOK, pool
    <3>2. CASE /\ work' = [work EXCEPT ![f][p].state = "queued"]
               /\ capacity' = capacity \/ (capacity > 0 /\ capacity' = capacity - 1)
               /\ threads' = threads \/ threads' \in 1..Capacity
      <4>1. work' \in [1..MaxFlights -> [Providers -> Work]]
        BY <1>0, <2>1, <3>2, StateEffect DEF WorkSet, States
      <4>2. capacity' \in 0..Capacity /\ threads' \in 0..Capacity
        BY <1>0, <3>2, Numbers DEF TypeOK
      <4> QED BY <4>1, <4>2
    <3> QED BY <2>2, <3>1, <3>2
  <2> QED BY <2>1, <2>3, <2>4, OthersTyped DEF Typed, TypeOK, shared
<1>5. CASE Collect(c)
  <2>1. /\ UNCHANGED <<clock, shared, caller, closed, work, capacity, threads>>
        /\ f \in 1..Len(flights)
    BY <1>0, <1>5 DEF Collect, Leading, KeepsSlot
  <2>2. PICK p \in Providers, result \in {"done", "timeout"} : SetResult(f, p, result)
    BY <1>5 DEF Collect
  <2>3. flights' \in Seq(Flight) /\ Len(flights') = Len(flights)
    BY <1>0, <2>1, <2>2, ResultEffect DEF Results, ResultSet
  <2> QED BY <2>1, <2>3, OthersTyped DEF Typed, TypeOK, shared
<1>6. CASE Persist(c)
  <2>1. /\ (\E pc \in {"cache", "settle"} : Goes(c, pc)) /\ caller[c].pc = "providers"
        /\ UNCHANGED <<clock, cache, inflight, pool>>
    BY <1>0, <1>6, GotoEffect DEF Persist, Pcs
  <2>2. f \in 1..MaxFlights /\ f \in 1..Len(flights)
    BY <1>0, <2>1, Numbers DEF Leading, Typed, TypeOK
  <2>3. flights' \in Seq(Flight) /\ Len(flights') = Len(flights) /\ store' \subseteq 1..MaxFlights
    BY <1>0, <1>6, <2>2, EndEffect DEF Persist, ResultsKept, TypeOK
  <2>4. /\ caller' \in [Callers -> Caller] /\ Budget'
        /\ \A d \in Callers : caller'[d].pc \in Leading => caller'[d].flight \in 1..Len(flights')
    BY <2>1, <2>3, CallerTyped DEF Pcs, Leading
  <2> QED BY <2>1, <2>3, <2>4 DEF Typed, TypeOK, pool
<1>7. CASE CachePut(c)
  <2>1. /\ Goes(c, "settle") /\ caller[c].pc = "cache"
        /\ UNCHANGED <<clock, store, inflight, flights, pool>>
    BY <1>0, <1>7, GotoEffect DEF CachePut, Pcs
  <2>2. clock + Ttl \in 0..(MaxTime + Ttl)
    BY <1>0, Numbers DEF TypeOK, Times
  <2>3. cache' \in [Fingerprints -> [flight : Flights, expires : 0..(MaxTime + Ttl)]]
    BY <1>0, <1>7, <2>2 DEF CachePut, TypeOK
  <2>4. /\ caller' \in [Callers -> Caller] /\ Budget'
        /\ \A d \in Callers : caller'[d].pc \in Leading => caller'[d].flight \in 1..Len(flights')
    BY <2>1, CallerTyped DEF Pcs, Leading
  <2> QED BY <2>1, <2>3, <2>4 DEF Typed, TypeOK, pool
<1>8. CASE Settle(c)
  <2>1. /\ Goes(c, "signal") /\ caller[c].pc = "settle"
        /\ inflight' = [inflight EXCEPT ![fp] = 0]
        /\ UNCHANGED <<clock, cache, store, flights, pool>>
    BY <1>0, <1>8, GotoEffect DEF Settle, Pcs
  <2>2. inflight' \in [Fingerprints -> 0..Len(flights')]
    BY <1>0, <2>1 DEF TypeOK
  <2>3. /\ caller' \in [Callers -> Caller] /\ Budget'
        /\ \A d \in Callers : caller'[d].pc \in Leading => caller'[d].flight \in 1..Len(flights')
    BY <2>1, CallerTyped DEF Pcs, Leading
  <2> QED BY <2>1, <2>2, <2>3 DEF Typed, TypeOK, pool
<1>9. CASE Signal(c)
  <2>1. /\ Goes(c, "idle") /\ caller[c].pc = "signal" /\ UNCHANGED <<clock, shared, pool>>
    BY <1>9, Moves DEF Wake, Lookup, Join, Start, Dispatch, Admit, Collect, Persist,
                       CachePut, Settle, Signal
  <2>2. flights' \in Seq(Flight) /\ Len(flights') = Len(flights)
    BY <1>0, <1>9, <2>1, EndEffect DEF Signal, Signals, ResultsKept, Leading
  <2>3. /\ caller' \in [Callers -> Caller] /\ Budget'
        /\ \A d \in Callers : caller'[d].pc \in Leading => caller'[d].flight \in 1..Len(flights')
    BY <2>1, <2>2, CallerTyped DEF Pcs, Leading
  <2> QED BY <2>1, <2>2, <2>3 DEF Typed, TypeOK, shared, pool
<1> QED BY <1>1, <1>2, <1>3, <1>4, <1>5, <1>6, <1>7, <1>8, <1>9 DEF CallerStep

\* A call takes room for the flight it may lead.
LEMMA CallTyped ==
    ASSUME Typed, NEW c \in Callers, NEW fp \in Fingerprints, Call(c, fp)
    PROVE  /\ Typed' /\ caller'[c].pc = "lookup"
           /\ \A d \in Callers : d # c => caller'[d] = caller[d]
<1> DEFINE v == [pc |-> "lookup", fp |-> fp, flight |-> 0, reply |-> 0]
<1>1. v \in Caller /\ v.pc = "lookup"
  BY Numbers DEF Caller, Flights
<1>2. caller' = [caller EXCEPT ![c] = v] /\ caller[c].pc = "idle"
      /\ UNCHANGED <<clock, shared, flights, pool>>
  BY DEF Call
<1> HIDE DEF v
<1>3. Becomes(c, v)
  BY <1>1, <1>2, CallerEffect DEF Typed
<1>4. TypeOK'
  BY <1>2, <1>3 DEF Typed, TypeOK, Becomes, shared, pool
<1>5. Budget'
  <2>1. Undecided' = Undecided \union {c} /\ c \notin Undecided
    BY <1>1, <1>2, <1>3 DEF Becomes, Undecided
  <2>2. IsFiniteSet(Undecided) /\ Cardinality(Undecided) \in Nat
    BY FS_Subset, FS_CardinalityType, AcquisitionAssumption
       DEF Undecided, AcquisitionAssumption
  <2>3. Cardinality(Undecided') = Cardinality(Undecided) + 1
    BY <2>1, <2>2, FS_AddElement
  <2>4. Len(flights) + Cardinality(Undecided) < MaxFlights /\ Len(flights) \in Nat
    BY DEF Call, Typed, TypeOK
  <2> QED BY <1>2, <2>2, <2>3, <2>4, Numbers DEF Budget
<1>6. \A d \in Callers : caller'[d].pc \in Leading => caller'[d].flight \in 1..Len(flights')
  BY <1>1, <1>2, <1>3 DEF Typed, Becomes, Leading
<1> QED BY <1>1, <1>3, <1>4, <1>5, <1>6 DEF Typed, Becomes

\* The states of a worker that holds a slot.
Holding == {"queued", "running", "captured", "published"}

\* What a worker does: it keeps its slot or gives it back, and what it
\* completed stays.
LEMMA WorkerMoves ==
    ASSUME Typed, NEW f \in 1..MaxFlights, NEW p \in Providers,
           WorkerStep(f, p) \/ Return(f, p)
    PROVE  /\ UNCHANGED <<clock, shared, flights, threads, closed, caller>>
           /\ \E v \in Work :
                 /\ WorkSet(f, p, v)
                 /\ work[f][p].state \in Holding
                 /\ \/ v.state \in Holding /\ capacity' = capacity
                    \/ /\ v.state = "released"
                       /\ capacity' = IF capacity < Capacity THEN capacity + 1 ELSE capacity
                 /\ Completed(f, p) => /\ v.state \in {"published", "released"}
                                       /\ v.at = work[f][p].at
<1>0. TypeOK /\ work[f][p] \in Work /\ work[f][p].at \in Times /\ clock \in Times
  BY DEF Typed, TypeOK, Work
<1>1. CASE Run(f, p)
  <2> DEFINE v == [state |-> "running", at |-> work[f][p].at]
  <2>1. WorkSet(f, p, v)
    BY <1>0, <1>1, StateEffect DEF Run, WorkStep, States
  <2>2. v \in Work
    BY <1>0 DEF Work
  <2> QED BY <1>1, <2>1, <2>2 DEF Run, WorkStep, Holding, Completed
<1>2. CASE Publish(f, p)
  <2> DEFINE v == [state |-> "published", at |-> work[f][p].at]
  <2>1. WorkSet(f, p, v)
    BY <1>0, <1>2, StateEffect DEF Publish, WorkStep, States
  <2>2. v \in Work
    BY <1>0 DEF Work
  <2> QED BY <1>2, <2>1, <2>2 DEF Publish, WorkStep, Holding, Completed
<1>3. CASE Release(f, p)
  <2> DEFINE v == [state |-> "released", at |-> work[f][p].at]
  <2>1. WorkSet(f, p, v)
    BY <1>0, <1>3, StateEffect DEF Release, WorkStep, States
  <2>2. v \in Work
    BY <1>0 DEF Work
  <2> QED BY <1>3, <2>1, <2>2 DEF Release, WorkStep, Holding, Completed
<1>4. CASE Return(f, p)
  <2> DEFINE v == [state |-> "captured", at |-> clock]
  <2>1. v \in Work
    BY <1>0 DEF Work
  <2>2. WorkSet(f, p, v)
    BY <1>0, <1>4, <2>1, WorkEffect DEF Return
  <2> QED BY <1>4, <2>1, <2>2 DEF Return, Holding, Completed
<1> QED BY <1>1, <1>2, <1>3, <1>4 DEF WorkerStep

----------------------------------------------------------------------------
(* The slots.                                                              *)

\* The slots that are held can be counted.
LEMMA HeldFinite ==
    ASSUME TypeOK
    PROVE  IsFiniteSet(Held) /\ Cardinality(Held) \in Nat
<1>1. IsFiniteSet(1..MaxFlights) /\ IsFiniteSet(Providers)
  BY FS_Interval, Numbers DEF Providers
<1>2. IsFiniteSet((1..MaxFlights) \X Providers)
  BY <1>1, FS_Product
<1>3. IsFiniteSet(Held)
  BY <1>2, FS_Subset DEF Held
<1> QED BY <1>3, FS_CardinalityType

\* A worker takes a slot, keeps it, or gives it back.
LEMMA HeldBy ==
    ASSUME TypeOK, NEW f \in 1..MaxFlights, NEW p \in Providers, NEW v \in Work,
           WorkSet(f, p, v)
    PROVE  Held' = IF v.state \in Holding THEN Held \union {<<f, p>>} ELSE Held \ {<<f, p>>}
<1>1. ASSUME NEW g \in 1..MaxFlights, NEW q \in Providers
      PROVE  <<g, q>> \in Held' <=> IF <<g, q>> = <<f, p>> THEN v.state \in Holding
                                                         ELSE <<g, q>> \in Held
  BY DEF WorkSet, Held, Holding
<1>2. /\ Held \subseteq (1..MaxFlights) \X Providers
      /\ Held' \subseteq (1..MaxFlights) \X Providers
      /\ <<f, p>> \in (1..MaxFlights) \X Providers
  BY DEF Held
<1> QED BY <1>1, <1>2

\* The types and the slots are right at first.
LEMMA TypedInit == Init => Typed /\ SlotsConserved
<1> SUFFICES ASSUME Init PROVE Typed /\ SlotsConserved
  OBVIOUS
<1>1. PICK fp \in Fingerprints :
         caller = [c \in Callers |-> [pc |-> "idle", fp |-> fp, flight |-> 0, reply |-> 0]]
  BY DEF Init
<1>2. caller \in [Callers -> Caller] /\ \A c \in Callers : caller[c].pc = "idle"
  BY <1>1, Numbers DEF Caller, Flights
<1>3. flights = <<>> /\ flights \in Seq(Flight) /\ Len(flights) = 0
  BY DEF Init
<1>4. cache \in [Fingerprints -> [flight : Flights, expires : 0..(MaxTime + Ttl)]]
  BY Numbers DEF Init, Flights
<1>5. /\ work \in [1..MaxFlights -> [Providers -> Work]]
      /\ \A f \in 1..MaxFlights, p \in Providers : work[f][p].state = "none"
  BY Numbers DEF Init, Work, Times
<1>6. TypeOK
  <2>1. inflight \in [Fingerprints -> 0..Len(flights)]
    BY <1>3 DEF Init
  <2>2. /\ clock \in Times /\ capacity \in 0..Capacity /\ threads \in 0..Capacity
        /\ Len(flights) <= MaxFlights
    <3>1. clock = 0 /\ capacity = Capacity /\ threads = 0
      BY DEF Init
    <3> QED BY <1>3, <3>1, Numbers DEF Times
  <2>3. store \subseteq 1..MaxFlights /\ closed \in BOOLEAN
    BY DEF Init
  <2> QED BY <1>2, <1>3, <1>4, <1>5, <2>1, <2>2, <2>3 DEF TypeOK
<1>7. Undecided = {} /\ Held = {}
  BY <1>2, <1>5 DEF Undecided, Held
<1>8. Cardinality(Undecided) = 0 /\ Cardinality(Held) = 0
  BY <1>7, FS_EmptySet
<1> QED BY <1>2, <1>3, <1>6, <1>8, Numbers DEF Init, Typed, Budget, Leading, SlotsConserved

\* Every step keeps the types.
LEMMA TypedStep ==
    ASSUME Typed, [Next]_vars
    PROVE  Typed'
<1>1. CASE UNCHANGED vars
  <2>1. Undecided' = Undecided
    BY <1>1 DEF vars, Undecided
  <2> QED BY <1>1, <2>1 DEF vars, shared, pool, Typed, TypeOK, Budget
<1>2. ASSUME NEW c \in Callers, CallerStep(c)
      PROVE  Typed'
  BY <1>2, LeadTyped, JoinTyped, CallerStepTyped
<1>3. ASSUME NEW c \in Callers, NEW fp \in Fingerprints, Call(c, fp)
      PROVE  Typed'
  BY <1>3, CallTyped
<1>4. ASSUME NEW f \in 1..MaxFlights, NEW p \in Providers, WorkerStep(f, p) \/ Return(f, p)
      PROVE  Typed'
  <2>1. /\ UNCHANGED <<clock, shared, flights, threads, closed, caller>>
        /\ work' \in [1..MaxFlights -> [Providers -> Work]]
        /\ capacity' = capacity \/ (capacity < Capacity /\ capacity' = capacity + 1)
    BY <1>4, WorkerMoves DEF WorkSet
  <2>2. capacity' \in 0..Capacity
    BY <2>1, Numbers DEF Typed, TypeOK
  <2> QED BY <2>1, <2>2, OthersTyped DEF Typed, TypeOK, shared
<1>5. CASE Close
  <2>1. UNCHANGED <<clock, shared, flights, work, capacity, threads, caller>> /\ closed' = TRUE
    BY <1>5 DEF Close
  <2> QED BY <2>1, OthersTyped DEF Typed, TypeOK, shared
<1>6. CASE Tick
  <2>1. UNCHANGED <<shared, flights, pool, caller>> /\ clock' \in Times
    BY <1>6, Numbers, AcquisitionAssumption
       DEF Tick, Typed, TypeOK, Times, AcquisitionAssumption
  <2> QED BY <2>1, OthersTyped DEF Typed, TypeOK, shared, pool
<1> QED BY <1>1, <1>2, <1>3, <1>4, <1>5, <1>6 DEF Next

(* Every variable of the acquisition service keeps its type, for any number*)
(* of calls, providers and slots.                                          *)
THEOREM TypeCorrect == Spec => []TypeOK
<1>1. Typed => TypeOK
  BY DEF Typed
<1> QED BY <1>1, TypedInit, TypedStep, PTL DEF Spec

----------------------------------------------------------------------------
(* A flight has one leader, and it takes no result before it dispatches.   *)

Led ==
    /\ \A c, d \in Callers : /\ caller[c].pc \in Leading /\ caller[d].pc \in Leading
                             /\ caller[c].flight = caller[d].flight
                             => c = d
    /\ \A c \in Callers : caller[c].pc \in {"start", "dispatch"} =>
          \A p \in Providers : flights[caller[c].flight].result[p] = "none"

\* What was collected in time is in time for ever.
InTime ==
    /\ store \subseteq 1..Len(flights)
    /\ \A f \in store : \A p \in Providers : flights[f].result[p] # "none"
    /\ \A f \in 1..Len(flights) : \A p \in Providers :
          flights[f].result[p] = "done" => OnTime(f, p)

\* The flight that leads a request is the one in the map.
Mapped ==
    /\ \A c \in Callers : caller[c].pc \in Leading \ {"signal"} =>
          inflight[caller[c].fp] = caller[c].flight
    /\ \A fp \in Fingerprints :
          /\ cache[fp].flight <= Len(flights)
          /\ inflight[fp] # 0 => cache[fp].flight <= inflight[fp]

\* A step that leaves what the three invariants read.
LEMMA LedKept ==
    ASSUME Typed, Led, UNCHANGED caller, ResultsKept
    PROVE  Led'
BY DEF Typed, Led, ResultsKept, Leading

\* What a step of c other than Lead does to the flights and to who leads.
LEMMA LedMoves ==
    ASSUME Typed, Led, NEW c \in Callers, NEW pc \in Pcs, Goes(c, pc),
           pc \in Leading => caller[c].pc \in Leading,
           pc \in {"start", "dispatch"} => caller[c].pc \in {"start", "dispatch"},
           /\ Len(flights') = Len(flights)
           /\ \A g \in 1..Len(flights) : flights'[g].result = flights[g].result
    PROVE  Led'
BY DEF Typed, Led, Goes, Leading

\* c has become the leader of a new flight, which has no result.
NewFlight(c) ==
    /\ Len(flights) \in Nat /\ Len(flights') = Len(flights) + 1
    /\ \A f \in 1..Len(flights) : flights'[f] = flights[f]
    /\ \A p \in Providers : flights'[Len(flights')].result[p] = "none"
    /\ caller'[c].pc = "start" /\ caller'[c].fp = caller[c].fp
    /\ caller'[c].flight = Len(flights')
    /\ \A d \in Callers : d # c => caller'[d] = caller[d]
    /\ UNCHANGED <<clock, cache, store, work>>

\* A new flight joins those there are.
LEMMA LeadNew ==
    ASSUME Typed, NEW c \in Callers, Lead(c)
    PROVE  NewFlight(c)
<1>1. Len(flights) \in Nat
  BY DEF Typed, TypeOK
<1>2. UNCHANGED <<clock, cache, store, work>>
  BY DEF Lead, pool
<1>3. \A p \in Providers : NoResults[p] = "none"
  BY DEF NoResults
<1>4. flights'[Len(flights')].result = NoResults
  BY LeadTyped
<1>5. \A p \in Providers : flights'[Len(flights')].result[p] = "none"
  BY <1>3, <1>4
<1> QED BY <1>1, <1>2, <1>5, LeadTyped DEF NewFlight

\* Results stay when no flight changes.
LEMMA SameFlights ==
    ASSUME Typed, UNCHANGED flights
    PROVE  ResultsKept
BY DEF Typed, TypeOK, ResultsKept

\* A result is set once, and it is "done" only in time.
LEMMA Collects ==
    ASSUME Typed, NEW c \in Callers, Admit(c) \/ Collect(c)
    PROVE  /\ caller[c].pc = "providers" /\ caller[c].flight \in 1..Len(flights)
           /\ UNCHANGED <<clock, cache, store, inflight, caller>>
           /\ \/ UNCHANGED flights
              \/ \E p \in Providers, result \in Results \ {"none"} :
                    /\ ResultSet(caller[c].flight, p, result)
                    /\ result = "done" => OnTime(caller[c].flight, p)
<1> DEFINE f == caller[c].flight
<1>1. /\ caller[c].pc = "providers" /\ f \in 1..Len(flights)
      /\ UNCHANGED <<clock, cache, store, inflight, caller>>
  BY DEF Admit, Collect, Typed, Leading, shared
<1> HIDE DEF f
<1>2. CASE Admit(c)
  <2>1. \/ UNCHANGED flights
        \/ \E p \in Providers, result \in {"closed", "exhausted"} : SetResult(f, p, result)
    BY <1>2 DEF Admit, f
  <2>2. ASSUME NEW p \in Providers, NEW result \in {"closed", "exhausted"},
               SetResult(f, p, result)
        PROVE  ResultSet(f, p, result) /\ result \in Results \ {"none"} /\ result # "done"
    BY <1>1, <2>2, ResultEffect DEF Typed, Results
  <2> QED BY <1>1, <2>1, <2>2 DEF f
<1>3. CASE Collect(c)
  <2>1. PICK p \in Providers : SetResult(f, p, IF OnTime(f, p) THEN "done" ELSE "timeout")
    BY <1>3 DEF Collect, f
  <2>2. PICK result \in {"done", "timeout"} :
          SetResult(f, p, result) /\ (result = "done" => OnTime(f, p))
    <3>1. CASE OnTime(f, p)
      BY <2>1, <3>1
    <3>2. CASE ~OnTime(f, p)
      BY <2>1, <3>2
    <3> QED BY <3>1, <3>2
  <2>3. ResultSet(f, p, result) /\ result \in Results \ {"none"}
    BY <1>1, <2>2, ResultEffect DEF Typed, Results
  <2> QED BY <1>1, <2>2, <2>3 DEF f
<1> QED BY <1>2, <1>3

\* The steps of a call that neither lead nor collect keep every result; they
\* take a time only before the flight has a result.
LEMMA Quiet ==
    ASSUME Typed, NEW c \in Callers, CallerStep(c), ~Lead(c), ~Admit(c), ~Collect(c)
    PROVE  \/ /\ caller[c].pc \in {"start", "dispatch"} /\ TimeTaken(caller[c].flight)
              /\ UNCHANGED store
           \/ ResultsKept /\ UNCHANGED store
           \/ /\ UNCHANGED flights /\ NotCollected(caller[c].flight) = {}
              /\ store' = store \union {caller[c].flight} /\ caller[c].pc = "providers"
<1>1. caller[c].pc \in Leading => caller[c].flight \in 1..Len(flights)
  BY DEF Typed
<1>2. CASE Start(c) \/ Dispatch(c)
  BY <1>1, <1>2, TimeEffect DEF Start, Dispatch, Leading, shared, Typed
<1>3. CASE Lookup(c) \/ Join(c) \/ Wake(c) \/ CachePut(c) \/ Settle(c)
  BY <1>3, SameFlights DEF Lookup, Join, Wake, CachePut, Settle, shared
<1>4. CASE Persist(c)
  <2>1. CASE UNCHANGED store
    BY <1>1, <1>4, <2>1, EndEffect, SameFlights DEF Persist, Leading, Typed
  <2>2. CASE ~ UNCHANGED store
    BY <1>4, <2>2 DEF Persist
  <2> QED BY <2>1, <2>2
<1>5. CASE Signal(c)
  BY <1>1, <1>5, EndEffect DEF Signal, Signals, Leading, shared, Typed
<1> QED BY <1>2, <1>3, <1>4, <1>5 DEF CallerStep

----------------------------------------------------------------------------
(* Slots and strays.                                                       *)

\* A provider that was refused stays refused.
ClosedStay ==
    /\ Len(flights) \in Nat /\ Len(flights') \in Nat /\ Len(flights') >= Len(flights)
    /\ \A f \in 1..Len(flights), p \in Providers :
          flights[f].result[p] = "closed" => flights'[f].result[p] = "closed"

\* No step changes the result of a provider that was refused.
LEMMA ClosedStays ==
    ASSUME Typed, NEW c \in Callers, CallerStep(c)
    PROVE  ClosedStay
<1>0. Len(flights) \in Nat
  BY DEF Typed, TypeOK
<1>1. CASE Lead(c)
  BY <1>0, <1>1, LeadNew DEF NewFlight, ClosedStay
<1>2. ASSUME NEW p \in Providers, NEW result \in Results,
             caller[c].flight \in 1..Len(flights),
             flights[caller[c].flight].result[p] = "none",
             SetResult(caller[c].flight, p, result)
      PROVE  ClosedStay
  BY <1>0, <1>2, ResultEffect DEF ResultSet, ClosedStay, Typed
<1>3. ASSUME UNCHANGED flights
      PROVE  ClosedStay
  BY <1>0, <1>3 DEF ClosedStay
<1>4. CASE Admit(c)
  <2>1. caller[c].flight \in 1..Len(flights)
    BY <1>4, Collects
  <2>2. PICK p \in Providers :
          /\ flights[caller[c].flight].result[p] = "none"
          /\ \/ UNCHANGED flights
             \/ \E result \in {"closed", "exhausted"} :
                   SetResult(caller[c].flight, p, result)
    BY <1>4, AdmitCases DEF NotAdmitted
  <2>3. {"closed", "exhausted"} \subseteq Results
    BY DEF Results
  <2> QED BY <1>2, <1>3, <2>1, <2>2, <2>3
<1>5. CASE Collect(c)
  <2>1. caller[c].flight \in 1..Len(flights)
    BY <1>5, Collects
  <2>2. PICK p \in Providers :
          /\ flights[caller[c].flight].result[p] = "none"
          /\ SetResult(caller[c].flight, p,
                IF OnTime(caller[c].flight, p) THEN "done" ELSE "timeout")
    BY <1>5 DEF Collect, First, NotCollected
  <2>3. (IF OnTime(caller[c].flight, p) THEN "done" ELSE "timeout") \in Results
    BY DEF Results
  <2> QED BY <1>2, <2>1, <2>2, <2>3
<1>6. CASE ~Lead(c) /\ ~Admit(c) /\ ~Collect(c)
  BY <1>0, <1>6, Quiet DEF TimeTaken, ResultsKept, ClosedStay
<1> QED BY <1>1, <1>4, <1>5, <1>6

\* While no worker leaves the pool unseen, a stray stays one.
LEMMA StraysStay ==
    ASSUME Typed, ClosedStay,
           \A f \in 1..MaxFlights, p \in Providers :
              work[f][p].state # "none" => work'[f][p].state # "none"
    PROVE  Strays \subseteq Strays'
<1>1. Len(flights) <= MaxFlights
  BY DEF Typed, TypeOK
<1> SUFFICES ASSUME NEW f \in 1..Len(flights), NEW p \in Providers, IsStray(f, p)
             PROVE  f \in 1..Len(flights') /\ IsStray(f, p)'
  BY DEF Strays
<1>2. f \in 1..MaxFlights /\ f \in 1..Len(flights')
  BY <1>1, Numbers DEF ClosedStay
<1> QED BY <1>2 DEF IsStray, ClosedStay

\* An admission takes the slot it counts, or leaves a stray.
LEMMA SlotTaken ==
    ASSUME Typed, SlotsConserved, NEW c \in Callers, Admit(c)
    PROVE  SlotsConserved'
<1>0. PICK f \in 1..Len(flights) : f = caller[c].flight
  BY Collects
<1>1. TypeOK /\ f \in 1..MaxFlights /\ capacity \in Nat /\ Capacity \in Nat
  BY Numbers DEF Typed, TypeOK
<1>2. ClosedStay
  BY ClosedStays DEF CallerStep
<1>3. IsFiniteSet(Held) /\ Cardinality(Held) \in Nat
  BY <1>1, HeldFinite
<1>4. CASE UNCHANGED pool
  <2>1. UNCHANGED <<work, capacity>> /\ Held' = Held
    BY <1>4 DEF Held, pool
  <2>2. Strays \subseteq Strays'
    BY <1>2, <2>1, StraysStay
  <2> QED BY <2>1, <2>2 DEF SlotsConserved
<1>5. CASE ~ UNCHANGED pool
  <2>1. PICK p \in Providers :
          /\ work[f][p].state = "none"
          /\ work' = [work EXCEPT ![f][p].state = "queued"]
          /\ \/ capacity' = capacity /\ SetResult(f, p, "closed")
             \/ capacity > 0 /\ capacity' = capacity - 1
    BY <1>0, <1>5, AdmitCases DEF NotAdmitted
  <2> DEFINE v == [state |-> "queued", at |-> work[f][p].at]
  <2>2. WorkSet(f, p, v) /\ v \in Work
    <3>1. "queued" \in States /\ work[f][p] \in Work
      BY <1>1 DEF States, TypeOK
    <3>2. WorkSet(f, p, v)
      BY <1>1, <2>1, <3>1, StateEffect
    <3> QED BY <3>1, <3>2 DEF Work
  <2>3. v.state = "queued" /\ v.state \in Holding /\ <<f, p>> \notin Held
    BY <2>1 DEF Held, Holding
  <2> HIDE DEF v
  <2>4. Held' = Held \union {<<f, p>>}
    BY <1>1, <2>2, <2>3, HeldBy
  <2>5. Cardinality(Held') = Cardinality(Held) + 1
    BY <1>3, <2>3, <2>4, FS_AddElement
  <2>6. Strays \subseteq Strays'
    BY <1>2, <2>2, <2>3, StraysStay DEF WorkSet
  <2>7. CASE capacity > 0 /\ capacity' = capacity - 1
    BY <1>1, <1>3, <2>5, <2>6, <2>7 DEF SlotsConserved
  <2>8. CASE capacity' = capacity /\ SetResult(f, p, "closed")
    <3>1. ResultSet(f, p, "closed")
      BY <1>1, <2>8, ResultEffect DEF Results
    <3>2. IsStray(f, p)' /\ f \in 1..Len(flights')
      BY <1>0, <1>1, <2>2, <2>3, <3>1 DEF ResultSet, WorkSet, IsStray
    <3>3. <<f, p>> \in Strays'
      BY <3>2 DEF Strays
    <3> QED BY <1>1, <1>3, <2>5, <2>8, <3>3 DEF SlotsConserved
  <2> QED BY <2>1, <2>7, <2>8
<1> QED BY <1>4, <1>5

\* A worker gives back the slot it held; that of a stray may find none to
\* give back.
LEMMA SlotKept ==
    ASSUME Typed, SlotsConserved, NEW f \in 1..MaxFlights, NEW p \in Providers,
           WorkerStep(f, p) \/ Return(f, p)
    PROVE  SlotsConserved'
<1>1. TypeOK /\ capacity \in Nat /\ Capacity \in Nat /\ capacity <= Capacity
  BY Numbers DEF Typed, TypeOK
<1>2. PICK v \in Work :
        /\ WorkSet(f, p, v) /\ work[f][p].state \in Holding
        /\ \/ v.state \in Holding /\ capacity' = capacity
           \/ /\ v.state = "released"
              /\ capacity' = IF capacity < Capacity THEN capacity + 1 ELSE capacity
  BY WorkerMoves
<1>3. <<f, p>> \in Held
  BY <1>2 DEF Held, Holding
<1>4. IsFiniteSet(Held) /\ Cardinality(Held) \in Nat
  BY <1>1, HeldFinite
<1>5. Strays \subseteq Strays'
  <2>1. UNCHANGED flights
    BY WorkerMoves
  <2>2. ClosedStay
    BY <2>1 DEF ClosedStay, Typed, TypeOK
  <2>3. v.state # "none"
    BY <1>2 DEF Holding
  <2> QED BY <1>2, <2>2, <2>3, StraysStay DEF WorkSet
<1>6. CASE v.state \in Holding /\ capacity' = capacity
  <2>1. Held' = Held
    BY <1>1, <1>2, <1>3, <1>6, HeldBy
  <2> QED BY <1>5, <1>6, <2>1 DEF SlotsConserved
<1>7. CASE v.state = "released"
  <2>1. v.state \notin Holding
    BY <1>7 DEF Holding
  <2>2. Held' = Held \ {<<f, p>>}
    BY <1>1, <1>2, <2>1, HeldBy
  <2>3. Cardinality(Held') = Cardinality(Held) - 1 /\ Cardinality(Held) # 0
    BY <1>3, <1>4, <2>2, FS_RemoveElement, FS_EmptySet
  <2>4. capacity' = IF capacity < Capacity THEN capacity + 1 ELSE capacity
    BY <1>2, <1>7, <2>1
  <2>5. Cardinality(Held') \in Nat /\ Cardinality(Held) = Cardinality(Held') + 1
    BY <1>4, <2>3
  <2>6. capacity' + Cardinality(Held') >= Capacity
    BY <1>1, <1>4, <2>4, <2>5 DEF SlotsConserved
  <2>7. ASSUME Strays' = {}
        PROVE  capacity' + Cardinality(Held') = Capacity
    <3>1. capacity + Cardinality(Held) = Capacity
      BY <1>5, <2>7 DEF SlotsConserved
    <3> QED BY <1>1, <1>4, <2>4, <2>5, <3>1
  <2> QED BY <2>6, <2>7 DEF SlotsConserved
<1> QED BY <1>2, <1>6, <1>7

\* Every step keeps the account of the slots.
LEMMA SlotsStep ==
    ASSUME Typed, SlotsConserved, [Next]_vars
    PROVE  SlotsConserved'
<1>1. ASSUME UNCHANGED <<work, capacity>>, ClosedStay
      PROVE  SlotsConserved'
  <2>1. Held' = Held /\ Strays \subseteq Strays'
    BY <1>1, StraysStay DEF Held
  <2> QED BY <1>1, <2>1 DEF SlotsConserved
<1>2. ASSUME UNCHANGED <<work, capacity, flights>>
      PROVE  SlotsConserved'
  <2>1. ClosedStay
    BY <1>2 DEF ClosedStay, Typed, TypeOK
  <2> QED BY <1>1, <1>2, <2>1
<1>3. ASSUME NEW c \in Callers, CallerStep(c)
      PROVE  SlotsConserved'
  <2>1. CASE Admit(c)
    BY <2>1, SlotTaken
  <2>2. CASE ~Admit(c)
    <3>1. UNCHANGED <<work, capacity>>
      BY <1>3, <2>2 DEF CallerStep, Lookup, Join, Lead, Wake, Start, Dispatch, Collect,
                        KeepsSlot, Persist, CachePut, Settle, Signal, pool
    <3> QED BY <1>1, <1>3, <3>1, ClosedStays
  <2> QED BY <2>1, <2>2
<1>4. ASSUME NEW c \in Callers, NEW fp \in Fingerprints, Call(c, fp)
      PROVE  SlotsConserved'
  BY <1>2, <1>4 DEF Call, pool
<1>5. ASSUME NEW f \in 1..MaxFlights, NEW p \in Providers, WorkerStep(f, p) \/ Return(f, p)
      PROVE  SlotsConserved'
  BY <1>5, SlotKept
<1>6. CASE Close \/ Tick \/ UNCHANGED vars
  BY <1>2, <1>6 DEF Close, Tick, vars, pool
<1> QED BY <1>3, <1>4, <1>5, <1>6 DEF Next

(* No slot of the provider pool leaks, and every slot is free or held by   *)
(* one worker as long as every thread that was needed could be started, for*)
(* any number of calls and providers (_collect_providers,                  *)
(* _run_provider_work).                                                    *)
THEOREM SlotsAlwaysAddUp == Spec => []SlotsConserved
<1>1. (Typed /\ SlotsConserved) /\ [Next]_vars => (Typed /\ SlotsConserved)'
  BY TypedStep, SlotsStep
<1> QED BY <1>1, TypedInit, PTL DEF Spec

----------------------------------------------------------------------------
(* Leaders.                                                                *)

\* Every flight keeps its one leader.
LEMMA LedStep ==
    ASSUME Typed, Led, [Next]_vars
    PROVE  Led'
<1>1. ASSUME UNCHANGED caller, UNCHANGED flights
      PROVE  Led'
  BY <1>1, SameFlights, LedKept
<1>2. ASSUME NEW c \in Callers, CallerStep(c)
      PROVE  Led'
  <2>1. CASE Lead(c)
    <3>1. NewFlight(c)
      BY <2>1, LeadNew
    <3> QED BY <3>1 DEF NewFlight, Typed, Led, Leading
  <2>2. CASE Admit(c) \/ Collect(c)
    <3>1. CASE UNCHANGED flights
      BY <1>1, <2>2, <3>1, Collects
    <3>2. CASE ~ UNCHANGED flights
      BY <2>2, <3>2, Collects DEF Typed, Led, ResultSet, Leading
    <3> QED BY <3>1, <3>2
  <2>3. CASE Join(c)
    <3>1. UNCHANGED flights
      BY <2>3 DEF Join
    <3>2. /\ caller'[c].pc = "wait"
          /\ \A d \in Callers : d # c => caller'[d] = caller[d]
      BY <2>3 DEF Join, Typed, TypeOK, Caller
    <3> QED BY <3>1, <3>2 DEF Typed, Led, Leading
  <2>4. CASE ~Lead(c) /\ ~Admit(c) /\ ~Collect(c) /\ ~Join(c)
    <3>1. /\ Len(flights') = Len(flights)
          /\ \A g \in 1..Len(flights) : flights'[g].result = flights[g].result
      BY <1>2, <2>4, Quiet DEF TimeTaken, ResultsKept
    <3>2. PICK pc \in Pcs : /\ Goes(c, pc)
                            /\ pc \in Leading => caller[c].pc \in Leading
                            /\ pc \in {"start", "dispatch"} =>
                                  caller[c].pc \in {"start", "dispatch"}
      BY <1>2, <2>4, Moves DEF Pcs, Leading, Start, Dispatch, Persist, CachePut, Settle
    <3> QED BY <3>1, <3>2, LedMoves
  <2> QED BY <2>1, <2>2, <2>3, <2>4
<1>3. ASSUME NEW c \in Callers, NEW fp \in Fingerprints, Call(c, fp)
      PROVE  Led'
  <2>1. flights' = flights
    BY <1>3 DEF Call
  <2> QED BY <1>3, <2>1, CallTyped DEF Led, Leading
<1>4. ASSUME NEW f \in 1..MaxFlights, NEW p \in Providers, WorkerStep(f, p) \/ Return(f, p)
      PROVE  Led'
  BY <1>1, <1>4, WorkerMoves
<1>5. CASE Close \/ Tick
  BY <1>1, <1>5 DEF Close, Tick
<1>6. CASE UNCHANGED vars
  BY <1>1, <1>6 DEF vars
<1> QED BY <1>2, <1>3, <1>4, <1>5, <1>6 DEF Next

----------------------------------------------------------------------------
(* What was collected in time.                                             *)

\* A worker that has completed stays completed, at the same time.
LEMMA CompletedStays ==
    ASSUME Typed, [Next]_vars, NEW g \in 1..MaxFlights, NEW q \in Providers,
           Completed(g, q)
    PROVE  Completed(g, q)' /\ work'[g][q].at = work[g][q].at
<1>1. CASE UNCHANGED work
  BY <1>1 DEF Completed
<1>2. ASSUME NEW c \in Callers, Admit(c), ~ UNCHANGED work
      PROVE  Completed(g, q)' /\ work'[g][q].at = work[g][q].at
  <2> DEFINE f == caller[c].flight
  <2>1. TypeOK /\ f \in 1..MaxFlights
    BY SMTT(30), <1>2, Numbers DEF Admit, Typed, TypeOK, Leading
  <2>2. PICK p \in Providers : /\ work[f][p].state = "none"
                               /\ work' = [work EXCEPT ![f][p].state = "queued"]
    BY <1>2 DEF Admit, First, NotAdmitted, pool
  <2>3. WorkSet(f, p, [state |-> "queued", at |-> work[f][p].at])
    BY <2>1, <2>2, StateEffect DEF States
  <2>4. <<g, q>> # <<f, p>>
    BY <2>2 DEF Completed
  <2> QED BY <2>3, <2>4 DEF WorkSet, Completed
<1>3. ASSUME NEW f \in 1..MaxFlights, NEW p \in Providers, WorkerStep(f, p) \/ Return(f, p)
      PROVE  Completed(g, q)' /\ work'[g][q].at = work[g][q].at
  BY <1>3, WorkerMoves DEF WorkSet, Completed
<1> QED BY <1>1, <1>2, <1>3
        DEF Next, CallerStep, Lookup, Join, Lead, Wake, Start, Dispatch, Collect, Persist,
            CachePut, Settle, Signal, Call, Close, Tick, vars, pool

\* The flights of a set keep their deadlines and what they collected in time.
LEMMA InTimeKept ==
    ASSUME Typed, InTime, [Next]_vars, NEW f \in 1..Len(flights), NEW p \in Providers,
           OnTime(f, p), flights'[f].began = flights[f].began,
           flights'[f].dispatched = flights[f].dispatched
    PROVE  OnTime(f, p)'
<1>1. f \in 1..MaxFlights
  BY Numbers DEF Typed, TypeOK
<1>2. Completed(f, p)' /\ work'[f][p].at = work[f][p].at
  BY <1>1, CompletedStays DEF OnTime
<1>3. Limiting(f)' = Limiting(f)
  BY DEF Limiting
<1> QED BY <1>2, <1>3 DEF OnTime

\* What was collected in time stays so.
LEMMA InTimeStep ==
    ASSUME Typed, Led, InTime, [Next]_vars
    PROVE  InTime'
<1>1. ASSUME ResultsKept, UNCHANGED store
      PROVE  InTime'
  BY <1>1, InTimeKept DEF InTime, ResultsKept
<1>2. ASSUME NEW c \in Callers, CallerStep(c)
      PROVE  InTime'
  <2> DEFINE f == caller[c].flight
  <2>1. CASE Lead(c)
    <3>1. /\ Len(flights) \in Nat /\ Len(flights') = Len(flights) + 1 /\ store' = store
          /\ \A g \in 1..Len(flights) : flights'[g] = flights[g]
          /\ \A p \in Providers : flights'[Len(flights')].result[p] = "none"
      BY <2>1, LeadNew DEF NewFlight
    <3>2. /\ 1..Len(flights) \subseteq 1..Len(flights')
          /\ \A g \in 1..Len(flights') : g \in 1..Len(flights) \/ g = Len(flights')
      BY <3>1
    <3>3. /\ store' \subseteq 1..Len(flights')
          /\ \A g \in store' : \A p \in Providers : flights'[g].result[p] # "none"
      BY <3>1, <3>2 DEF InTime
    <3>4. ASSUME NEW g \in 1..Len(flights'), NEW p \in Providers,
                 flights'[g].result[p] = "done"
          PROVE  OnTime(g, p)'
      <4>1. g \in 1..Len(flights) /\ flights'[g] = flights[g]
        BY <3>1, <3>2, <3>4
      <4> QED BY <3>4, <4>1, InTimeKept DEF InTime
    <3> QED BY <3>3, <3>4 DEF InTime
  <2>2. CASE Admit(c) \/ Collect(c)
    <3>1. CASE UNCHANGED flights
      BY <1>1, <2>2, <3>1, Collects, SameFlights
    <3>2. CASE ~ UNCHANGED flights
      <4>1. PICK p \in Providers, result \in Results \ {"none"} :
              /\ ResultSet(f, p, result)
              /\ (result = "done" => OnTime(f, p))
              /\ f \in 1..Len(flights) /\ UNCHANGED store
        BY <2>2, <3>2, Collects
      <4> HIDE DEF f
      <4>2. ASSUME NEW g \in 1..Len(flights), NEW q \in Providers,
                   flights'[g].result[q] = "done"
            PROVE  OnTime(g, q)'
        <5>1. OnTime(g, q)
          BY <4>1, <4>2 DEF ResultSet, InTime
        <5> QED BY <4>1, <5>1, InTimeKept DEF ResultSet
      <4>3. \A g \in store : \A q \in Providers : flights'[g].result[q] # "none"
        BY <4>1 DEF InTime, ResultSet
      <4>4. Len(flights') = Len(flights) /\ store' = store
        BY <4>1 DEF ResultSet
      <4> QED BY <4>2, <4>3, <4>4 DEF InTime
    <3> QED BY <3>1, <3>2
  <2>3. CASE caller[c].pc \in {"start", "dispatch"} /\ TimeTaken(f) /\ UNCHANGED store
    <3>1. \A p \in Providers : flights[f].result[p] = "none"
      BY <2>3 DEF Led
    <3> HIDE DEF f
    <3>2. ASSUME NEW g \in 1..Len(flights), NEW q \in Providers,
                 flights'[g].result[q] = "done"
          PROVE  OnTime(g, q)'
      <4>1. flights[g].result[q] = "done" /\ g # f
        BY <2>3, <3>1, <3>2 DEF TimeTaken
      <4> QED BY <2>3, <4>1, InTimeKept DEF InTime, TimeTaken
    <3>3. \A g \in store : \A q \in Providers : flights'[g].result[q] # "none"
      BY <2>3 DEF InTime, TimeTaken
    <3>4. Len(flights') = Len(flights) /\ store' = store
      BY <2>3 DEF TimeTaken
    <3> QED BY <3>2, <3>3, <3>4 DEF InTime
  <2>4. CASE /\ UNCHANGED flights /\ NotCollected(f) = {}
             /\ store' = store \union {f} /\ caller[c].pc = "providers"
    <3>1. f \in 1..Len(flights)
      BY <2>4 DEF Typed, Leading
    <3>2. \A p \in Providers : flights[f].result[p] # "none"
      BY <2>4 DEF NotCollected
    <3> HIDE DEF f
    <3>3. \A g \in 1..Len(flights) : \A p \in Providers :
             flights[g].result[p] = "done" => OnTime(g, p)'
      BY <2>4, InTimeKept DEF InTime
    <3> QED BY <2>4, <3>1, <3>2, <3>3 DEF InTime
  <2> QED BY <1>1, <1>2, <2>1, <2>2, <2>3, <2>4, Quiet
<1>3. ASSUME UNCHANGED <<flights, store>>
      PROVE  InTime'
  BY <1>1, <1>3, SameFlights
<1>4. ASSUME NEW c \in Callers, NEW fp \in Fingerprints, Call(c, fp)
      PROVE  InTime'
  BY <1>3, <1>4 DEF Call, shared
<1>5. ASSUME NEW f \in 1..MaxFlights, NEW p \in Providers, WorkerStep(f, p) \/ Return(f, p)
      PROVE  InTime'
  BY <1>3, <1>5, WorkerMoves DEF shared
<1>6. CASE Close \/ Tick \/ UNCHANGED vars
  BY <1>3, <1>6 DEF Close, Tick, vars, shared
<1> QED BY <1>2, <1>4, <1>5, <1>6 DEF Next

----------------------------------------------------------------------------
(* The cache and the single-flight map.                                    *)

Forward == \A fp \in Fingerprints :
              cache'[fp].flight # 0 => cache'[fp].flight >= cache[fp].flight

\* The calls that have a place in the map.
InMap == Leading \ {"signal"}

\* The map stays, and no call enters it.
LEMMA MapKept ==
    ASSUME Typed, Mapped, UNCHANGED inflight, Len(flights') = Len(flights),
           \A fp \in Fingerprints : cache'[fp].flight \in {cache[fp].flight, 0},
           \A d \in Callers : caller'[d].pc \in InMap =>
              /\ caller[d].pc \in InMap
              /\ caller'[d].fp = caller[d].fp /\ caller'[d].flight = caller[d].flight
    PROVE  Mapped' /\ Forward
<1>1. /\ Len(flights) \in Nat
      /\ \A fp \in Fingerprints : cache[fp].flight \in Nat /\ inflight[fp] \in Nat
  BY Numbers DEF Typed, TypeOK, Flights
<1> QED BY <1>1 DEF Mapped, Forward, InMap

\* A move that leaves the map alone, and neither enters it nor renews the
\* cache, keeps the order of flights.
LEMMA MapMoves ==
    ASSUME Typed, Mapped, NEW c \in Callers, NEW pc \in Pcs, Goes(c, pc),
           pc \in InMap => caller[c].pc \in InMap,
           UNCHANGED inflight, Len(flights') = Len(flights),
           \A fp \in Fingerprints : cache'[fp].flight \in {cache[fp].flight, 0}
    PROVE  Mapped' /\ Forward
<1>1. \A d \in Callers : caller'[d].pc \in InMap =>
         /\ caller[d].pc \in InMap
         /\ caller'[d].fp = caller[d].fp /\ caller'[d].flight = caller[d].flight
  BY DEF Goes
<1> QED BY <1>1, MapKept

\* The flight that joins the map is the youngest.
LEMMA MapLead ==
    ASSUME Typed, Mapped, NEW c \in Callers, Lead(c)
    PROVE  Mapped' /\ Forward
<1> DEFINE fp == caller[c].fp
           n == Len(flights')
<1>1. /\ Len(flights) \in Nat /\ n = Len(flights) + 1 /\ fp \in Fingerprints
      /\ \A g \in Fingerprints : cache[g].flight \in Nat /\ inflight[g] \in Nat
  BY LeadNew, Numbers DEF NewFlight, Typed, TypeOK, Flights, Caller
<1>2. /\ cache' = cache /\ inflight[fp] = 0 /\ inflight'[fp] = n
      /\ \A g \in Fingerprints : g # fp => inflight'[g] = inflight[g]
  <2>1. inflight' = [inflight EXCEPT ![fp] = Len(flights) + 1] /\ inflight[fp] = 0
        /\ cache' = cache
    BY DEF Lead, MayLead
  <2> HIDE DEF fp, n
  <2> QED BY <1>1, <2>1 DEF Typed, TypeOK
<1>3. /\ caller'[c].fp = fp /\ caller'[c].flight = n
      /\ \A d \in Callers : d # c => caller'[d] = caller[d]
  BY LeadNew DEF NewFlight
<1> HIDE DEF fp, n
<1>4. \A d \in Callers : caller'[d].pc \in InMap =>
         inflight'[caller'[d].fp] = caller'[d].flight
  <2> SUFFICES ASSUME NEW d \in Callers, caller'[d].pc \in InMap, d # c
               PROVE  inflight'[caller'[d].fp] = caller'[d].flight
    BY <1>2, <1>3
  <2>1. caller'[d] = caller[d] /\ inflight[caller[d].fp] = caller[d].flight
        /\ caller[d].flight # 0
    BY <1>1, <1>3 DEF Mapped, InMap, Typed
  <2>2. caller[d].fp \in Fingerprints /\ caller[d].fp # fp
    BY <1>2, <2>1 DEF Typed, TypeOK, Caller
  <2> QED BY <1>2, <2>1, <2>2
<1>5. \A g \in Fingerprints : /\ cache'[g].flight <= Len(flights')
                              /\ inflight'[g] # 0 => cache'[g].flight <= inflight'[g]
  <2>1. n = Len(flights')
    BY DEF n
  <2> QED BY <1>1, <1>2, <2>1 DEF Mapped
<1>6. Forward
  BY <1>1, <1>2 DEF Forward
<1> QED BY <1>4, <1>5, <1>6 DEF Mapped, InMap

\* The flight put in the cache is not older than the one it replaces.
LEMMA MapCachePut ==
    ASSUME Typed, Mapped, NEW c \in Callers, CachePut(c)
    PROVE  Mapped' /\ Forward
<1> DEFINE fp == caller[c].fp
           f == caller[c].flight
<1>1. /\ Len(flights) \in Nat /\ fp \in Fingerprints /\ f \in 1..Len(flights)
      /\ \A g \in Fingerprints : cache[g].flight \in Nat /\ inflight[g] \in Nat
      /\ inflight[fp] = f
  BY Numbers DEF CachePut, Mapped, Leading, Typed, TypeOK, Flights, Caller
<1>2. /\ Goes(c, "settle") /\ caller[c].pc = "cache"
      /\ UNCHANGED <<inflight, flights>>
  BY GotoEffect DEF CachePut, Pcs, Typed
<1>3. /\ cache'[fp].flight = f
      /\ \A g \in Fingerprints : g # fp => cache'[g] = cache[g]
  <2>1. cache' = [cache EXCEPT ![fp] = [flight |-> f, expires |-> clock + Ttl]]
    BY DEF CachePut
  <2> HIDE DEF fp, f
  <2> QED BY <1>1, <2>1 DEF Typed, TypeOK
<1> HIDE DEF fp, f
<1>4. \A d \in Callers : caller'[d].pc \in InMap =>
         inflight'[caller'[d].fp] = caller'[d].flight
  BY <1>2 DEF Goes, Mapped, InMap, Leading
<1>5. \A g \in Fingerprints : /\ cache'[g].flight <= Len(flights')
                              /\ inflight'[g] # 0 => cache'[g].flight <= inflight'[g]
  BY <1>1, <1>2, <1>3 DEF Mapped
<1>6. Forward
  BY <1>1, <1>3 DEF Forward, Mapped
<1> QED BY <1>4, <1>5, <1>6 DEF Mapped, InMap

\* A flight that leaves the map is the one its caller leads.
LEMMA MapSettle ==
    ASSUME Typed, Led, Mapped, NEW c \in Callers, Settle(c)
    PROVE  Mapped' /\ Forward
<1> DEFINE fp == caller[c].fp
<1>1. /\ fp \in Fingerprints
      /\ \A g \in Fingerprints : cache[g].flight \in Nat /\ inflight[g] \in Nat
  BY Numbers DEF Typed, TypeOK, Flights, Caller
<1>2. /\ Goes(c, "signal") /\ caller[c].pc = "settle"
      /\ UNCHANGED <<cache, flights>>
  BY GotoEffect DEF Settle, Pcs, Typed
<1>3. /\ inflight'[fp] = 0
      /\ \A g \in Fingerprints : g # fp => inflight'[g] = inflight[g]
  BY <1>1 DEF Settle, Typed, TypeOK
<1> HIDE DEF fp
<1>4. \A d \in Callers : caller'[d].pc \in InMap =>
         inflight'[caller'[d].fp] = caller'[d].flight
  <2> SUFFICES ASSUME NEW d \in Callers, caller'[d].pc \in InMap
               PROVE  inflight'[caller'[d].fp] = caller'[d].flight
    OBVIOUS
  <2>1. d # c /\ caller'[d] = caller[d] /\ caller[d].pc \in InMap
    BY <1>2 DEF Goes, InMap, Leading
  <2>2. inflight[caller[d].fp] = caller[d].flight /\ inflight[caller[c].fp] = caller[c].flight
    BY <1>2, <2>1 DEF Mapped, InMap, Leading
  <2>3. caller[d].flight # caller[c].flight
    BY <1>2, <2>1 DEF Led, InMap, Leading
  <2>4. caller[d].fp # fp /\ caller[d].fp \in Fingerprints
    BY <2>2, <2>3 DEF fp, Typed, TypeOK, Caller
  <2> QED BY <1>3, <2>1, <2>2, <2>4
<1>5. \A g \in Fingerprints : /\ cache'[g].flight <= Len(flights')
                              /\ inflight'[g] # 0 => cache'[g].flight <= inflight'[g]
  BY <1>2, <1>3 DEF Mapped
<1>6. Forward
  BY <1>1, <1>2 DEF Forward
<1> QED BY <1>4, <1>5, <1>6 DEF Mapped, InMap

\* Every step keeps the order of flights, and the cache moves forward.
LEMMA MappedStep ==
    ASSUME Typed, Led, Mapped, [Next]_vars
    PROVE  Mapped' /\ Forward
<1>1. ASSUME UNCHANGED <<cache, inflight, caller>>, Len(flights') = Len(flights)
      PROVE  Mapped' /\ Forward
  BY <1>1, MapKept
<1>2. ASSUME NEW c \in Callers, CallerStep(c)
      PROVE  Mapped' /\ Forward
  <2>1. CASE Lead(c) \/ CachePut(c) \/ Settle(c)
    BY <2>1, MapLead, MapCachePut, MapSettle
  <2>2. CASE Admit(c) \/ Collect(c)
    BY <1>1, <2>2, Collects DEF ResultSet
  <2>3. CASE Join(c)
    <3>1. UNCHANGED <<cache, inflight, flights>>
      BY <2>3 DEF Join, shared
    <3>2. /\ caller'[c].pc = "wait"
          /\ \A d \in Callers : d # c => caller'[d] = caller[d]
      BY <2>3 DEF Join, Typed, TypeOK, Caller
    <3>3. \A d \in Callers : caller'[d].pc \in InMap => caller'[d] = caller[d]
      BY <3>2 DEF InMap, Leading
    <3> QED BY <3>1, <3>3, MapKept
  <2>4. CASE Lookup(c)
    <3> DEFINE fp == caller[c].fp
    <3>1. UNCHANGED <<inflight, flights>> /\ fp \in Fingerprints
      BY <2>4 DEF Lookup, Typed, TypeOK, Caller
    <3>2. cache' = cache \/ cache' = [cache EXCEPT ![fp] = [flight |-> 0, expires |-> 0]]
      BY <2>4 DEF Lookup
    <3> HIDE DEF fp
    <3>3. \A g \in Fingerprints : cache'[g].flight \in {cache[g].flight, 0}
      <4>1. CASE cache' = cache
        BY <4>1
      <4>2. CASE cache' = [cache EXCEPT ![fp] = [flight |-> 0, expires |-> 0]]
        BY <3>1, <4>2 DEF Typed, TypeOK
      <4> QED BY <3>2, <4>1, <4>2
    <3>4. \E pc \in {"idle", "join"} : Goes(c, pc)
      BY <2>4, Moves DEF Join, Wake, Start, Dispatch, Admit, Collect, Persist, CachePut,
                         Settle, Signal, Lookup, CallerStep, Lead
    <3> QED BY <3>1, <3>3, <3>4, MapMoves DEF Pcs, InMap, Leading
  <2>5. CASE /\ Wake(c) \/ Start(c) \/ Dispatch(c) \/ Persist(c) \/ Signal(c)
             /\ ~Admit(c) /\ ~Collect(c)
    <3>1. UNCHANGED <<cache, inflight>> /\ ~Lead(c) /\ ~Admit(c) /\ ~Collect(c)
      BY <2>5 DEF Wake, Start, Dispatch, Persist, Signal, Lead, shared
    <3>2. Len(flights') = Len(flights)
      BY <1>2, <3>1, Quiet DEF TimeTaken, ResultsKept
    <3>3. PICK pc \in Pcs : Goes(c, pc) /\ (pc \in InMap => caller[c].pc \in InMap)
      <4>1. CASE Wake(c) \/ Signal(c)
        <5>1. Goes(c, "idle")
          BY <1>2, <3>1, <4>1, Moves
             DEF Start, Dispatch, Persist, Wake, Signal, Lookup, Join, CachePut, Settle
        <5> QED BY <5>1 DEF Pcs, InMap, Leading
      <4>2. CASE Start(c) \/ Dispatch(c) \/ Persist(c)
        <5>1. \E pc \in {"dispatch", "providers", "cache", "settle"} : Goes(c, pc)
          BY <4>2, GotoEffect DEF Start, Dispatch, Persist, Pcs, Typed
        <5>2. caller[c].pc \in InMap
          BY <4>2 DEF Start, Dispatch, Persist, InMap, Leading
        <5> QED BY <5>1, <5>2 DEF Pcs
      <4> QED BY <2>5, <4>1, <4>2
    <3> QED BY <3>1, <3>2, <3>3, MapMoves
  <2> QED BY <1>2, <2>1, <2>2, <2>3, <2>4, <2>5 DEF CallerStep
<1>3. ASSUME NEW c \in Callers, NEW fp \in Fingerprints, Call(c, fp)
      PROVE  Mapped' /\ Forward
  <2>1. UNCHANGED <<cache, inflight, flights>>
    BY <1>3 DEF Call, shared
  <2>2. \A d \in Callers : caller'[d].pc \in InMap => caller'[d] = caller[d]
    BY <1>3, CallTyped DEF InMap, Leading
  <2> QED BY <2>1, <2>2, MapKept
<1>4. ASSUME NEW f \in 1..MaxFlights, NEW p \in Providers, WorkerStep(f, p) \/ Return(f, p)
      PROVE  Mapped' /\ Forward
  BY <1>1, <1>4, WorkerMoves DEF shared
<1>5. CASE Close \/ Tick \/ UNCHANGED vars
  BY <1>1, <1>5 DEF Close, Tick, vars, shared
<1> QED BY <1>2, <1>3, <1>4, <1>5 DEF Next

----------------------------------------------------------------------------
Inv == Typed /\ SlotsConserved /\ Led /\ InTime /\ Mapped

\* The invariant holds at first and is kept by every step.
LEMMA Inductive ==
    /\ Init => Inv
    /\ Inv /\ [Next]_vars => Inv' /\ Forward
<1>1. ASSUME Init PROVE Inv
  <2>1. /\ \A c \in Callers : caller[c].pc = "idle"
        /\ flights = <<>> /\ store = {}
        /\ \A fp \in Fingerprints : cache[fp].flight = 0 /\ inflight[fp] = 0
    BY <1>1 DEF Init
  <2> QED BY <1>1, <2>1, TypedInit DEF Inv, Led, InTime, Mapped, Leading
<1>2. ASSUME Inv, [Next]_vars PROVE Inv' /\ Forward
  BY <1>2, TypedStep, SlotsStep, LedStep, InTimeStep, MappedStep DEF Inv
<1> QED BY <1>1, <1>2

\* The invariant holds in every state.
LEMMA Always == Spec => []Inv
<1> QED BY Inductive, PTL DEF Spec

(* A persisted snapshot counts no provider as answered that returned after *)
(* its deadline, however late its coordinator ran and whatever other       *)
(* flights did (_resolve_deadline_outcome).                                *)
THEOREM LateIsTimeout == Spec => []LateNeverCounts
<1>1. Inv => LateNeverCounts
  BY DEF Inv, InTime, LateNeverCounts, OnTime
<1> QED BY <1>1, Always, PTL

(* No acquisition overwrites the cache with an older snapshot of the same  *)
(* request (_finish_flight after cache.put).                               *)
THEOREM CacheIsMonotone == Spec => CacheMovesForward
<1>1. Inv /\ [Next]_vars => [Forward]_vars
  BY Inductive
<1>2. Spec => [][Forward]_vars
  BY <1>1, Always, PTL DEF Spec
<1> QED BY <1>2 DEF CacheMovesForward, Forward

----------------------------------------------------------------------------
(* Answers: one flight a request, and what calls are answered with.        *)

(* No two acquisitions of one request run at a time: from joining the map  *)
(* until it has left it, the leader of a request is alone                  *)
(* (_acquire_single_flight).                                               *)
OneFlightPerRequest ==
    \A c, d \in Callers :
        /\ caller[c].pc \in InMap /\ caller[d].pc \in InMap
        /\ caller[c].fp = caller[d].fp
        => c = d

(* A call that returns a snapshot returns one of the request it asked for, *)
(* which is in the store: nobody is shown what a restart would lose, nor   *)
(* another request's answer, by the cache, by joining or by leading.       *)
AnswersArePersisted ==
    \A c \in Callers : caller[c].pc = "idle" /\ caller[c].reply # 0 =>
        /\ caller[c].reply \in store
        /\ flights[caller[c].reply].fp = caller[c].fp

Fps(f, fp) == f \in 1..Len(flights) /\ flights[f].fp = fp

\* Wherever a flight is kept, it is one of the request it is kept for.
OfRequest ==
    /\ \A c \in Callers : caller[c].pc \in Leading \union {"wait"} =>
          Fps(caller[c].flight, caller[c].fp)
    /\ \A fp \in Fingerprints :
          /\ inflight[fp] # 0 => Fps(inflight[fp], fp)
          /\ cache[fp].flight # 0 => Fps(cache[fp].flight, fp)

\* What a flight may be answered with is in the store.
Stored ==
    /\ \A fp \in Fingerprints : cache[fp].flight # 0 => cache[fp].flight \in store
    /\ \A c \in Callers :
          /\ caller[c].pc = "cache" => caller[c].flight \in store
          /\ caller[c].pc \in {"settle", "signal"} =>
                caller[c].flight \in store \/ flights[caller[c].flight].error
    /\ \A f \in 1..Len(flights) : flights[f].done /\ ~flights[f].error => f \in store

Answered == OfRequest /\ Stored /\ AnswersArePersisted

\* The request, the error and the end of every flight stay.
EndsKept ==
    /\ Len(flights') = Len(flights)
    /\ \A g \in 1..Len(flights) :
          /\ flights'[g].fp = flights[g].fp
          /\ flights'[g].error = flights[g].error
          /\ flights'[g].done = flights[g].done

\* Only leading, persisting and signalling change how a flight ends.
LEMMA EndsStay ==
    ASSUME Typed, NEW c \in Callers, CallerStep(c), ~Lead(c), ~Persist(c), ~Signal(c)
    PROVE  EndsKept
<1> DEFINE f == caller[c].flight
<1>1. CASE UNCHANGED flights
  BY <1>1 DEF EndsKept, Typed, TypeOK
<1>2. CASE Start(c) \/ Dispatch(c)
  <2>1. f \in 1..Len(flights)
    BY <1>2 DEF Start, Dispatch, Typed, Leading
  <2>2. flights[f] \in Flight /\ clock \in Times
    BY <2>1, FlightIs DEF Typed, TypeOK
  <2> DEFINE b == [flights[f] EXCEPT !.began = clock]
             d == [flights[f] EXCEPT !.dispatched = clock]
  <2>3. /\ b \in Flight /\ d \in Flight
        /\ b.fp = flights[f].fp /\ b.error = flights[f].error /\ b.done = flights[f].done
        /\ d.fp = flights[f].fp /\ d.error = flights[f].error /\ d.done = flights[f].done
    BY <2>2 DEF Flight
  <2>4. flights' = [flights EXCEPT ![f] = b] \/ flights' = [flights EXCEPT ![f] = d]
    BY <1>2 DEF Start, Dispatch
  <2> HIDE DEF b, d
  <2>5. FlightSet(f, b) \/ FlightSet(f, d)
    BY <2>1, <2>3, <2>4, FlightEffect DEF Typed
  <2> QED BY <2>3, <2>5 DEF FlightSet, EndsKept
<1>3. CASE (Admit(c) \/ Collect(c)) /\ ~ UNCHANGED flights
  <2>1. f \in 1..Len(flights)
    BY <1>3 DEF Admit, Collect, Typed, Leading
  <2>2. PICK p \in Providers, result \in Results : SetResult(f, p, result)
    BY <1>3 DEF Admit, Collect, Results
  <2> DEFINE rs == [flights[f].result EXCEPT ![p] = result]
             v == [flights[f] EXCEPT !.result = rs]
  <2>3. flights[f] \in Flight /\ rs \in [Providers -> Results]
    BY <2>1, FlightIs DEF Typed
  <2>4. flights' = [flights EXCEPT ![f] = v]
    BY <2>2 DEF SetResult
  <2> HIDE DEF rs
  <2>5. /\ v \in Flight /\ v.fp = flights[f].fp /\ v.error = flights[f].error
        /\ v.done = flights[f].done
    BY <2>3 DEF Flight
  <2> HIDE DEF v
  <2>6. FlightSet(f, v)
    BY <2>1, <2>4, <2>5, FlightEffect DEF Typed
  <2> QED BY <2>5, <2>6 DEF FlightSet, EndsKept
<1> QED BY <1>1, <1>2, <1>3
        DEF CallerStep, Lookup, Join, Wake, CachePut, Settle

\* An error or the end of f is noted; nothing else of the flights changes.
LEMMA EndOf ==
    ASSUME Typed, NEW f \in 1..Len(flights)
    PROVE  /\ Fails(f) =>
                /\ Len(flights') = Len(flights) /\ flights'[f].error
                /\ \A g \in 1..Len(flights) :
                      /\ flights'[g].fp = flights[g].fp
                      /\ flights'[g].done = flights[g].done
                      /\ g # f => flights'[g].error = flights[g].error
           /\ \A b \in BOOLEAN : flights' = [flights EXCEPT ![f].done = b] =>
                /\ Len(flights') = Len(flights)
                /\ \A g \in 1..Len(flights) :
                      /\ flights'[g].fp = flights[g].fp
                      /\ flights'[g].error = flights[g].error
                      /\ g # f => flights'[g].done = flights[g].done
<1>1. flights[f] \in Flight
  BY FlightIs DEF Typed
<1>2. ASSUME Fails(f)
      PROVE  /\ Len(flights') = Len(flights) /\ flights'[f].error
             /\ \A g \in 1..Len(flights) :
                   /\ flights'[g].fp = flights[g].fp
                   /\ flights'[g].done = flights[g].done
                   /\ g # f => flights'[g].error = flights[g].error
  <2> DEFINE v == [flights[f] EXCEPT !.error = TRUE]
  <2>1. v \in Flight /\ v.fp = flights[f].fp /\ v.error /\ v.done = flights[f].done
    BY <1>1 DEF Flight
  <2>2. flights' = [flights EXCEPT ![f] = v]
    BY <1>2 DEF Fails
  <2> HIDE DEF v
  <2>3. FlightSet(f, v)
    BY <2>1, <2>2, FlightEffect DEF Typed
  <2> QED BY <2>1, <2>3 DEF FlightSet
<1>3. ASSUME NEW b \in BOOLEAN, flights' = [flights EXCEPT ![f].done = b]
      PROVE  /\ Len(flights') = Len(flights)
             /\ \A g \in 1..Len(flights) :
                   /\ flights'[g].fp = flights[g].fp
                   /\ flights'[g].error = flights[g].error
                   /\ g # f => flights'[g].done = flights[g].done
  <2> DEFINE v == [flights[f] EXCEPT !.done = b]
  <2>1. v \in Flight /\ v.fp = flights[f].fp /\ v.error = flights[f].error
    BY <1>1 DEF Flight
  <2>2. flights' = [flights EXCEPT ![f] = v]
    BY <1>3
  <2> HIDE DEF v
  <2>3. FlightSet(f, v)
    BY <2>1, <2>2, FlightEffect DEF Typed
  <2> QED BY <2>1, <2>3 DEF FlightSet
<1> QED BY <1>2, <1>3

\* The reply is what the call is answered with.
LEMMA ReplyIs ==
    ASSUME Typed, NEW c \in Callers, NEW reply \in Flights, Answer(c, reply)
    PROVE  /\ caller'[c].pc = "idle" /\ caller'[c].reply = reply
           /\ caller'[c].fp = caller[c].fp
           /\ \A d \in Callers : d # c => caller'[d] = caller[d]
<1> DEFINE v == [caller[c] EXCEPT !.pc = "idle", !.reply = reply]
<1>1. /\ v \in Caller /\ v.pc = "idle" /\ v.fp = caller[c].fp /\ v.reply = reply
  BY DEF Typed, TypeOK, Caller
<1>2. caller' = [caller EXCEPT ![c] = v]
  BY DEF Answer
<1> HIDE DEF v
<1> QED BY <1>1, <1>2, CallerEffect DEF Becomes, Typed

\* The flights keep their requests and their errors, none is lost, nor is a
\* snapshot; whatever has ended well is in the store.
Grows ==
    /\ Len(flights) \in Nat /\ Len(flights') \in Nat /\ Len(flights) <= Len(flights')
    /\ store \subseteq store' /\ store \subseteq 1..Len(flights)
    /\ \A g \in 1..Len(flights) :
          /\ flights'[g].fp = flights[g].fp
          /\ flights[g].error => flights'[g].error
    /\ \A g \in 1..Len(flights') :
          flights'[g].done /\ ~flights'[g].error => g \in store'

\* A new flight is of the request of its caller, and has not ended.
LEMMA LeadRequest ==
    ASSUME Typed, NEW c \in Callers, Lead(c)
    PROVE  /\ flights'[Len(flights')].fp = caller[c].fp
           /\ ~flights'[Len(flights')].done
<1> DEFINE new == [fp |-> caller[c].fp, began |-> 0, dispatched |-> 0,
                   result |-> NoResults, error |-> FALSE, done |-> FALSE]
<1>1. flights' = Append(flights, new) /\ new.fp = caller[c].fp /\ ~new.done
  BY DEF Lead
<1>2. new \in Flight
  BY Numbers DEF Flight, NoResults, Results, Times, Typed, TypeOK, Caller
<1> HIDE DEF new
<1>3. flights \in Seq(Flight)
  BY DEF Typed, TypeOK
<1>4. flights'[Len(flights')] = new
  BY <1>1, <1>2, <1>3
<1> QED BY <1>1, <1>4

\* When no flight ends or fails, the store growing is enough.
LEMMA GrowsKept ==
    ASSUME Typed, InTime, Answered, EndsKept, store \subseteq store'
    PROVE  Grows
<1>1. Len(flights) \in Nat
  BY DEF Typed, TypeOK
<1> QED BY <1>1 DEF Grows, EndsKept, InTime, Answered, Stored

\* In every step flights and store only grow.
LEMMA GrowsStep ==
    ASSUME Typed, InTime, Answered, [Next]_vars
    PROVE  Grows
<1>0. Len(flights) \in Nat
  BY DEF Typed, TypeOK
<1>1. ASSUME UNCHANGED <<flights, store>>
      PROVE  Grows
  BY <1>0, <1>1, GrowsKept DEF EndsKept
<1>2. ASSUME NEW c \in Callers, CallerStep(c)
      PROVE  Grows
  <2> DEFINE f == caller[c].flight
  <2>1. CASE Lead(c)
    <3>1. NewFlight(c) /\ ~flights'[Len(flights')].done
      BY <2>1, LeadNew, LeadRequest
    <3> QED BY <3>1 DEF NewFlight, Grows, InTime, Answered, Stored
  <2>2. CASE Persist(c)
    <3>1. f \in 1..Len(flights)
      BY <2>2 DEF Persist, Typed, Leading
    <3> HIDE DEF f
    <3>2. CASE UNCHANGED flights /\ store' = store \union {f}
      BY <1>0, <3>2, GrowsKept DEF EndsKept
    <3>3. CASE Fails(f) /\ UNCHANGED store
      BY <1>0, <3>1, <3>3, EndOf DEF Grows, InTime, Answered, Stored
    <3> QED BY <2>2, <3>2, <3>3 DEF Persist, f
  <2>3. CASE Signal(c)
    <3>1. /\ f \in 1..Len(flights) /\ UNCHANGED store
          /\ flights' = [flights EXCEPT ![f].done = TRUE]
          /\ f \in store \/ flights[f].error
      BY <2>3 DEF Signal, Typed, Leading, shared, Signals, Answered, Stored
    <3> HIDE DEF f
    <3>2. /\ Len(flights') = Len(flights)
          /\ \A g \in 1..Len(flights) : /\ flights'[g].fp = flights[g].fp
                                        /\ flights'[g].error = flights[g].error
                                        /\ g # f => flights'[g].done = flights[g].done
      BY <3>1, EndOf
    <3> QED BY <1>0, <3>1, <3>2 DEF Grows, InTime, Answered, Stored
  <2>4. CASE ~Lead(c) /\ ~Persist(c) /\ ~Signal(c)
    <3>1. UNCHANGED store
      BY <1>2, <2>4 DEF CallerStep, Lookup, Join, Wake, Start, Dispatch, Admit, Collect,
                        CachePut, Settle, shared
    <3> QED BY <1>2, <2>4, <3>1, EndsStay, GrowsKept
  <2> QED BY <2>1, <2>2, <2>3, <2>4
<1>3. ASSUME NEW c \in Callers, NEW fp \in Fingerprints, Call(c, fp)
      PROVE  Grows
  BY <1>1, <1>3 DEF Call, shared
<1>4. ASSUME NEW f \in 1..MaxFlights, NEW p \in Providers, WorkerStep(f, p) \/ Return(f, p)
      PROVE  Grows
  BY <1>1, <1>4, WorkerMoves DEF shared
<1>5. CASE Close \/ Tick \/ UNCHANGED vars
  BY <1>1, <1>5 DEF Close, Tick, vars, shared
<1> QED BY <1>2, <1>3, <1>4, <1>5 DEF Next

\* Fps, after the step.
FpsNext(f, fp) == f \in 1..Len(flights') /\ flights'[f].fp = fp

\* What a step of c has to show when only its own record changes.
CallOk(c) ==
    /\ \A d \in Callers : d # c => caller'[d] = caller[d]
    /\ caller'[c].pc \in Leading \union {"wait"} => FpsNext(caller'[c].flight, caller'[c].fp)
    /\ caller'[c].pc = "cache" => caller'[c].flight \in store'
    /\ caller'[c].pc \in {"settle", "signal"} =>
          caller'[c].flight \in store' \/ flights'[caller'[c].flight].error
    /\ caller'[c].pc = "idle" /\ caller'[c].reply # 0 =>
          /\ caller'[c].reply \in store' /\ FpsNext(caller'[c].reply, caller'[c].fp)

\* What the cache and the map keep is of its request, and in the store.
KeptOk ==
    \A fp \in Fingerprints :
       /\ inflight'[fp] # 0 => FpsNext(inflight'[fp], fp)
       /\ cache'[fp].flight # 0 => cache'[fp].flight \in store' /\ FpsNext(cache'[fp].flight, fp)

\* What the cache and the map keep stays right when nothing is added.
LEMMA KeptWhole ==
    ASSUME Answered, Grows,
           \A fp \in Fingerprints : /\ inflight'[fp] \in {0, inflight[fp]}
                                    /\ cache'[fp].flight \in {0, cache[fp].flight}
    PROVE  KeptOk
BY DEF KeptOk, Answered, OfRequest, Stored, Fps, FpsNext, Grows

\* A step that is right for its own caller, cache and map is right.
LEMMA AnsweredMove ==
    ASSUME Typed, Answered, Grows, NEW c \in Callers, CallOk(c), KeptOk
    PROVE  Answered'
<1>1. ASSUME NEW d \in Callers, d # c
      PROVE  /\ caller'[d].pc \in Leading \union {"wait"} => FpsNext(caller'[d].flight, caller'[d].fp)
             /\ caller'[d].pc = "cache" => caller'[d].flight \in store'
             /\ caller'[d].pc \in {"settle", "signal"} =>
                   caller'[d].flight \in store' \/ flights'[caller'[d].flight].error
             /\ caller'[d].pc = "idle" /\ caller'[d].reply # 0 =>
                   /\ caller'[d].reply \in store' /\ flights'[caller'[d].reply].fp = caller'[d].fp
  <2>1. caller'[d] = caller[d]
    BY <1>1 DEF CallOk
  <2>2. caller[d].pc \in Leading \union {"wait"} => Fps(caller[d].flight, caller[d].fp)
    BY DEF Answered, OfRequest
  <2>3. caller'[d].pc \in Leading \union {"wait"} => FpsNext(caller'[d].flight, caller'[d].fp)
    BY <2>1, <2>2 DEF Fps, FpsNext, Grows
  <2>4. caller'[d].pc = "cache" => caller'[d].flight \in store'
    BY <2>1 DEF Answered, Stored, Grows
  <2>5. caller'[d].pc \in {"settle", "signal"} =>
           caller'[d].flight \in store' \/ flights'[caller'[d].flight].error
    BY <2>1, <2>2 DEF Answered, Stored, Grows, Fps, Leading
  <2>6. caller'[d].pc = "idle" /\ caller'[d].reply # 0 =>
           /\ caller'[d].reply \in store' /\ flights'[caller'[d].reply].fp = caller'[d].fp
    BY <2>1 DEF Answered, AnswersArePersisted, Grows
  <2> QED BY <2>3, <2>4, <2>5, <2>6
<1>2. OfRequest'
  BY <1>1 DEF CallOk, KeptOk, OfRequest, Fps, FpsNext
<1>3. Stored'
  BY <1>1 DEF CallOk, KeptOk, Stored, Grows
<1>4. AnswersArePersisted'
  BY <1>1 DEF CallOk, AnswersArePersisted, FpsNext
<1> QED BY <1>2, <1>3, <1>4 DEF Answered

\* A step of no caller keeps every answer right.
LEMMA AnsweredOthers ==
    ASSUME Answered, Grows, UNCHANGED <<cache, inflight, caller>>
    PROVE  Answered'
<1>1. OfRequest'
  BY DEF Answered, OfRequest, Fps, Grows
<1>2. Stored'
  BY DEF Answered, OfRequest, Fps, Stored, Grows, Leading
<1>3. AnswersArePersisted'
  BY DEF Answered, AnswersArePersisted, Grows
<1> QED BY <1>1, <1>2, <1>3 DEF Answered

\* A step of a caller keeps every answer right.
LEMMA AnsweredCall ==
    ASSUME Typed, Mapped, InTime, Answered, Grows, NEW c \in Callers, CallerStep(c)
    PROVE  Answered'
<1> DEFINE fp == caller[c].fp
           f == caller[c].flight
<1>0. fp \in Fingerprints /\ f \in Flights /\ Len(flights) \in Nat
  BY DEF Typed, TypeOK, Caller
<1>1. CASE Admit(c) \/ Collect(c)
  BY <1>1, Collects, AnsweredOthers
<1>2. CASE Lead(c)
  <2>1. NewFlight(c) /\ flights'[Len(flights')].fp = fp
    BY <1>2, LeadNew, LeadRequest
  <2>2. inflight' = [inflight EXCEPT ![fp] = Len(flights) + 1]
    BY <1>2 DEF Lead
  <2>3. KeptOk
    <3> HIDE DEF fp
    <3>1. /\ inflight'[fp] = Len(flights')
          /\ \A g \in Fingerprints : g # fp => inflight'[g] = inflight[g]
      BY <1>0, <2>1, <2>2 DEF NewFlight, Typed, TypeOK
    <3>2. cache' = cache
      BY <2>1 DEF NewFlight
    <3>3. FpsNext(inflight'[fp], fp)
      BY <2>1, <3>1 DEF NewFlight, FpsNext
    <3> QED BY <3>1, <3>2, <3>3
            DEF KeptOk, Answered, OfRequest, Stored, Fps, FpsNext, Grows
  <2>4. CallOk(c)
    BY <2>1 DEF CallOk, NewFlight, FpsNext
  <2> QED BY <2>3, <2>4, AnsweredMove
<1>3. CASE Join(c)
  <2>1. /\ inflight[fp] # 0 /\ UNCHANGED <<cache, inflight>>
        /\ caller'[c].pc = "wait" /\ caller'[c].fp = fp
        /\ caller'[c].flight = inflight[fp]
        /\ \A d \in Callers : d # c => caller'[d] = caller[d]
    BY <1>3 DEF Join, Typed, TypeOK, Caller, shared
  <2>2. FpsNext(inflight[fp], fp)
    BY <1>0, <2>1 DEF Answered, OfRequest, Fps, FpsNext, Grows
  <2>3. CallOk(c)
    BY <2>1, <2>2 DEF CallOk, FpsNext
  <2> QED BY <2>1, <2>3, KeptWhole, AnsweredMove
<1>4. CASE Lookup(c)
  <2>1. CASE Goes(c, "join")
    <3>1. \A g \in Fingerprints : /\ inflight'[g] \in {0, inflight[g]}
                                  /\ cache'[g].flight \in {0, cache[g].flight}
      <4>1. /\ UNCHANGED inflight
            /\ \/ cache' = cache
               \/ cache' = [cache EXCEPT ![fp] = [flight |-> 0, expires |-> 0]]
        BY <1>4 DEF Lookup
      <4> HIDE DEF fp
      <4>2. \A g \in Fingerprints : cache'[g].flight \in {0, cache[g].flight}
        <5>1. CASE cache' = cache
          BY <5>1
        <5>2. CASE cache' = [cache EXCEPT ![fp] = [flight |-> 0, expires |-> 0]]
          BY <1>0, <5>2 DEF Typed, TypeOK
        <5> QED BY <4>1, <5>1, <5>2
      <4> QED BY <4>1, <4>2
    <3>2. CallOk(c)
      BY <2>1 DEF Goes, CallOk, Leading
    <3> QED BY <3>1, <3>2, KeptWhole, AnsweredMove
  <2>2. CASE /\ \E reply \in {cache[fp].flight, 0} : Answer(c, reply)
             /\ UNCHANGED cache /\ cache[fp].flight # 0
    <3>1. UNCHANGED <<cache, inflight>>
      BY <1>4, <2>2 DEF Lookup
    <3>2. /\ caller'[c].pc = "idle" /\ caller'[c].reply \in {cache[fp].flight, 0}
          /\ caller'[c].fp = fp
          /\ \A d \in Callers : d # c => caller'[d] = caller[d]
      <4>1. PICK reply \in {cache[fp].flight, 0} : Answer(c, reply)
        BY <2>2
      <4>2. reply \in Flights
        BY <1>0, Numbers DEF Typed, TypeOK, Flights
      <4> QED BY <4>1, <4>2, ReplyIs
    <3>3. cache[fp].flight \in store' /\ FpsNext(cache[fp].flight, fp)
      BY <1>0, <2>2, <3>1 DEF Answered, OfRequest, Stored, Fps, FpsNext, Grows
    <3>4. CallOk(c)
      BY <3>2, <3>3 DEF CallOk, FpsNext, Leading
    <3> QED BY <3>1, <3>4, KeptWhole, AnsweredMove
  <2>3. Goto(c, "join") => Goes(c, "join")
    BY GotoEffect DEF Typed, Pcs
  <2> QED BY <1>4, <2>1, <2>2, <2>3 DEF Lookup
<1>5. CASE Wake(c) \/ Signal(c)
  <2> DEFINE reply == IF flights[f].error THEN 0 ELSE f
  <2>1. Answer(c, reply) /\ UNCHANGED <<cache, inflight, store>>
    BY <1>5 DEF Wake, Signal, shared
  <2>2. Fps(f, fp)
    BY <1>5 DEF Wake, Signal, Answered, OfRequest, Leading
  <2>3. f \in store \/ flights[f].error
    BY <1>5, <2>2 DEF Wake, Signal, Answered, Stored, Fps
  <2>4. /\ caller'[c].pc = "idle" /\ caller'[c].reply = reply /\ caller'[c].fp = fp
        /\ \A d \in Callers : d # c => caller'[d] = caller[d]
    <3>1. reply \in Flights
      BY <1>0, Numbers DEF Flights
    <3> HIDE DEF reply
    <3> QED BY <2>1, <3>1, ReplyIs
  <2>5. reply # 0 => reply \in store' /\ FpsNext(reply, fp)
    BY <2>1, <2>2, <2>3 DEF Fps, FpsNext, Grows
  <2> HIDE DEF reply
  <2>6. CallOk(c)
    BY <2>4, <2>5 DEF CallOk, FpsNext, Leading
  <2> QED BY <2>1, <2>6, KeptWhole, AnsweredMove
<1>6. CASE Start(c) \/ Dispatch(c) \/ Persist(c) \/ CachePut(c) \/ Settle(c)
  <2>1. /\ caller[c].pc \in Leading /\ Fps(f, fp) /\ f \in 1..Len(flights)
        /\ FpsNext(f, fp)
    <3>1. caller[c].pc \in Leading
      BY <1>6 DEF Start, Dispatch, Persist, CachePut, Settle, Leading
    <3>2. Fps(f, fp)
      BY <3>1 DEF Answered, OfRequest
    <3>3. flights'[f].fp = fp /\ f \in 1..Len(flights')
      BY <3>2 DEF Fps, FpsNext, Grows
    <3> QED BY <3>1, <3>2, <3>3 DEF Fps, FpsNext
  <2>2. KeptOk
    <3>1. CASE CachePut(c)
      <4>1. /\ UNCHANGED <<inflight, store>> /\ f \in store
            /\ cache' = [cache EXCEPT ![fp] = [flight |-> f, expires |-> clock + Ttl]]
        BY <3>1 DEF CachePut, Answered, Stored
      <4>2. flights'[f].fp = fp /\ f \in 1..Len(flights')
        BY <2>1 DEF Fps, FpsNext, Grows
      <4> HIDE DEF f, fp
      <4>3. /\ cache'[fp].flight = f
            /\ \A g \in Fingerprints : g # fp => cache'[g] = cache[g]
        BY <1>0, <4>1 DEF Typed, TypeOK
      <4> QED BY <1>0, <4>1, <4>2, <4>3 DEF KeptOk, Answered, OfRequest, Stored, Fps, FpsNext, Grows
    <3>2. CASE ~CachePut(c)
      <4>1. /\ cache' = cache
            /\ inflight' = inflight \/ inflight' = [inflight EXCEPT ![fp] = 0]
        BY <1>6, <3>2 DEF Start, Dispatch, Persist, Settle, shared
      <4>2. \A g \in Fingerprints : /\ inflight'[g] \in {0, inflight[g]}
                                    /\ cache'[g].flight \in {0, cache[g].flight}
        BY <1>0, <4>1 DEF Typed, TypeOK
      <4> QED BY <4>2, KeptWhole
    <3> QED BY <3>1, <3>2
  <2>3. PICK pc \in Leading :
           /\ Goes(c, pc)
           /\ pc = "cache" => f \in store'
           /\ pc \in {"settle", "signal"} => f \in store' \/ flights'[f].error
    <3>1. CASE Start(c) \/ Dispatch(c)
      <4>1. \E pc \in {"dispatch", "providers"} : Goes(c, pc)
        BY <3>1, GotoEffect DEF Start, Dispatch, Typed, Pcs
      <4> QED BY <4>1 DEF Leading
    <3>2. CASE Persist(c)
      <4>1. \/ Goes(c, "cache") /\ f \in store'
            \/ Goes(c, "settle") /\ Fails(f)
        BY <3>2, GotoEffect DEF Persist, Typed, Pcs
      <4>2. Fails(f) => flights'[f].error
        BY <2>1, EndOf
      <4> QED BY <4>1, <4>2 DEF Leading
    <3>3. CASE CachePut(c) \/ Settle(c)
      <4>1. (Goes(c, "settle") \/ Goes(c, "signal")) /\ UNCHANGED <<store, flights>>
        BY <3>3, GotoEffect DEF CachePut, Settle, Typed, Pcs
      <4>2. f \in store \/ flights[f].error
        BY <3>3 DEF CachePut, Settle, Answered, Stored
      <4> QED BY <4>1, <4>2 DEF Leading
    <3> QED BY <1>6, <3>1, <3>2, <3>3
  <2>4. CallOk(c)
    <3>1. /\ caller'[c].pc = pc /\ caller'[c].fp = fp /\ caller'[c].flight = f
          /\ \A d \in Callers : d # c => caller'[d] = caller[d]
      BY <2>3 DEF Goes
    <3>2. flights'[f].fp = fp /\ f \in 1..Len(flights')
      BY <2>1 DEF Fps, FpsNext, Grows
    <3> HIDE DEF f, fp
    <3> QED BY <2>3, <3>1, <3>2 DEF CallOk, FpsNext, Leading
  <2> QED BY <2>2, <2>4, AnsweredMove
<1> QED BY <1>1, <1>2, <1>3, <1>4, <1>5, <1>6 DEF CallerStep

\* Every step keeps every answer right.
LEMMA AnsweredStep ==
    ASSUME Inv, Answered, [Next]_vars
    PROVE  Answered'
<1>1. Grows
  BY GrowsStep DEF Inv
<1>2. ASSUME NEW c \in Callers, CallerStep(c)
      PROVE  Answered'
  BY <1>1, <1>2, AnsweredCall DEF Inv
<1>3. ASSUME NEW c \in Callers, NEW fp \in Fingerprints, Call(c, fp)
      PROVE  Answered'
  <2>1. caller'[c].pc = "lookup" /\ \A d \in Callers : d # c => caller'[d] = caller[d]
    BY <1>3, CallTyped DEF Inv
  <2>2. UNCHANGED <<cache, inflight>>
    BY <1>3 DEF Call, shared
  <2>3. CallOk(c)
    BY <2>1 DEF CallOk, Leading
  <2> QED BY <1>1, <2>2, <2>3, KeptWhole, AnsweredMove DEF Inv
<1>4. ASSUME NEW f \in 1..MaxFlights, NEW p \in Providers, WorkerStep(f, p) \/ Return(f, p)
      PROVE  Answered'
  BY <1>1, <1>4, WorkerMoves, AnsweredOthers DEF shared, Inv
<1>5. CASE Close \/ Tick \/ UNCHANGED vars
  BY <1>1, <1>5, AnsweredOthers DEF Close, Tick, vars, shared
<1> QED BY <1>2, <1>3, <1>4, <1>5 DEF Next

\* No call is answered at first.
LEMMA AnsweredInit == Init => Answered
<1> SUFFICES ASSUME Init PROVE Answered
  OBVIOUS
<1>1. /\ \A c \in Callers : caller[c].pc = "idle" /\ caller[c].reply = 0
      /\ flights = <<>> /\ store = {}
      /\ \A fp \in Fingerprints : cache[fp].flight = 0 /\ inflight[fp] = 0
  BY DEF Init
<1> QED BY <1>1 DEF Answered, OfRequest, Stored, AnswersArePersisted, Leading

(* Whatever a call returns is a snapshot of its own request that the store *)
(* holds (_acquire_single_flight, _run_acquisition).                       *)
THEOREM AnswersAreInTheStore == Spec => []AnswersArePersisted
<1>1. Init => Inv /\ Answered
  BY Inductive, AnsweredInit
<1>2. (Inv /\ Answered) /\ [Next]_vars => (Inv /\ Answered)'
  BY Inductive, AnsweredStep
<1>3. Inv /\ Answered => AnswersArePersisted
  BY DEF Answered
<1> QED BY <1>1, <1>2, <1>3, PTL DEF Spec

(* At most one acquisition of a request is under way.                      *)
THEOREM OneAtATime == Spec => []OneFlightPerRequest
<1>1. Inv => OneFlightPerRequest
  BY DEF Inv, Mapped, Led, InMap, Leading, OneFlightPerRequest
<1> QED BY <1>1, Always, PTL

----------------------------------------------------------------------------
(* The window in which a late result is hidden.                            *)

\* The callable has returned.
Over(f, p) == work[f][p].state \in {"captured", "published", "released"}

\* The completion of a provider was in time and is reported as a timeout.
Hidden(f, p) ==
    /\ flights[f].result[p] = "timeout"
    /\ Over(f, p) /\ work[f][p].at <= Limiting(f)

\* The coordinator gives up on a worker that has its time and has not
\* published it, or the callable returns at the very instant of its deadline.
InWindow(f, p) ==
    \/ \E c \in Callers : Collect(c) /\ caller[c].flight = f /\ work[f][p].state = "captured"
    \/ Return(f, p) /\ clock = Limiting(f)

HiddenSoon ==
    \A f \in 1..Len(flights), p \in Providers :
        Hidden(f, p)' /\ ~Hidden(f, p) => InWindow(f, p)

\* Nobody is given up on early, and no worker returns in the future.
Waited ==
    /\ \A f \in 1..Len(flights), p \in Providers :
          flights[f].result[p] = "timeout" => clock >= Limiting(f)
    /\ \A f \in 1..MaxFlights, p \in Providers : Over(f, p) => work[f][p].at <= clock

\* The clock, the deadlines and the times of work are naturals.
LEMMA TimesAre ==
    ASSUME Typed
    PROVE  /\ clock \in Nat
           /\ \A f \in 1..Len(flights) : Limiting(f) \in Nat /\ f \in 1..MaxFlights
           /\ \A f \in 1..MaxFlights, p \in Providers : work[f][p].at \in Nat
<1>1. clock \in Nat
  BY Numbers DEF Typed, TypeOK, Times
<1>2. ASSUME NEW f \in 1..Len(flights)
      PROVE  Limiting(f) \in Nat /\ f \in 1..MaxFlights
  <2>1. flights[f] \in Flight
    BY <1>2, FlightIs DEF Typed
  <2>2. flights[f].dispatched \in Nat /\ flights[f].began \in Nat
    BY <2>1, Numbers DEF Flight, Times
  <2> QED BY <1>2, <2>2, Numbers DEF Limiting, Earlier, Typed, TypeOK
<1>3. ASSUME NEW f \in 1..MaxFlights, NEW p \in Providers
      PROVE  work[f][p].at \in Nat
  <2>0. work \in [1..MaxFlights -> [Providers -> Work]]
    BY DEF Typed, TypeOK
  <2>1. work[f][p] \in Work
    BY <2>0
  <2> QED BY <2>1, Numbers DEF Work, Times
<1> QED BY <1>1, <1>2, <1>3

\* A result that is not "none" stays, and so does the deadline it was judged by.
LEMMA Judged ==
    ASSUME Typed, Led, [Next]_vars, NEW f \in 1..Len(flights), NEW p \in Providers
    PROVE  \/ /\ flights'[f].result[p] = flights[f].result[p]
              /\ flights[f].result[p] # "none" => Limiting(f)' = Limiting(f)
           \/ /\ \E c \in Callers : Admit(c)
              /\ flights'[f].result[p] \in {"closed", "exhausted"}
           \/ /\ Limiting(f)' = Limiting(f)
              /\ \E c \in Callers : Collect(c) /\ caller[c].flight = f
              /\ flights[f].result[p] = "none"
              /\ UNCHANGED <<clock, work>>
              /\ Completed(f, p) \/ clock >= Limiting(f)
              /\ flights'[f].result[p] = IF OnTime(f, p) THEN "done" ELSE "timeout"
<1>1. ASSUME UNCHANGED flights
      PROVE  /\ flights'[f].result[p] = flights[f].result[p]
             /\ Limiting(f)' = Limiting(f)
  BY <1>1 DEF Limiting
<1>2. ASSUME ResultsKept
      PROVE  /\ flights'[f].result[p] = flights[f].result[p]
             /\ Limiting(f)' = Limiting(f)
  BY <1>2 DEF ResultsKept, Limiting
<1>3. ASSUME NEW c \in Callers, Lead(c)
      PROVE  /\ flights'[f].result[p] = flights[f].result[p]
             /\ Limiting(f)' = Limiting(f)
  BY <1>3, LeadNew DEF NewFlight, Limiting
<1>4. ASSUME NEW c \in Callers, NEW g \in 1..Len(flights), g = caller[c].flight,
             caller[c].pc \in {"start", "dispatch"}, TimeTaken(g)
      PROVE  /\ flights'[f].result[p] = flights[f].result[p]
             /\ flights[f].result[p] # "none" => Limiting(f)' = Limiting(f)
  <2>1. CASE g = f
    <3>1. flights[f].result[p] = "none"
      BY <1>4, <2>1 DEF Led
    <3>2. flights'[f].result[p] = flights[f].result[p]
      BY <1>4, <2>1 DEF TimeTaken
    <3> QED BY <3>1, <3>2
  <2>2. CASE g # f
    BY <1>4, <2>2 DEF TimeTaken, Limiting
  <2> QED BY <2>1, <2>2
<1>5. ASSUME NEW c \in Callers, NEW g \in 1..Len(flights), NEW q \in Providers,
             NEW result \in Results, SetResult(g, q, result)
      PROVE  /\ Limiting(f)' = Limiting(f)
             /\ flights'[f].result[p] = IF g = f /\ q = p THEN result
                                        ELSE flights[f].result[p]
  BY <1>5, ResultEffect DEF ResultSet, Limiting, Typed
<1>6. ASSUME NEW c \in Callers, Admit(c), ~ UNCHANGED flights
      PROVE  \/ /\ flights'[f].result[p] = flights[f].result[p]
                /\ Limiting(f)' = Limiting(f)
             \/ flights'[f].result[p] \in {"closed", "exhausted"}
  <2>1. caller[c].flight \in 1..Len(flights)
    BY <1>6 DEF Admit, Typed, Leading
  <2>2. PICK q \in Providers, result \in {"closed", "exhausted"} :
           SetResult(caller[c].flight, q, result)
    BY <1>6 DEF Admit
  <2>3. result \in Results
    BY DEF Results
  <2> QED BY <1>5, <2>1, <2>2, <2>3
<1>7. ASSUME NEW c \in Callers, Collect(c)
      PROVE  \/ /\ flights'[f].result[p] = flights[f].result[p]
                /\ Limiting(f)' = Limiting(f)
             \/ /\ Limiting(f)' = Limiting(f) /\ caller[c].flight = f
                /\ flights[f].result[p] = "none"
                /\ UNCHANGED <<clock, work>>
                /\ Completed(f, p) \/ clock >= Limiting(f)
                /\ flights'[f].result[p] = IF OnTime(f, p) THEN "done" ELSE "timeout"
  <2> DEFINE g == caller[c].flight
  <2>1. g \in 1..Len(flights) /\ UNCHANGED <<clock, work>>
    BY <1>7 DEF Collect, Typed, Leading
  <2>2. PICK q \in Providers :
           /\ flights[g].result[q] = "none"
           /\ Completed(g, q) \/ clock >= Limiting(g)
           /\ SetResult(g, q, IF OnTime(g, q) THEN "done" ELSE "timeout")
    BY <1>7 DEF Collect, First, NotCollected
  <2>3. (IF OnTime(g, q) THEN "done" ELSE "timeout") \in Results
    BY DEF Results
  <2> HIDE DEF g
  <2>4. /\ Limiting(f)' = Limiting(f)
        /\ flights'[f].result[p] =
              IF g = f /\ q = p THEN IF OnTime(g, q) THEN "done" ELSE "timeout"
              ELSE flights[f].result[p]
    <3> DEFINE result == IF OnTime(g, q) THEN "done" ELSE "timeout"
    <3>1. result \in Results /\ SetResult(g, q, result)
      BY <2>2, <2>3
    <3> HIDE DEF result
    <3>2. /\ Limiting(f)' = Limiting(f)
          /\ flights'[f].result[p] = IF g = f /\ q = p THEN result
                                     ELSE flights[f].result[p]
      BY <1>5, <2>1, <3>1
    <3> QED BY <3>2 DEF result
  <2>5. CASE g = f /\ q = p
    BY <2>1, <2>2, <2>4, <2>5 DEF g
  <2>6. CASE ~(g = f /\ q = p)
    BY <2>4, <2>6
  <2> QED BY <2>5, <2>6
<1>8. ASSUME NEW c \in Callers, CallerStep(c), ~Lead(c), ~Admit(c), ~Collect(c)
      PROVE  /\ flights'[f].result[p] = flights[f].result[p]
             /\ flights[f].result[p] # "none" => Limiting(f)' = Limiting(f)
  <2>1. caller[c].pc \in {"start", "dispatch"} => caller[c].flight \in 1..Len(flights)
    BY DEF Typed, Leading
  <2> QED BY <1>1, <1>2, <1>4, <1>8, <2>1, Quiet
<1>9. CASE \E c \in Callers : CallerStep(c)
  BY <1>1, <1>3, <1>6, <1>7, <1>8, <1>9
<1>10. CASE ~ \E c \in Callers : CallerStep(c)
  <2>1. UNCHANGED flights
    BY <1>10, WorkerMoves DEF Next, Call, Close, Tick, vars
  <2> QED BY <1>1, <2>1
<1> QED BY <1>9, <1>10

\* What a worker has returned was there before, or is returned now.
LEMMA Returns ==
    ASSUME Typed, [Next]_vars, NEW f \in 1..MaxFlights, NEW p \in Providers, Over(f, p)'
    PROVE  \/ Over(f, p) /\ work'[f][p].at = work[f][p].at
           \/ Return(f, p) /\ work'[f][p].at = clock
<1>1. CASE UNCHANGED work
  BY <1>1 DEF Over
<1>2. ASSUME NEW c \in Callers, Admit(c), ~ UNCHANGED work
      PROVE  Over(f, p) /\ work'[f][p].at = work[f][p].at
  <2> DEFINE g == caller[c].flight
  <2>1. TypeOK /\ g \in 1..MaxFlights
    BY SMTT(30), <1>2, Numbers DEF Admit, Typed, TypeOK, Leading
  <2>2. PICK q \in Providers : work' = [work EXCEPT ![g][q].state = "queued"]
    BY <1>2 DEF Admit, pool
  <2> HIDE DEF g
  <2>3. WorkSet(g, q, [state |-> "queued", at |-> work[g][q].at])
    BY <2>1, <2>2, StateEffect DEF States
  <2> QED BY <2>3 DEF WorkSet, Over
<1>3. ASSUME NEW g \in 1..MaxFlights, NEW q \in Providers, WorkerStep(g, q) \/ Return(g, q)
      PROVE  \/ Over(f, p) /\ work'[f][p].at = work[f][p].at
             \/ Return(f, p) /\ work'[f][p].at = clock
  <2>1. TypeOK
    BY DEF Typed
  <2>2. CASE Run(g, q)
    <3>1. WorkSet(g, q, [state |-> "running", at |-> work[g][q].at])
      BY <2>1, <2>2, StateEffect DEF Run, WorkStep, States
    <3> QED BY <3>1 DEF WorkSet, Over
  <2>3. CASE Publish(g, q)
    <3>1. WorkSet(g, q, [state |-> "published", at |-> work[g][q].at])
      BY <2>1, <2>3, StateEffect DEF Publish, WorkStep, States
    <3>2. Over(g, q) /\ work'[g][q].at = work[g][q].at
      BY <2>3, <3>1 DEF WorkSet, Over, Publish, WorkStep
    <3> QED BY <3>1, <3>2 DEF WorkSet, Over
  <2>4. CASE Release(g, q)
    <3>1. WorkSet(g, q, [state |-> "released", at |-> work[g][q].at])
      BY <2>1, <2>4, StateEffect DEF Release, WorkStep, States
    <3>2. Over(g, q) /\ work'[g][q].at = work[g][q].at
      BY <2>4, <3>1 DEF WorkSet, Over, Release, WorkStep
    <3> QED BY <3>1, <3>2 DEF WorkSet, Over
  <2>5. CASE Return(g, q)
    <3>1. [state |-> "captured", at |-> clock] \in Work
      BY <2>1 DEF TypeOK, Work
    <3>2. WorkSet(g, q, [state |-> "captured", at |-> clock])
      BY <2>1, <2>5, <3>1, WorkEffect DEF Return
    <3> QED BY <2>5, <3>2 DEF WorkSet, Over
  <2> QED BY <1>3, <2>2, <2>3, <2>4, <2>5 DEF WorkerStep
<1> QED BY <1>1, <1>2, <1>3
        DEF Next, CallerStep, Lookup, Join, Lead, Wake, Start, Dispatch, Collect, Persist,
            CachePut, Settle, Signal, Call, Close, Tick, vars, pool

\* The clock never goes back.
LEMMA ClockForward ==
    ASSUME Typed, [Next]_vars
    PROVE  clock' \in Nat /\ clock' >= clock
<1>1. clock \in Nat
  BY TimesAre
<1>2. clock' = clock \/ clock' = clock + 1
  <2>1. ASSUME NEW c \in Callers, CallerStep(c)
        PROVE  clock' = clock
    BY <2>1 DEF CallerStep, Lookup, Join, Lead, Wake, Start, Dispatch, Admit, Collect,
                Persist, CachePut, Settle, Signal
  <2> QED BY <2>1, WorkerMoves DEF Next, Call, Close, Tick, vars
<1> QED BY <1>1, <1>2

\* Every step that hides a result does so within the window.
LEMMA WindowStep ==
    ASSUME Typed, Led, Waited, [Next]_vars
    PROVE  Waited' /\ HiddenSoon
<1>0. /\ clock \in Nat /\ clock' \in Nat /\ clock' >= clock
      /\ \A f \in 1..Len(flights) : Limiting(f) \in Nat /\ f \in 1..MaxFlights
      /\ \A f \in 1..MaxFlights, p \in Providers : work[f][p].at \in Nat
  BY ClockForward, TimesAre
<1>1. ASSUME NEW f \in 1..Len(flights), NEW p \in Providers, flights'[f].result[p] = "timeout"
      PROVE  /\ Limiting(f)' = Limiting(f) /\ clock >= Limiting(f)
             /\ \/ flights[f].result[p] = "timeout"
                \/ /\ \E c \in Callers : Collect(c) /\ caller[c].flight = f
                   /\ UNCHANGED work /\ ~OnTime(f, p)
  <2>1. CASE flights[f].result[p] = "timeout"
    BY <1>1, <2>1, Judged DEF Waited
  <2>2. CASE flights[f].result[p] # "timeout"
    <3>1. /\ Limiting(f)' = Limiting(f)
          /\ \E c \in Callers : Collect(c) /\ caller[c].flight = f
          /\ UNCHANGED <<clock, work>>
          /\ Completed(f, p) \/ clock >= Limiting(f)
          /\ ~OnTime(f, p)
      BY <1>1, <2>2, Judged
    <3>2. clock >= Limiting(f)
      BY <1>0, <3>1 DEF OnTime, Completed, Waited, Over
    <3> QED BY <3>1, <3>2
  <2> QED BY <2>1, <2>2
<1>2. ASSUME NEW f \in 1..MaxFlights, NEW p \in Providers, Over(f, p)'
      PROVE  (work[f][p].at <= clock)'
  BY <1>0, <1>2, Returns DEF Waited
<1>3. ASSUME NEW f \in 1..Len(flights'), NEW p \in Providers,
             flights'[f].result[p] = "timeout"
      PROVE  (clock >= Limiting(f))'
  <2>1. f \in 1..Len(flights)
    <3>1. CASE \E c \in Callers : Lead(c)
      BY <1>3, <3>1, LeadNew DEF NewFlight
    <3>2. CASE ~ \E c \in Callers : Lead(c)
      <4>1. Len(flights') = Len(flights)
        <5>1. ASSUME NEW c \in Callers, CallerStep(c)
              PROVE  Len(flights') = Len(flights)
          BY <3>2, <5>1, Collects, Quiet DEF ResultSet, TimeTaken, ResultsKept
        <5> QED BY <5>1, WorkerMoves DEF Next, Call, Close, Tick, vars
      <4> QED BY <1>3, <4>1
    <3> QED BY <3>1, <3>2
  <2>2. Limiting(f)' = Limiting(f) /\ clock >= Limiting(f) /\ Limiting(f) \in Nat
    BY <1>0, <1>1, <1>3, <2>1
  <2> QED BY <1>0, <2>2
<1>4. ASSUME NEW f \in 1..Len(flights), NEW p \in Providers, Hidden(f, p)', ~Hidden(f, p)
      PROVE  InWindow(f, p)
  <2>1. f \in 1..MaxFlights
    BY <1>0
  <2>2. /\ Limiting(f)' = Limiting(f) /\ clock >= Limiting(f)
        /\ \/ flights[f].result[p] = "timeout"
           \/ /\ \E c \in Callers : Collect(c) /\ caller[c].flight = f
              /\ UNCHANGED work /\ ~OnTime(f, p)
    BY <1>1, <1>4 DEF Hidden
  <2>3. Over(f, p)' /\ work'[f][p].at <= Limiting(f)
    BY <1>4, <2>2 DEF Hidden
  <2>4. CASE flights[f].result[p] = "timeout"
    <3>1. Return(f, p) /\ work'[f][p].at = clock
      BY <1>4, <2>1, <2>3, <2>4, Returns DEF Hidden
    <3> QED BY <1>0, <2>2, <2>3, <3>1 DEF InWindow
  <2>5. CASE /\ \E c \in Callers : Collect(c) /\ caller[c].flight = f
             /\ UNCHANGED work /\ ~OnTime(f, p)
    <3>1. work[f][p].state = "captured"
      BY <2>3, <2>5 DEF Over, OnTime, Completed
    <3> QED BY <2>5, <3>1 DEF InWindow
  <2> QED BY <2>2, <2>4, <2>5
<1> QED BY <1>2, <1>3, <1>4 DEF Waited, HiddenSoon

(* A completion in time is reported as a timeout only through one of two   *)
(* windows: its worker has taken the time and not yet set the completion   *)
(* marker when the coordinator gives up, or it returns at the instant of   *)
(* the deadline, after the coordinator (_run_provider_work,                *)
(* _resolve_deadline_outcome).                                             *)
THEOREM HiddenOnlyInWindow == Spec => [][HiddenSoon]_vars
<1>1. Init => Waited
  <2> SUFFICES ASSUME Init PROVE Waited
    OBVIOUS
  <2>1. flights = <<>> /\ \A f \in 1..MaxFlights, p \in Providers : work[f][p].state = "none"
    BY DEF Init
  <2> QED BY <2>1 DEF Waited, Over
<1>2. (Inv /\ Waited) /\ [Next]_vars => (Inv /\ Waited)' /\ [HiddenSoon]_vars
  BY Inductive, WindowStep DEF Inv
<1> QED BY <1>1, <1>2, Inductive, PTL DEF Spec
=============================================================================
