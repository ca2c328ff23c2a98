---------------------------- MODULE Acquisition ----------------------------
(***************************************************************************)
(* The Radar acquisition service (app/radar_runtime/service.py, cache.py,  *)
(* snapshot_store.py): a call looks in the cache, joins the flight of its  *)
(* fingerprint or leads one, hands the providers to a bounded pool, waits  *)
(* for each until its deadline, persists one snapshot and publishes it to  *)
(* the calls that waited.                                                  *)
(*                                                                         *)
(* Callers and provider workers are threads; the clock is the monotonic    *)
(* clock.  A snapshot has the number of the flight that took it, since a   *)
(* flight takes at most one.  Every source is configured, and whatever a   *)
(* provider returned or raised in time is "done": how it is classified is  *)
(* not modelled.                                                           *)
(***************************************************************************)
EXTENDS Naturals, Sequences, FiniteSets

CONSTANTS
    Callers,        \* threads that call acquire, again and again
    Fingerprints,   \* of their requests
    Sources,        \* how many providers a request names
    Capacity,       \* max_concurrent_providers
    PerTimeout,     \* per_provider_timeout_seconds
    TotalBudget,    \* total_budget_seconds
    Ttl,            \* of the cache
    MaxTime,        \* bound: the clock stops here
    MaxFlights,     \* bound: acquisitions
    MaxStrays       \* bound: workers that cannot be started

ASSUME AcquisitionAssumption ==
    /\ IsFiniteSet(Callers)
    /\ {Sources, Capacity, PerTimeout, TotalBudget} \subseteq Nat \ {0}
    /\ {Ttl, MaxTime, MaxFlights, MaxStrays} \subseteq Nat
    /\ PerTimeout <= MaxTime

VARIABLES
    clock,
    cache,      \* fingerprint -> [flight, expires], flight 0 for no entry
    store,      \* the flights whose snapshot was persisted
    inflight,   \* _inflight: fingerprint -> flight, 0 for none
    flights,    \* the flights, in the order they were created
    work,       \* flight -> provider -> what its worker is doing
    capacity,   \* _provider_capacity
    threads,    \* the pool's threads, started one by one as work comes
    closed,     \* _closed
    caller      \* what each caller is doing

shared == <<cache, store, inflight>>
pool == <<work, capacity, threads, closed>>
vars == <<clock, shared, flights, pool, caller>>

----------------------------------------------------------------------------
\* The providers, in the order of their names.
Providers == 1..Sources
Times == 0..MaxTime
Flights == 0..MaxFlights

Results == {"none", "done", "timeout", "exhausted", "closed"}

\* began: started_mono, dispatched: dispatch_mono.
Flight == [fp : Fingerprints, began : Times, dispatched : Times,
           result : [Providers -> Results], error : BOOLEAN, done : BOOLEAN]

\* captured: completed_mono was taken and is not visible yet; published: the
\* completion marker is set; released: the slot was given back.
Work == [state : {"none", "queued", "running", "captured", "published", "released"},
         at : Times]

\* reply: the snapshot, or 0 for an error.
Caller == [pc : {"idle", "lookup", "join", "wait", "start", "dispatch",
                 "providers", "cache", "settle", "signal"},
           fp : Fingerprints, flight : Flights, reply : Flights]

TypeOK ==
    /\ clock \in Times
    /\ cache \in [Fingerprints -> [flight : Flights, expires : 0..(MaxTime + Ttl)]]
    /\ store \subseteq 1..MaxFlights
    /\ inflight \in [Fingerprints -> 0..Len(flights)]
    /\ flights \in Seq(Flight) /\ Len(flights) <= MaxFlights
    /\ work \in [1..MaxFlights -> [Providers -> Work]]
    /\ capacity \in 0..Capacity /\ threads \in 0..Capacity /\ closed \in BOOLEAN
    /\ caller \in [Callers -> Caller]

NoResults == [p \in Providers |-> "none"]

Init ==
    /\ clock = 0
    /\ cache = [fp \in Fingerprints |-> [flight |-> 0, expires |-> 0]]
    /\ store = {}
    /\ inflight = [fp \in Fingerprints |-> 0]
    /\ flights = <<>>
    /\ work = [f \in 1..MaxFlights |->
                 [p \in Providers |-> [state |-> "none", at |-> 0]]]
    /\ capacity = Capacity /\ threads = 0 /\ closed = FALSE
    /\ \E fp \in Fingerprints :
          caller = [c \in Callers |->
                      [pc |-> "idle", fp |-> fp, flight |-> 0, reply |-> 0]]

Goto(c, pc) == caller' = [caller EXCEPT ![c].pc = pc]

Answer(c, reply) ==
    caller' = [caller EXCEPT ![c].pc = "idle", ![c].reply = reply]

----------------------------------------------------------------------------
\* Bound: the calls that may yet lead a flight.
Undecided == {c \in Callers : caller[c].pc \in {"lookup", "join"}}

(* acquire is called, with a flight and the time to answer it left.        *)
Call(c, fp) ==
    /\ caller[c].pc = "idle"
    /\ Len(flights) + Cardinality(Undecided) < MaxFlights
    /\ clock + PerTimeout <= MaxTime
    /\ caller' = [caller EXCEPT ![c] =
          [pc |-> "lookup", fp |-> fp, flight |-> 0, reply |-> 0]]
    /\ UNCHANGED <<clock, shared, flights, pool>>

(* The cache and the store.  A cached snapshot is read, or the store       *)
(* raises; nothing ever deletes one.  An expired entry is deleted.         *)
Lookup(c) ==
    LET fp == caller[c].fp IN
    /\ caller[c].pc = "lookup"
    /\ IF cache[fp].flight # 0 /\ clock < cache[fp].expires
       THEN /\ \E reply \in {cache[fp].flight, 0} : Answer(c, reply)
            /\ UNCHANGED cache
       ELSE /\ Goto(c, "join")
            /\ cache' = [cache EXCEPT ![fp] = [flight |-> 0, expires |-> 0]]
    /\ UNCHANGED <<clock, store, inflight, flights, pool>>

MayLead(c) == inflight[caller[c].fp] = 0

(* The single-flight map, under its lock: wait for the flight ...          *)
Join(c) ==
    LET f == inflight[caller[c].fp] IN
    /\ caller[c].pc = "join" /\ f # 0
    /\ caller' = [caller EXCEPT ![c].pc = "wait", ![c].flight = f]
    /\ UNCHANGED <<clock, shared, flights, pool>>

(* ... or lead one.                                                        *)
Lead(c) ==
    LET fp == caller[c].fp
        f  == Len(flights) + 1 IN
    /\ caller[c].pc = "join" /\ MayLead(c)
    /\ inflight' = [inflight EXCEPT ![fp] = f]
    /\ flights' = Append(flights, [fp |-> fp, began |-> 0, dispatched |-> 0,
          result |-> NoResults, error |-> FALSE, done |-> FALSE])
    /\ caller' = [caller EXCEPT ![c].pc = "start", ![c].flight = f]
    /\ UNCHANGED <<clock, cache, store, pool>>

(* flight.done is set: its snapshot, or its error.                         *)
Wake(c) ==
    LET f == caller[c].flight IN
    /\ caller[c].pc = "wait" /\ flights[f].done
    /\ Answer(c, IF flights[f].error THEN 0 ELSE f)
    /\ UNCHANGED <<clock, shared, flights, pool>>

(* started_mono.                                                           *)
Start(c) ==
    /\ caller[c].pc = "start"
    /\ flights' = [flights EXCEPT ![caller[c].flight].began = clock]
    /\ Goto(c, "dispatch")
    /\ UNCHANGED <<clock, shared, pool>>

(* dispatch_mono, one for all the providers.                               *)
Dispatch(c) ==
    /\ caller[c].pc = "dispatch"
    /\ flights' = [flights EXCEPT ![caller[c].flight].dispatched = clock]
    /\ Goto(c, "providers")
    /\ UNCHANGED <<clock, shared, pool>>

SetResult(f, p, result) ==
    flights' = [flights EXCEPT ![f].result[p] = result]

\* p is the first provider of S, in the order of their names.
First(p, S) == p \in S /\ \A q \in S : p <= q

NotAdmitted(f) == {p \in Providers : flights[f].result[p] = "none"
                                       /\ work[f][p].state = "none"}
NotCollected(f) == {p \in Providers : flights[f].result[p] = "none"}

\* Queued although its caller was told that the service is closed.
IsStray(f, p) ==
    flights[f].result[p] = "closed" /\ work[f][p].state # "none"

Strays == {w \in (1..Len(flights)) \X Providers : IsStray(w[1], w[2])}

(* A provider is admitted, or refused by a closed service or for want of a *)
(* slot: one critical section of the lifecycle lock, so that close() is    *)
(* before or after it.  submit() queues the work and starts a thread when  *)
(* none is idle; if that raises, the slot is given back at once.           *)
Admit(c) ==
    LET f == caller[c].flight IN
    /\ caller[c].pc = "providers"
    /\ \E p \in Providers : First(p, NotAdmitted(f)) /\
       \/ /\ closed
          /\ SetResult(f, p, "closed")
          /\ UNCHANGED pool
       \/ /\ ~closed /\ capacity = 0
          /\ SetResult(f, p, "exhausted")
          /\ UNCHANGED pool
       \/ /\ ~closed /\ capacity > 0
          /\ capacity' = capacity - 1
          /\ work' = [work EXCEPT ![f][p].state = "queued"]
          /\ threads' \in {threads, threads + 1} \cap 1..Capacity
          /\ UNCHANGED <<flights, closed>>
       \/ /\ ~closed /\ capacity > 0 /\ threads < Capacity
          /\ Cardinality(Strays) < MaxStrays
          /\ work' = [work EXCEPT ![f][p].state = "queued"]
          /\ SetResult(f, p, "closed")
          /\ UNCHANGED <<capacity, threads, closed>>
    /\ UNCHANGED <<clock, shared, caller>>

----------------------------------------------------------------------------
\* The limiting deadline of a flight's providers.
Earlier(s, t) == IF s <= t THEN s ELSE t
Limiting(f) == Earlier(flights[f].dispatched + PerTimeout,
                       flights[f].began + TotalBudget)

\* state.completed
Completed(f, p) == work[f][p].state \in {"published", "released"}

\* Faulty: whatever has completed when it is looked at is in time.
ByObservation(f, p) == Completed(f, p)

\* _resolve_deadline_outcome: by the worker's time, not the coordinator's.
OnTime(f, p) == Completed(f, p) /\ work[f][p].at <= Limiting(f)

\* Faulty: the deadline of a provider gives its slot back.
TimeoutReleases(f, p) ==
    capacity' = IF ~Completed(f, p) THEN capacity + 1 ELSE capacity

KeepsSlot(f, p) == UNCHANGED capacity

(* The wait for the next provider ends: it has completed, or it is time.   *)
Collect(c) ==
    LET f == caller[c].flight IN
    /\ caller[c].pc = "providers" /\ NotAdmitted(f) = {}
    /\ \E p \in Providers :
          /\ First(p, NotCollected(f))
          /\ Completed(f, p) \/ clock >= Limiting(f)
          /\ SetResult(f, p, IF OnTime(f, p) THEN "done" ELSE "timeout")
          /\ KeepsSlot(f, p)
    /\ UNCHANGED <<clock, shared, work, threads, closed, caller>>

Fails(f) == flights' = [flights EXCEPT ![f].error = TRUE]

(* store.put, or its exception.                                            *)
Persist(c) ==
    LET f == caller[c].flight IN
    /\ caller[c].pc = "providers" /\ NotCollected(f) = {}
    /\ \/ /\ store' = store \union {f}
          /\ Goto(c, "cache")
          /\ UNCHANGED flights
       \/ /\ Fails(f)
          /\ Goto(c, "settle")
          /\ UNCHANGED store
    /\ UNCHANGED <<clock, cache, inflight, pool>>

\* Faulty: the flight leaves the map when its snapshot is in the store.
SettleFirst(c) ==
    /\ caller[c].pc \in {"cache", "settle"} /\ inflight[caller[c].fp] # 0
    /\ inflight' = [inflight EXCEPT ![caller[c].fp] = 0]
    /\ IF caller[c].pc = "settle" THEN Goto(c, "signal") ELSE UNCHANGED caller
    /\ UNCHANGED <<clock, cache, store, flights, pool>>

CachePut(c) ==
    /\ caller[c].pc = "cache"
    /\ cache' = [cache EXCEPT ![caller[c].fp] =
                   [flight |-> caller[c].flight, expires |-> clock + Ttl]]
    /\ Goto(c, "settle")
    /\ UNCHANGED <<clock, store, inflight, flights, pool>>

(* The flight leaves the map ...                                           *)
Settle(c) ==
    /\ caller[c].pc = "settle"
    /\ inflight' = [inflight EXCEPT ![caller[c].fp] = 0]
    /\ Goto(c, "signal")
    /\ UNCHANGED <<clock, cache, store, flights, pool>>

\* Faulty: an acquisition that failed does not wake those that joined it.
SignalsSuccess(f) == ~flights[f].error

Signals(f) == TRUE

(* ... and those that joined it are woken; acquire returns or raises.      *)
Signal(c) ==
    LET f == caller[c].flight IN
    /\ caller[c].pc = "signal"
    /\ flights' = [flights EXCEPT ![f].done = Signals(f)]
    /\ Answer(c, IF flights[f].error THEN 0 ELSE f)
    /\ UNCHANGED <<clock, shared, pool>>

----------------------------------------------------------------------------
(* The steps of a provider's worker, _run_provider_work.                   *)

WorkStep(f, p, from, to) ==
    /\ work[f][p].state = from
    /\ work' = [work EXCEPT ![f][p].state = to]
    /\ UNCHANGED <<clock, shared, flights, threads, closed, caller>>

\* The workers that have a thread.
Busy == {w \in (1..MaxFlights) \X Providers :
            work[w[1]][w[2]].state \in {"running", "captured", "published"}}

Run(f, p) ==
    /\ WorkStep(f, p, "queued", "running")
    /\ Cardinality(Busy) < threads
    /\ UNCHANGED capacity

(* The provider's callable returns or raises, and the time is taken; this  *)
(* may never happen.                                                       *)
Return(f, p) ==
    /\ work[f][p].state = "running"
    /\ work' = [work EXCEPT ![f][p] = [state |-> "captured", at |-> clock]]
    /\ UNCHANGED <<clock, shared, flights, capacity, threads, closed, caller>>

(* The completion marker, under state.lock.                                *)
Publish(f, p) == WorkStep(f, p, "captured", "published") /\ UNCHANGED capacity

(* A bounded semaphore: a release too many raises in the worker.           *)
Release(f, p) ==
    /\ WorkStep(f, p, "published", "released")
    /\ capacity' = IF capacity < Capacity THEN capacity + 1 ELSE capacity

\* Bound: the service is closed when a provider waits to be admitted; that is
\* the one moment when anyone looks whether it was, now or long before.
Admitting ==
    \E c \in Callers : caller[c].pc = "providers" /\ NotAdmitted(caller[c].flight) # {}

(* close(): the pool is shut down, and what was admitted still runs.       *)
Close ==
    /\ ~closed /\ closed' = TRUE
    /\ Admitting
    /\ UNCHANGED <<clock, shared, flights, work, capacity, threads, caller>>

\* Bound: a request that was not dispatched keeps the time it may take.
Undispatched ==
    \E c \in Callers : caller[c].pc \in {"lookup", "join", "start", "dispatch"}

Tick ==
    /\ clock < (IF Undispatched THEN MaxTime - PerTimeout ELSE MaxTime)
    /\ clock' = clock + 1
    /\ UNCHANGED <<shared, flights, pool, caller>>

CallerStep(c) ==
    \/ Lookup(c) \/ Join(c) \/ Lead(c) \/ Wake(c) \/ Start(c) \/ Dispatch(c)
    \/ Admit(c) \/ Collect(c) \/ Persist(c) \/ CachePut(c) \/ Settle(c) \/ Signal(c)

WorkerStep(f, p) == Run(f, p) \/ Publish(f, p) \/ Release(f, p)

Next ==
    \/ \E c \in Callers : CallerStep(c) \/ \E fp \in Fingerprints : Call(c, fp)
    \/ \E f \in 1..MaxFlights, p \in Providers : WorkerStep(f, p) \/ Return(f, p)
    \/ Close
    \/ Tick

Spec == Init /\ [][Next]_vars

(* Callers are scheduled and time passes; a provider may never start or    *)
(* return, its worker never end, and nobody need call or close.            *)
FairSpec ==
    /\ Spec
    /\ \A c \in Callers : WF_vars(CallerStep(c))
    /\ WF_vars(Tick)

----------------------------------------------------------------------------
\* The workers that hold a slot.
Held == {w \in (1..MaxFlights) \X Providers :
            work[w[1]][w[2]].state \in {"queued", "running", "captured", "published"}}

(* "No slot can leak or double-release": every slot is free or held by one *)
(* worker that was admitted and has not ended, whatever the coordinators   *)
(* gave up on, so that no more than Capacity providers run.  None leaks in *)
(* any case; the worker of a stray releases a slot it does not have        *)
(* (service.py:147-156, 229-231, 421-425, 460-465, 598-601).               *)
SlotsConserved ==
    /\ capacity + Cardinality(Held) >= Capacity
    /\ Strays = {} => capacity + Cardinality(Held) = Capacity

(* A persisted snapshot counts a provider as answered only if it returned  *)
(* by its deadline, however late the coordinator looked (service.py:457).  *)
LateNeverCounts ==
    \A f \in store : \A p \in Providers :
        /\ flights[f].result[p] # "none"
        /\ flights[f].result[p] = "done" => work[f][p].at <= Limiting(f)

(* The cache never goes back to an older acquisition of a request: a flight*)
(* leaves the single-flight map only after it has written the cache        *)
(* (service.py:302-312, 352).                                              *)
CacheMovesForward ==
    [][\A fp \in Fingerprints :
          cache'[fp].flight # 0 => cache'[fp].flight >= cache[fp].flight]_vars

(* Every call is answered, even if its providers never return, the service *)
(* is closed meanwhile or the store fails (service.py:8-13, 300-312).      *)
EveryCallAnswered ==
    \A c \in Callers : caller[c].pc # "idle" ~> caller[c].pc = "idle"

(* "A worker descheduled after the callable returned therefore can never   *)
(* hide an on-time completion from the deadline decision" (service.py:577- *)
(* 579).                                                                   *)
OnTimeNeverTimedOut ==
    \A f \in 1..Len(flights) : \A p \in Providers :
        flights[f].result[p] = "timeout" /\ work[f][p].state
            \in {"captured", "published", "released"}
        => work[f][p].at > Limiting(f)
=============================================================================
