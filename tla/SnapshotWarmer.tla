-------------------------- MODULE SnapshotWarmer --------------------------
(***************************************************************************)
(* The R-LIVE snapshot warmers (app/radar_rwa/r_live_warming.py) and the   *)
(* fence of their publication (r_live_snapshot_store.py): one warmer per   *)
(* process, one lease row for the host.                                    *)
(*                                                                         *)
(* A warmer's loop thread acquires or renews the lease, collects a batch   *)
(* while a heartbeat thread renews the lease, publishes the batch under    *)
(* the fence, and ends the cycle by joining the heartbeat.  shutdown()     *)
(* waits with a deadline and may leave a cleanup thread behind; a process  *)
(* may die at any point.  Every operation on the lease is one SQLite       *)
(* transaction inside a process-wide guard, hence one action.              *)
(*                                                                         *)
(* Holder ids are never reused: the row of a process that died names       *)
(* nobody who could renew it.  Time is the row's remaining ticks.  The     *)
(* collector's health record, written outside the fence, is left out.      *)
(***************************************************************************)
EXTENDS Naturals, FiniteSets

CONSTANTS
    Procs,      \* processes with a warmer
    Ttl,        \* lease_ttl, in ticks
    MaxFaults,  \* bound: transactions that SQLite refuses, joins that time out
    MaxCrashes  \* bound: processes that die

ASSUME WarmerAssumption ==
    /\ IsFiniteSet(Procs)
    /\ Ttl \in Nat \ {0}
    /\ MaxFaults \in Nat /\ MaxCrashes \in Nat
    /\ {"nobody", "abandoned"} \intersect Procs = {}

VARIABLES
    row,      \* r_live_warming_lease: holder and remaining ticks
    warmer,   \* the RLiveSnapshotWarmer of each process
    behind,   \* collectors that began before this one's collection did
    overtaken,\* a snapshot collected later than this one was published
    faults, crashes

order == <<behind, overtaken>>
vars == <<row, warmer, order, faults, crashes>>

----------------------------------------------------------------------------
Row == [holder : Procs \union {"nobody", "abandoned"}, ttl : 0..Ttl]

NoRow == [holder |-> "nobody", ttl |-> 0]

\* lease: the _SnapshotLease object, absent, made, acquired or lost for ever.
\* beat: the heartbeat thread; late: told to stop, and still in a renewal.
\* raising: the cycle ends by an exception.  closer: the cleanup thread.
\* shut: where a call of shutdown() is; done when the last one succeeded.
Warmer == [thread : {"none", "loop", "cleanup", "ended"},
           cycle : {"idle", "collecting", "collected", "ending"},
           lease : {"none", "new", "held", "lost"},
           beat : {"none", "beating", "late"},
           stop : BOOLEAN, failure : BOOLEAN, raising : BOOLEAN,
           closer : BOOLEAN, shut : {"no", "joining", "closing", "done"}]

NewWarmer == [thread |-> "none", cycle |-> "idle", lease |-> "none",
              beat |-> "none", stop |-> FALSE, failure |-> FALSE,
              raising |-> FALSE, closer |-> FALSE, shut |-> "no"]

ThreadAlive(p) == warmer[p].thread \in {"loop", "cleanup"}

Live == row.ttl > 0

\* The check of a renewal, and of write_batch inside its transaction.
OwnsRow(p) == row.holder = p /\ Live

Collecting(p) == warmer[p].cycle \in {"collecting", "collected"}

\* Faulty: the fence trusts the process' own view of its lease.
PublishesWhenHeld(p) == warmer[p].lease = "held"

\* publication_guard and the fence of write_batch.
MayPublish(p) == warmer[p].lease = "held" /\ OwnsRow(p)

Set(p, w) == warmer' = [warmer EXCEPT ![p] = w]

\* _failure is set, the loop is told to stop and leaves for its cleanup.
Fail(w) == [w EXCEPT !.failure = TRUE, !.stop = TRUE, !.thread = "cleanup"]

Fault == faults < MaxFaults /\ faults' = faults + 1
NoFault == UNCHANGED faults

----------------------------------------------------------------------------
Init ==
    /\ row = NoRow
    /\ warmer = [p \in Procs |-> NewWarmer]
    /\ behind = [p \in Procs |-> {}]
    /\ overtaken = [p \in Procs |-> FALSE]
    /\ faults = 0 /\ crashes = 0

\* Faulty: a warmer that failed is started again.
StartsIfDead(p) == ~ThreadAlive(p)

\* start() holds the lifecycle lock, so no shutdown() is under way.
MayStart(p) ==
    /\ warmer[p].shut \in {"no", "done"}
    /\ ~ThreadAlive(p)
    /\ ~warmer[p].failure /\ ~warmer[p].closer

(* start(): a new loop thread; otherwise it returns False or raises.       *)
Start(p) ==
    /\ MayStart(p)
    /\ Set(p, [warmer[p] EXCEPT !.thread = "loop", !.stop = FALSE, !.shut = "no"])
    /\ UNCHANGED <<row, order, crashes>> /\ NoFault

LoopIsFree(p) == warmer[p].thread = "loop" /\ warmer[p].cycle = "idle"

\* The cycle was admitted: its heartbeat runs and its collection begins.
Admitted(p) ==
    /\ row' = [holder |-> p, ttl |-> Ttl]
    /\ Set(p, [warmer[p] EXCEPT !.lease = "held", !.beat = "beating",
                                !.cycle = "collecting"])
    /\ behind' = [behind EXCEPT ![p] = {q \in Procs \ {p} : Collecting(q)}]
    /\ overtaken' = [overtaken EXCEPT ![p] = FALSE]

\* Faulty: an expired lease is still respected.
RowIsFree == row.holder = "nobody"

\* acquire: no live lease.
MayAcquire == ~Live

(* run_cycle, first of an epoch: acquire.                                  *)
Acquire(p) ==
    /\ LoopIsFree(p) /\ ~warmer[p].stop
    /\ warmer[p].lease \in {"none", "new"} /\ MayAcquire
    /\ Admitted(p)
    /\ UNCHANGED crashes /\ NoFault

(* run_cycle: another process holds the lease, so this one waits.          *)
StandBy(p) ==
    /\ LoopIsFree(p) /\ ~warmer[p].stop
    /\ warmer[p].lease = "none" /\ ~MayAcquire
    /\ Set(p, [warmer[p] EXCEPT !.lease = "new"])
    /\ UNCHANGED <<row, order, crashes>> /\ NoFault

(* run_cycle, later in an epoch: renew.                                    *)
RenewForCycle(p) ==
    /\ LoopIsFree(p) /\ ~warmer[p].stop
    /\ warmer[p].lease = "held" /\ OwnsRow(p)
    /\ Admitted(p)
    /\ UNCHANGED crashes /\ NoFault

(* run_cycle: the epoch was lost, or SQLite refuses; the loop gives up.    *)
LoseForCycle(p) ==
    /\ LoopIsFree(p) /\ ~warmer[p].stop
    /\ \/ warmer[p].lease = "lost" /\ NoFault
       \/ warmer[p].lease = "held" /\ ~OwnsRow(p) /\ NoFault
       \/ Fault
    /\ Set(p, Fail([warmer[p] EXCEPT !.lease = "lost"]))
    /\ UNCHANGED <<row, order, crashes>>

(* collect_r_live_batch returns rows, or fails as a whole.                 *)
Collect(p) ==
    /\ warmer[p].cycle = "collecting"
    /\ \E next \in {"collected", "ending"} :
          Set(p, [warmer[p] EXCEPT !.cycle = next])
    /\ UNCHANGED <<row, order, crashes>> /\ NoFault

(* write_batch under the fence.                                            *)
Publish(p) ==
    /\ warmer[p].cycle = "collected" /\ MayPublish(p)
    /\ Set(p, [warmer[p] EXCEPT !.cycle = "ending"])
    /\ overtaken' = [q \in Procs |-> overtaken[q] \/ (q \in behind[p] /\ Collecting(q))]
    /\ UNCHANGED <<row, behind, crashes>> /\ NoFault

(* LEASE_OWNERSHIP_LOST ends the cycle by an exception; any other failure  *)
(* of the store only costs the epoch its authority.                        *)
PublishRefused(p) ==
    /\ warmer[p].cycle = "collected"
    /\ \/ ~MayPublish(p) /\ NoFault
          /\ Set(p, [warmer[p] EXCEPT !.cycle = "ending", !.lease = "lost",
                                      !.raising = TRUE])
       \/ warmer[p].lease = "held" /\ Fault
          /\ Set(p, [warmer[p] EXCEPT !.cycle = "ending", !.lease = "lost"])
    /\ UNCHANGED <<row, order, crashes>>

(* The end of run_cycle: the heartbeat is told to stop and joined; what it *)
(* or the publication reported ends the loop.                              *)
EndCycle(p) ==
    /\ warmer[p].cycle = "ending"
    /\ LET w == [warmer[p] EXCEPT !.cycle = "idle", !.beat = "none",
                                  !.raising = FALSE] IN
       Set(p, IF warmer[p].raising \/ warmer[p].failure
              THEN [w EXCEPT !.failure = TRUE, !.thread = "cleanup"] ELSE w)
    /\ UNCHANGED <<row, order, crashes>> /\ NoFault

(* The join times out: the heartbeat waits for SQLite.                     *)
JoinTimesOut(p) ==
    /\ warmer[p].cycle = "ending" /\ warmer[p].beat = "beating" /\ Fault
    /\ Set(p, Fail([warmer[p] EXCEPT !.cycle = "idle", !.beat = "late",
                                     !.raising = FALSE]))
    /\ UNCHANGED <<row, order, crashes>>

(* _renew_until: one renewal; a refused one is final.                      *)
Beat(p) ==
    /\ warmer[p].beat # "none"
    /\ LET beat == IF warmer[p].beat = "late" THEN "none" ELSE "beating" IN
       \/ /\ warmer[p].lease = "held" /\ OwnsRow(p)
          /\ row' = [row EXCEPT !.ttl = Ttl]
          /\ Set(p, [warmer[p] EXCEPT !.beat = beat])
          /\ NoFault
       \/ /\ \/ (warmer[p].lease # "held" \/ ~OwnsRow(p)) /\ NoFault
             \/ Fault
          /\ Set(p, [warmer[p] EXCEPT !.beat = "none", !.lease = "lost",
                                      !.failure = TRUE, !.stop = TRUE])
          /\ UNCHANGED row
    /\ UNCHANGED <<order, crashes>>

(* The loop notices that it was told to stop.                              *)
LeaveLoop(p) ==
    /\ LoopIsFree(p) /\ warmer[p].stop
    /\ Set(p, [warmer[p] EXCEPT !.thread = "cleanup"])
    /\ UNCHANGED <<row, order, crashes>> /\ NoFault

\* Faulty: the lease object goes even when its release failed.
ForgetsLease(w) == [w EXCEPT !.lease = "none"]

\* release raised: the lease object is kept, lost, for a later cleanup.
KeepsLease(w) == [w EXCEPT !.lease = "lost", !.failure = TRUE]

\* _close_resources_if_idle of p, whose warmer is then w or says it failed.
CloseResources(p, w) ==
    \/ /\ w.beat # "none"
       /\ Set(p, [w EXCEPT !.failure = TRUE])
       /\ UNCHANGED row /\ NoFault
    \/ /\ w.beat = "none" /\ w.lease # "none" /\ Fault
       /\ Set(p, KeepsLease(w))
       /\ UNCHANGED row
    \/ /\ w.beat = "none" /\ NoFault
       /\ Set(p, [w EXCEPT !.lease = "none"])
       /\ row' = IF w.lease # "none" /\ row.holder = p THEN NoRow ELSE row

(* The loop's last act.                                                    *)
LoopCleanup(p) ==
    /\ warmer[p].thread = "cleanup"
    /\ CloseResources(p, [warmer[p] EXCEPT !.thread = "ended"])
    /\ UNCHANGED <<order, crashes>>

----------------------------------------------------------------------------
(* shutdown(): the lifecycle lock and the request to stop.                 *)
RequestStop(p) ==
    /\ warmer[p].shut \in {"no", "done"}
    /\ Set(p, [warmer[p] EXCEPT !.stop = TRUE, !.shut = "joining"])
    /\ UNCHANGED <<row, order, crashes>> /\ NoFault

(* The threads are joined; a lease or a cycle that is left gets a cleanup  *)
(* thread, unless an earlier shutdown's is still at work.                  *)
JoinedThreads(p) ==
    /\ warmer[p].shut = "joining"
    /\ ~ThreadAlive(p) /\ warmer[p].beat = "none"
    /\ Set(p, [warmer[p] EXCEPT !.shut = "closing",
                  !.closer = (@ \/ warmer[p].lease # "none"
                                \/ warmer[p].cycle # "idle")])
    /\ UNCHANGED <<row, order, crashes>> /\ NoFault

(* _finish_resource_cleanup, which may outlive its shutdown.               *)
Closer(p) ==
    /\ warmer[p].closer
    /\ CloseResources(p, [warmer[p] EXCEPT !.closer = FALSE])
    /\ UNCHANGED <<order, crashes>>

(* ShutdownIncomplete: a deadline, or what the last checks find.           *)
ShutdownRaises(p) ==
    /\ \/ /\ warmer[p].shut = "joining"
          /\ ThreadAlive(p) \/ warmer[p].beat # "none"
       \/ /\ warmer[p].shut = "closing"
          /\ warmer[p].closer \/ warmer[p].lease # "none" \/ warmer[p].failure
    /\ Set(p, [warmer[p] EXCEPT !.shut = "no"])
    /\ UNCHANGED <<row, order, crashes>> /\ NoFault

ShutdownSucceeds(p) ==
    /\ warmer[p].shut = "closing"
    /\ ~warmer[p].closer /\ warmer[p].lease = "none" /\ ~warmer[p].failure
    /\ Set(p, [warmer[p] EXCEPT !.shut = "done"])
    /\ UNCHANGED <<row, order, crashes>> /\ NoFault

----------------------------------------------------------------------------
(* The process dies, and another takes its place.                          *)
Crash(p) ==
    /\ crashes < MaxCrashes
    /\ crashes' = crashes + 1
    /\ Set(p, NewWarmer)
    /\ row' = IF row.holder = p THEN [row EXCEPT !.holder = "abandoned"] ELSE row
    /\ behind' = [behind EXCEPT ![p] = {}]
    /\ overtaken' = [overtaken EXCEPT ![p] = FALSE]
    /\ NoFault

Tick ==
    /\ Live
    /\ row' = [row EXCEPT !.ttl = @ - 1]
    /\ UNCHANGED <<warmer, order, faults, crashes>>

Loop(p) ==
    \/ Acquire(p) \/ StandBy(p) \/ RenewForCycle(p) \/ LoseForCycle(p)
    \/ Collect(p) \/ Publish(p) \/ PublishRefused(p)
    \/ EndCycle(p) \/ JoinTimesOut(p) \/ LeaveLoop(p) \/ LoopCleanup(p)

Control(p) ==
    \/ Start(p) \/ RequestStop(p) \/ JoinedThreads(p) \/ Closer(p)
    \/ ShutdownRaises(p) \/ ShutdownSucceeds(p)

Next ==
    \/ \E p \in Procs : Loop(p) \/ Control(p) \/ Beat(p) \/ Crash(p)
    \/ Tick

Spec == Init /\ [][Next]_vars

\* Threads run and time passes; nothing makes anyone call start or shutdown.
FairSpec ==
    /\ Spec
    /\ WF_vars(Tick)
    /\ \A p \in Procs : WF_vars(Loop(p))

----------------------------------------------------------------------------
(* Types of all variables.                                                 *)
TypeOK ==
    /\ row \in Row
    /\ warmer \in [Procs -> Warmer]
    /\ behind \in [Procs -> SUBSET Procs]
    /\ overtaken \in [Procs -> BOOLEAN]
    /\ faults \in 0..MaxFaults /\ crashes \in 0..MaxCrashes

(* A collector that lost its lease to a slow cycle, to SQLite or to a      *)
(* paused process cannot publish once a snapshot whose collection began    *)
(* later than its own was published: the snapshot never goes back.         *)
OvertakenIsFenced ==
    \A p \in Procs : overtaken[p] /\ Collecting(p) => ~MayPublish(p)

(* shutdown() returns without an error only when nothing of the warmer is  *)
(* left: no thread, heartbeat or cleanup thread that could still write,    *)
(* and no lease row that keeps the other processes waiting.                *)
ShutdownIsComplete ==
    \A p \in Procs : warmer[p].shut = "done" =>
        /\ ~ThreadAlive(p) /\ warmer[p].cycle = "idle"
        /\ warmer[p].beat = "none" /\ ~warmer[p].closer
        /\ row.holder # p

(* A loop is started only where nothing of an earlier one is left: its     *)
(* heartbeat, a cleanup that outlived its shutdown, or its lease.          *)
StartsClean ==
    [][\A p \in Procs : warmer'[p].thread = "loop" /\ warmer[p].thread # "loop" =>
          /\ warmer[p].beat = "none" /\ ~warmer[p].closer
          /\ warmer[p].lease = "none" /\ row.holder # p]_vars

(* The lease of a process that died does not keep a running loop waiting   *)
(* for ever: the lease is taken over, or this loop is told to stop.        *)
AbandonedIsTakenOver ==
    \A p \in Procs :
        row.holder = "abandoned" /\ warmer[p].thread = "loop" ~>
            \/ row.holder # "abandoned"
            \/ warmer[p].thread # "loop" \/ warmer[p].stop
=============================================================================
