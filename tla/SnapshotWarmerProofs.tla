------------------------ MODULE SnapshotWarmerProofs ------------------------
(***************************************************************************)
(* Theorems about SnapshotWarmer for any number of processes, any lease    *)
(* length and any number of faults, crashes, shutdowns and restarts.       *)
(*                                                                         *)
(* The invariant has three parts for each process: what its warmer's       *)
(* record says about threads, heartbeat and shutdown (Sound); that the row *)
(* names it only while it has a lease object that was acquired             *)
(* (RowHasLease); and that a collector whose snapshot was overtaken is no  *)
(* longer the row's holder (Fenced).                                       *)
(***************************************************************************)
EXTENDS SnapshotWarmer, TLAPS

Alive(w) == w.thread \in {"loop", "cleanup"}

Sound(w) ==
    /\ w.cycle # "idle" => w.thread = "loop"
    /\ w.thread = "loop" /\ w.cycle = "idle" => w.beat = "none"
    /\ ~Alive(w) /\ ~w.failure => w.beat = "none" /\ w.lease = "none"
    /\ w.shut \in {"closing", "done"} => ~Alive(w) /\ w.beat = "none"
    /\ w.shut = "done" => ~w.closer /\ w.lease = "none"
    /\ w.closer => ~Alive(w)

RowHasLease(p) == warmer[p].lease \in {"none", "new"} => row.holder # p

Fenced(p) == p \notin behind[p] /\ (overtaken[p] => row.holder # p)

Inv ==
    /\ TypeOK
    /\ \A p \in Procs : Sound(warmer[p]) /\ RowHasLease(p) /\ Fenced(p)

\* The steps of one process.
Step(p) == Loop(p) \/ Control(p) \/ Beat(p) \/ Crash(p)

----------------------------------------------------------------------------
(* What a step does to the warmer of its process.                          *)

\* Set changes one warmer and no other.
LEMMA SetEffect ==
    ASSUME TypeOK, NEW p \in Procs, NEW w \in Warmer, Set(p, w)
    PROVE  /\ warmer' \in [Procs -> Warmer]
           /\ warmer'[p] = w
           /\ \A q \in Procs : q # p => warmer'[q] = warmer[q]
BY DEF TypeOK, Set

\* Whatever way its cleanup of the resources goes.
LEMMA CloseSound ==
    ASSUME NEW p \in Procs, NEW w \in Warmer, CloseResources(p, w),
           w.cycle = "idle", ~Alive(w), w.shut # "done",
           w.shut = "closing" => w.beat = "none"
    PROVE  \E v \in Warmer : Set(p, v) /\ Sound(v)
<1>1. CASE w.beat # "none" /\ Set(p, [w EXCEPT !.failure = TRUE])
  <2> DEFINE v == [w EXCEPT !.failure = TRUE]
  <2>1. v \in Warmer /\ Sound(v)
    BY <1>1 DEF Warmer, Sound, Alive
  <2> QED BY <1>1, <2>1
<1>2. CASE w.beat = "none" /\ Set(p, KeepsLease(w))
  <2> DEFINE v == [w EXCEPT !.lease = "lost", !.failure = TRUE]
  <2>1. v \in Warmer /\ Sound(v)
    BY <1>2 DEF Warmer, Sound, Alive
  <2> QED BY <1>2, <2>1 DEF KeepsLease
<1>3. CASE w.beat = "none" /\ Set(p, [w EXCEPT !.lease = "none"])
  <2> DEFINE v == [w EXCEPT !.lease = "none"]
  <2>1. v \in Warmer /\ Sound(v)
    BY <1>3 DEF Warmer, Sound, Alive
  <2> QED BY <1>3, <2>1
<1> QED BY <1>1, <1>2, <1>3 DEF CloseResources

\* The warming loop leaves a sound record.
LEMMA LoopSound ==
    ASSUME TypeOK, NEW p \in Procs, Sound(warmer[p]), Loop(p)
    PROVE  \E w \in Warmer : Set(p, w) /\ Sound(w)
<1> DEFINE old == warmer[p]
<1>0. old \in Warmer /\ Sound(old)
  BY DEF TypeOK
<1>1. CASE Acquire(p) \/ RenewForCycle(p)
  <2> DEFINE w == [old EXCEPT !.lease = "held", !.beat = "beating",
                              !.cycle = "collecting"]
  <2>1. old.thread = "loop" /\ Set(p, w)
    BY <1>1 DEF Acquire, RenewForCycle, LoopIsFree, Admitted
  <2>2. w \in Warmer /\ Sound(w)
    BY <1>0, <2>1 DEF Warmer, Sound, Alive
  <2> QED BY <2>1, <2>2
<1>2. CASE StandBy(p)
  <2> DEFINE w == [old EXCEPT !.lease = "new"]
  <2>1. old.thread = "loop" /\ Set(p, w)
    BY <1>2 DEF StandBy, LoopIsFree
  <2>2. w \in Warmer /\ Sound(w)
    BY <1>0, <2>1 DEF Warmer, Sound, Alive
  <2> QED BY <2>1, <2>2
<1>3. CASE LoseForCycle(p)
  <2> DEFINE w == Fail([old EXCEPT !.lease = "lost"])
  <2>1. old.thread = "loop" /\ old.cycle = "idle" /\ Set(p, w)
    BY <1>3 DEF LoseForCycle, LoopIsFree
  <2>2. w \in Warmer /\ Sound(w)
    BY <1>0, <2>1 DEF Warmer, Sound, Alive, Fail
  <2> QED BY <2>1, <2>2
<1>4. CASE Collect(p)
  <2>1. PICK next \in {"collected", "ending"} : Set(p, [old EXCEPT !.cycle = next])
    BY <1>4 DEF Collect
  <2> DEFINE w == [old EXCEPT !.cycle = next]
  <2>2. w \in Warmer /\ Sound(w)
    BY <1>0, <1>4 DEF Collect, Warmer, Sound, Alive
  <2> QED BY <2>1, <2>2
<1>5. CASE Publish(p)
  <2> DEFINE w == [old EXCEPT !.cycle = "ending"]
  <2>1. old.cycle = "collected" /\ Set(p, w)
    BY <1>5 DEF Publish
  <2>2. w \in Warmer /\ Sound(w)
    BY <1>0, <2>1 DEF Warmer, Sound, Alive
  <2> QED BY <2>1, <2>2
<1>6. CASE PublishRefused(p)
  <2> DEFINE w == [old EXCEPT !.cycle = "ending", !.lease = "lost", !.raising = TRUE]
             v == [old EXCEPT !.cycle = "ending", !.lease = "lost"]
  <2>1. old.cycle = "collected" /\ (Set(p, w) \/ Set(p, v))
    BY <1>6 DEF PublishRefused
  <2>2. w \in Warmer /\ Sound(w) /\ v \in Warmer /\ Sound(v)
    BY <1>0, <2>1 DEF Warmer, Sound, Alive
  <2> QED BY <2>1, <2>2
<1>7. CASE EndCycle(p)
  <2> DEFINE v == [old EXCEPT !.cycle = "idle", !.beat = "none", !.raising = FALSE]
             w == [v EXCEPT !.failure = TRUE, !.thread = "cleanup"]
  <2>1. old.cycle = "ending" /\ (Set(p, w) \/ Set(p, v))
    BY <1>7 DEF EndCycle
  <2>2. v \in Warmer /\ Sound(v)
    BY <1>0, <2>1 DEF Warmer, Sound, Alive
  <2>3. w \in Warmer /\ Sound(w)
    BY <1>0, <2>1 DEF Warmer, Sound, Alive
  <2> QED BY <2>1, <2>2, <2>3
<1>8. CASE JoinTimesOut(p)
  <2> DEFINE w == Fail([old EXCEPT !.cycle = "idle", !.beat = "late",
                                   !.raising = FALSE])
  <2>1. old.cycle = "ending" /\ Set(p, w)
    BY <1>8 DEF JoinTimesOut
  <2>2. w \in Warmer /\ Sound(w)
    BY <1>0, <2>1 DEF Warmer, Sound, Alive, Fail
  <2> QED BY <2>1, <2>2
<1>9. CASE LeaveLoop(p)
  <2> DEFINE w == [old EXCEPT !.thread = "cleanup"]
  <2>1. old.thread = "loop" /\ old.cycle = "idle" /\ Set(p, w)
    BY <1>9 DEF LeaveLoop, LoopIsFree
  <2>2. w \in Warmer /\ Sound(w)
    BY <1>0, <2>1 DEF Warmer, Sound, Alive
  <2> QED BY <2>1, <2>2
<1>10. CASE LoopCleanup(p)
  <2> DEFINE w == [old EXCEPT !.thread = "ended"]
  <2>1. old.thread = "cleanup" /\ CloseResources(p, w)
    BY <1>10 DEF LoopCleanup
  <2>2. /\ w \in Warmer /\ w.cycle = "idle" /\ ~Alive(w)
        /\ w.shut \notin {"closing", "done"}
    BY <1>0, <2>1 DEF Warmer, Sound, Alive
  <2> HIDE DEF w
  <2> QED BY <2>1, <2>2, CloseSound
<1> QED
  BY <1>1, <1>2, <1>3, <1>4, <1>5, <1>6, <1>7, <1>8, <1>9, <1>10 DEF Loop

\* Starting, stopping and waiting leave a sound record.
LEMMA ControlSound ==
    ASSUME TypeOK, NEW p \in Procs, Sound(warmer[p]), Control(p)
    PROVE  \E w \in Warmer : Set(p, w) /\ Sound(w)
<1> DEFINE old == warmer[p]
<1>0. old \in Warmer /\ Sound(old)
  BY DEF TypeOK
<1>1. CASE Start(p)
  <2> DEFINE w == [old EXCEPT !.thread = "loop", !.stop = FALSE, !.shut = "no"]
  <2>1. ~Alive(old) /\ ~old.failure /\ ~old.closer /\ Set(p, w)
    BY <1>1 DEF Start, MayStart, ThreadAlive, Alive
  <2>2. w \in Warmer /\ Sound(w)
    BY <1>0, <2>1 DEF Warmer, Sound, Alive
  <2> QED BY <2>1, <2>2
<1>2. CASE RequestStop(p)
  <2> DEFINE w == [old EXCEPT !.stop = TRUE, !.shut = "joining"]
  <2>1. Set(p, w)
    BY <1>2 DEF RequestStop
  <2>2. w \in Warmer /\ Sound(w)
    BY <1>0 DEF Warmer, Sound, Alive
  <2> QED BY <2>1, <2>2
<1>3. CASE JoinedThreads(p)
  <2> DEFINE w == [old EXCEPT !.shut = "closing",
                              !.closer = (@ \/ old.lease # "none" \/ old.cycle # "idle")]
  <2>1. ~Alive(old) /\ old.beat = "none" /\ Set(p, w)
    BY <1>3 DEF JoinedThreads, ThreadAlive, Alive
  <2>2. w \in Warmer /\ Sound(w)
    BY <1>0, <2>1 DEF Warmer, Sound, Alive
  <2> QED BY <2>1, <2>2
<1>4. CASE Closer(p)
  <2> DEFINE w == [old EXCEPT !.closer = FALSE]
  <2>1. old.closer /\ CloseResources(p, w)
    BY <1>4 DEF Closer
  <2>2. /\ w \in Warmer /\ w.cycle = "idle" /\ ~Alive(w) /\ w.shut # "done"
        /\ w.shut = "closing" => w.beat = "none"
    BY <1>0, <2>1 DEF Warmer, Sound, Alive
  <2> HIDE DEF w
  <2> QED BY <2>1, <2>2, CloseSound
<1>5. CASE ShutdownRaises(p)
  <2> DEFINE w == [old EXCEPT !.shut = "no"]
  <2>1. Set(p, w)
    BY <1>5 DEF ShutdownRaises
  <2>2. w \in Warmer /\ Sound(w)
    BY <1>0 DEF Warmer, Sound, Alive
  <2> QED BY <2>1, <2>2
<1>6. CASE ShutdownSucceeds(p)
  <2> DEFINE w == [old EXCEPT !.shut = "done"]
  <2>1. ~old.closer /\ old.lease = "none" /\ old.shut = "closing" /\ Set(p, w)
    BY <1>6 DEF ShutdownSucceeds
  <2>2. w \in Warmer /\ Sound(w)
    BY <1>0, <2>1 DEF Warmer, Sound, Alive
  <2> QED BY <2>1, <2>2
<1> QED BY <1>1, <1>2, <1>3, <1>4, <1>5, <1>6 DEF Control

\* The heartbeat leaves a sound record.
LEMMA BeatSound ==
    ASSUME TypeOK, NEW p \in Procs, Sound(warmer[p]), Beat(p)
    PROVE  \E w \in Warmer : Set(p, w) /\ Sound(w)
<1> DEFINE old == warmer[p]
           next == IF old.beat = "late" THEN "none" ELSE "beating"
           v == [old EXCEPT !.beat = next]
           w == [old EXCEPT !.beat = "none", !.lease = "lost", !.failure = TRUE,
                            !.stop = TRUE]
<1>1. old \in Warmer /\ Sound(old)
  BY DEF TypeOK
<1>2. old.beat # "none" /\ (Set(p, v) \/ Set(p, w))
  BY DEF Beat
<1>3. v \in Warmer /\ Sound(v)
  BY <1>1, <1>2 DEF Warmer, Sound, Alive
<1>4. w \in Warmer /\ Sound(w)
  BY <1>1, <1>2 DEF Warmer, Sound, Alive
<1> QED BY <1>2, <1>3, <1>4

\* The record of a new process is sound.
LEMMA NewIsSound == NewWarmer \in Warmer /\ Sound(NewWarmer)
BY DEF NewWarmer, Warmer, Sound, Alive

\* Every step of a process leaves its record sound.
LEMMA StepSound ==
    ASSUME TypeOK, NEW p \in Procs, Sound(warmer[p]), Step(p)
    PROVE  \E w \in Warmer : Set(p, w) /\ Sound(w)
BY LoopSound, ControlSound, BeatSound, NewIsSound DEF Step, Crash

----------------------------------------------------------------------------
(* What a step does to the row and to the order of the publications.       *)

\* The row stays with its holder, goes to nobody, or to p by admission.
RowEffect(p) ==
    /\ row' \in Row
    /\ \/ row'.holder \in {row.holder, "nobody", "abandoned"}
       \/ Admitted(p)
    /\ RowHasLease(p)'

\* The row is kept, and so is the lease object or the fact that it was acquired.
LEMMA KeptRow ==
    ASSUME TypeOK, NEW p \in Procs, RowHasLease(p), NEW w \in Warmer, Set(p, w),
           UNCHANGED row, w.lease \in {warmer[p].lease, "held", "lost"}
    PROVE  RowEffect(p)
BY SetEffect DEF TypeOK, RowHasLease, RowEffect

\* Nobody or the abandoned holder is no process.
LEMMA NoProcess == \A p \in Procs : p # "nobody" /\ p # "abandoned"
BY WarmerAssumption DEF WarmerAssumption

\* An admission gives the row to the process admitted.
LEMMA AdmittedRow ==
    ASSUME TypeOK, NEW p \in Procs, Admitted(p)
    PROVE  RowEffect(p)
<1>1. row' \in Row
  BY WarmerAssumption DEF Admitted, Row, WarmerAssumption
<1>2. warmer'[p].lease = "held"
  BY DEF Admitted, TypeOK, Warmer, Set
<1> QED BY <1>1, <1>2 DEF RowEffect, RowHasLease

\* Closing leaves the row with its holder or with nobody.
LEMMA CloseRow ==
    ASSUME TypeOK, NEW p \in Procs, RowHasLease(p),
           NEW w \in Warmer, w.lease = warmer[p].lease, CloseResources(p, w)
    PROVE  RowEffect(p)
<1>1. CASE Set(p, [w EXCEPT !.failure = TRUE]) /\ UNCHANGED row
  <2>1. [w EXCEPT !.failure = TRUE] \in Warmer /\ [w EXCEPT !.failure = TRUE].lease = w.lease
    BY DEF Warmer
  <2> QED BY <1>1, <2>1, KeptRow
<1>2. CASE Set(p, KeepsLease(w)) /\ UNCHANGED row
  <2>1. KeepsLease(w) \in Warmer /\ KeepsLease(w).lease = "lost"
    BY DEF Warmer, KeepsLease
  <2> QED BY <1>2, <2>1, KeptRow
<1>3. CASE row' = IF w.lease # "none" /\ row.holder = p THEN NoRow ELSE row
  <2>1. row' \in Row /\ row'.holder \in {row.holder, "nobody"}
    BY <1>3, WarmerAssumption DEF TypeOK, Row, NoRow, WarmerAssumption
  <2>2. row'.holder # p
    BY <1>3, NoProcess DEF RowHasLease, NoRow
  <2> QED BY <2>1, <2>2 DEF RowEffect, RowHasLease
<1> QED BY <1>1, <1>2, <1>3 DEF CloseResources

\* Every step of a process does to the row what it may.
LEMMA RowStep ==
    ASSUME TypeOK, NEW p \in Procs, RowHasLease(p), Step(p)
    PROVE  RowEffect(p)
<1> DEFINE old == warmer[p]
<1>0. old \in Warmer
  BY DEF TypeOK
<1>1. CASE Acquire(p) \/ RenewForCycle(p)
  BY <1>1, AdmittedRow DEF Acquire, RenewForCycle
<1>2. CASE StandBy(p)
  <2>1. row' = row /\ old.lease = "none"
    BY <1>2 DEF StandBy
  <2> QED BY <2>1 DEF RowEffect, RowHasLease, TypeOK
<1>3. ASSUME UNCHANGED row, NEW w \in Warmer, Set(p, w),
             w.lease \in {old.lease, "held", "lost"}
      PROVE  RowEffect(p)
  BY <1>3, KeptRow
<1>4. CASE LoseForCycle(p)
  <2> DEFINE w == Fail([old EXCEPT !.lease = "lost"])
  <2>1. w \in Warmer /\ w.lease = "lost"
    BY <1>0 DEF Warmer, Fail
  <2> QED BY <1>3, <1>4, <2>1 DEF LoseForCycle
<1>5. CASE Collect(p) \/ Publish(p) \/ PublishRefused(p) \/ EndCycle(p)
           \/ JoinTimesOut(p) \/ LeaveLoop(p)
  <2>1. row' = row
    BY <1>5 DEF Collect, Publish, PublishRefused, EndCycle, JoinTimesOut, LeaveLoop
  <2>2. warmer'[p].lease \in {old.lease, "lost"}
    <3>0. CASE Collect(p)
      <4>1. PICK next \in {"collected", "ending"} : Set(p, [old EXCEPT !.cycle = next])
        BY <3>0 DEF Collect
      <4> QED BY <1>0, <4>1 DEF Set, TypeOK, Warmer
    <3>1. CASE Publish(p) \/ LeaveLoop(p)
      <4> DEFINE v == [old EXCEPT !.cycle = "ending"]
                 w == [old EXCEPT !.thread = "cleanup"]
      <4>1. Set(p, v) \/ Set(p, w)
        BY <3>1 DEF Publish, LeaveLoop
      <4>2. v \in Warmer /\ v.lease = old.lease /\ w \in Warmer /\ w.lease = old.lease
        BY <1>0 DEF Warmer
      <4> QED BY <4>1, <4>2, SetEffect
    <3>2. CASE PublishRefused(p)
      <4> DEFINE v == [old EXCEPT !.cycle = "ending", !.lease = "lost"]
                 w == [v EXCEPT !.raising = TRUE]
      <4>1. Set(p, v) \/ Set(p, w)
        BY <3>2 DEF PublishRefused
      <4>2. v \in Warmer /\ v.lease = "lost" /\ w \in Warmer /\ w.lease = "lost"
        BY <1>0 DEF Warmer
      <4> QED BY <4>1, <4>2, SetEffect
    <3>3. CASE EndCycle(p)
      <4> DEFINE v == [old EXCEPT !.cycle = "idle", !.beat = "none", !.raising = FALSE]
                 w == [v EXCEPT !.failure = TRUE, !.thread = "cleanup"]
      <4>1. Set(p, v) \/ Set(p, w)
        BY <3>3 DEF EndCycle
      <4>2. v \in Warmer /\ v.lease = old.lease /\ w \in Warmer /\ w.lease = old.lease
        BY <1>0 DEF Warmer
      <4> QED BY <4>1, <4>2, SetEffect
    <3>4. CASE JoinTimesOut(p)
      <4> DEFINE w == Fail([old EXCEPT !.cycle = "idle", !.beat = "late",
                                       !.raising = FALSE])
      <4>1. Set(p, w)
        BY <3>4 DEF JoinTimesOut
      <4>2. w \in Warmer /\ w.lease = old.lease
        BY <1>0 DEF Warmer, Fail
      <4> QED BY <4>1, <4>2, SetEffect
    <3> QED BY <1>5, <3>0, <3>1, <3>2, <3>3, <3>4
  <2> QED BY <2>1, <2>2 DEF RowEffect, RowHasLease, TypeOK
<1>6. CASE LoopCleanup(p)
  <2> DEFINE w == [old EXCEPT !.thread = "ended"]
  <2>1. w \in Warmer /\ w.lease = old.lease /\ CloseResources(p, w)
    BY <1>0, <1>6 DEF LoopCleanup, Warmer
  <2> HIDE DEF w
  <2> QED BY <2>1, CloseRow
<1>7. CASE Closer(p)
  <2> DEFINE w == [old EXCEPT !.closer = FALSE]
  <2>1. w \in Warmer /\ w.lease = old.lease /\ CloseResources(p, w)
    BY <1>0, <1>7 DEF Closer, Warmer
  <2> HIDE DEF w
  <2> QED BY <2>1, CloseRow
<1>8. CASE Start(p) \/ RequestStop(p) \/ JoinedThreads(p) \/ ShutdownRaises(p)
           \/ ShutdownSucceeds(p)
  <2>1. row' = row
    BY <1>8 DEF Start, RequestStop, JoinedThreads, ShutdownRaises, ShutdownSucceeds
  <2> DEFINE started == [old EXCEPT !.thread = "loop", !.stop = FALSE, !.shut = "no"]
             asked == [old EXCEPT !.stop = TRUE, !.shut = "joining"]
             joined == [old EXCEPT !.shut = "closing",
                                   !.closer = (@ \/ old.lease # "none" \/ old.cycle # "idle")]
             raised == [old EXCEPT !.shut = "no"]
             done == [old EXCEPT !.shut = "done"]
  <2>2. started \in Warmer /\ started.lease = old.lease
    BY <1>0 DEF Warmer
  <2>3. asked \in Warmer /\ asked.lease = old.lease
    BY <1>0 DEF Warmer
  <2>4. joined \in Warmer /\ joined.lease = old.lease
    BY <1>0 DEF Warmer
  <2>5. raised \in Warmer /\ raised.lease = old.lease
    BY <1>0 DEF Warmer
  <2>6. done \in Warmer /\ done.lease = old.lease
    BY <1>0 DEF Warmer
  <2>7. \/ Set(p, started) \/ Set(p, asked) \/ Set(p, joined)
        \/ Set(p, raised) \/ Set(p, done)
    BY <1>8 DEF Start, RequestStop, JoinedThreads, ShutdownRaises, ShutdownSucceeds
  <2> HIDE DEF started, asked, joined, raised, done
  <2> QED BY <2>1, <2>2, <2>3, <2>4, <2>5, <2>6, <2>7, KeptRow
<1>9. CASE Beat(p)
  <2>1. CASE row.holder = p /\ row' = [row EXCEPT !.ttl = Ttl]
             /\ warmer'[p].lease = "held"
    BY <2>1, WarmerAssumption DEF RowEffect, RowHasLease, TypeOK, Row, WarmerAssumption
  <2>2. CASE row' = row /\ warmer'[p].lease = "lost"
    BY <2>2 DEF RowEffect, RowHasLease, TypeOK
  <2> DEFINE next == IF old.beat = "late" THEN "none" ELSE "beating"
  <2>3. CASE /\ old.lease = "held" /\ OwnsRow(p) /\ row' = [row EXCEPT !.ttl = Ttl]
             /\ Set(p, [old EXCEPT !.beat = next])
    BY <1>0, <2>1, <2>3 DEF OwnsRow, Set, TypeOK, Warmer
  <2>4. CASE /\ Set(p, [old EXCEPT !.beat = "none", !.lease = "lost",
                                    !.failure = TRUE, !.stop = TRUE])
             /\ row' = row
    BY <1>0, <2>2, <2>4 DEF Set, TypeOK, Warmer
  <2> QED BY <1>9, <2>3, <2>4 DEF Beat
<1>10. CASE Crash(p)
  <2>1. row' \in Row /\ row'.holder \in {row.holder, "abandoned"}
    BY <1>10 DEF Crash, TypeOK, Row
  <2>2. row'.holder # p
    BY <1>10, NoProcess DEF Crash, TypeOK, Row
  <2> QED BY <2>1, <2>2 DEF RowEffect, RowHasLease
<1> QED
  BY <1>1, <1>2, <1>4, <1>5, <1>6, <1>7, <1>8, <1>9, <1>10 DEF Step, Loop, Control

\* The publication order keeps its type, and no overtaken collector the row.
LEMMA OrderStep ==
    ASSUME TypeOK, \A q \in Procs : Fenced(q), NEW p \in Procs, Step(p), RowEffect(p)
    PROVE  /\ behind' \in [Procs -> SUBSET Procs]
           /\ overtaken' \in [Procs -> BOOLEAN]
           /\ \A q \in Procs : Fenced(q)'
<1>1. CASE Admitted(p)
  <2>1. /\ row'.holder = p
        /\ behind' = [behind EXCEPT ![p] = {q \in Procs \ {p} : Collecting(q)}]
        /\ overtaken' = [overtaken EXCEPT ![p] = FALSE]
    BY <1>1 DEF Admitted
  <2> QED BY <2>1 DEF TypeOK, Fenced
<1>2. ASSUME ~Admitted(p), UNCHANGED order
      PROVE  \A q \in Procs : Fenced(q)'
  BY <1>2, NoProcess DEF RowEffect, Fenced, order
<1>3. CASE Publish(p)
  <2>1. row' = row /\ row.holder = p /\ behind' = behind
    BY <1>3 DEF Publish, MayPublish, OwnsRow
  <2>2. overtaken' = [q \in Procs |-> overtaken[q] \/ (q \in behind[p] /\ Collecting(q))]
    BY <1>3 DEF Publish
  <2>3. \A q \in Procs : overtaken'[q] => overtaken[q] \/ q \in behind[p]
    BY <2>2
  <2>4. overtaken' \in [Procs -> BOOLEAN]
    BY <2>2 DEF TypeOK, Collecting
  <2> QED BY <2>1, <2>3, <2>4 DEF TypeOK, Fenced
<1>4. CASE Crash(p)
  <2>1. /\ row'.holder \in {row.holder, "abandoned"}
        /\ behind' = [behind EXCEPT ![p] = {}]
        /\ overtaken' = [overtaken EXCEPT ![p] = FALSE]
    BY <1>4 DEF Crash, TypeOK, Row
  <2> QED BY <2>1, NoProcess DEF TypeOK, Fenced, RowEffect, Admitted
<1>5. CASE UNCHANGED order
  <2>1. behind' = behind /\ overtaken' = overtaken
    BY <1>5 DEF order
  <2> QED BY <1>1, <1>2, <1>5, <2>1 DEF TypeOK
<1>6. Admitted(p) \/ Publish(p) \/ Crash(p) \/ UNCHANGED order
  BY DEF Step, Loop, Control, Beat, Acquire, StandBy, RenewForCycle, LoseForCycle,
         Collect, PublishRefused, EndCycle, JoinTimesOut, LeaveLoop, LoopCleanup,
         Start, RequestStop, JoinedThreads, Closer, ShutdownRaises, ShutdownSucceeds
<1> QED BY <1>1, <1>3, <1>4, <1>5, <1>6

\* The two counters stay within their bounds.
LEMMA CountersStep ==
    ASSUME TypeOK, NEW p \in Procs, Step(p)
    PROVE  faults' \in 0..MaxFaults /\ crashes' \in 0..MaxCrashes
<1>1. faults' = faults \/ (faults < MaxFaults /\ faults' = faults + 1)
  BY DEF Step, Loop, Control, Beat, Acquire, StandBy, RenewForCycle, LoseForCycle,
         Collect, Publish, PublishRefused, EndCycle, JoinTimesOut, LeaveLoop,
         LoopCleanup, Start, RequestStop, JoinedThreads, Closer, ShutdownRaises,
         ShutdownSucceeds, Crash, CloseResources, Fault, NoFault
<1>2. crashes' = crashes \/ (crashes < MaxCrashes /\ crashes' = crashes + 1)
  BY DEF Step, Loop, Control, Beat, Acquire, StandBy, RenewForCycle, LoseForCycle,
         Collect, Publish, PublishRefused, EndCycle, JoinTimesOut, LeaveLoop,
         LoopCleanup, Start, RequestStop, JoinedThreads, Closer, ShutdownRaises,
         ShutdownSucceeds, Crash
<1> QED BY <1>1, <1>2, WarmerAssumption DEF TypeOK, WarmerAssumption

----------------------------------------------------------------------------
\* Every step keeps the invariant.
LEMMA InvStep == Inv /\ [Next]_vars => Inv'
<1> SUFFICES ASSUME Inv, [Next]_vars PROVE Inv'
  OBVIOUS
<1>1. ASSUME NEW p \in Procs, Step(p) PROVE Inv'
  <2>1. PICK w \in Warmer : Set(p, w) /\ Sound(w)
    BY <1>1, StepSound DEF Inv
  <2>2. RowEffect(p)
    BY <1>1, RowStep DEF Inv
  <2>3. warmer' \in [Procs -> Warmer] /\ \A q \in Procs : Sound(warmer'[q])
    BY <2>1, SetEffect DEF Inv
  <2>4. \A q \in Procs : RowHasLease(q)'
    <3> SUFFICES ASSUME NEW q \in Procs, q # p PROVE RowHasLease(q)'
      BY <2>2 DEF RowEffect
    <3>1. warmer'[q] = warmer[q] /\ RowHasLease(q)
      BY <2>1, SetEffect DEF Inv
    <3>2. row'.holder \in {row.holder, p, "nobody", "abandoned"}
      BY <2>2 DEF RowEffect, Admitted
    <3> QED BY <3>1, <3>2, NoProcess DEF RowHasLease
  <2>5. /\ behind' \in [Procs -> SUBSET Procs] /\ overtaken' \in [Procs -> BOOLEAN]
        /\ \A q \in Procs : Fenced(q)'
    BY <1>1, <2>2, OrderStep DEF Inv
  <2>6. faults' \in 0..MaxFaults /\ crashes' \in 0..MaxCrashes
    BY <1>1, CountersStep DEF Inv
  <2> QED BY <2>2, <2>3, <2>4, <2>5, <2>6 DEF Inv, TypeOK, RowEffect
<1>2. CASE Tick
  <2>1. row' \in Row /\ row'.holder = row.holder
    BY <1>2, WarmerAssumption DEF Inv, TypeOK, Tick, Live, Row, WarmerAssumption
  <2> QED BY <1>2, <2>1 DEF Tick, Inv, TypeOK, RowHasLease, Fenced, order
<1>3. CASE UNCHANGED vars
  BY <1>3 DEF vars, order, Inv, TypeOK, RowHasLease, Fenced
<1> QED BY <1>1, <1>2, <1>3 DEF Next, Step

\* The invariant holds at first.
LEMMA InitInv == Init => Inv
<1> SUFFICES ASSUME Init PROVE Inv
  OBVIOUS
<1>1. TypeOK
  BY WarmerAssumption, NewIsSound DEF WarmerAssumption, Init, TypeOK, Row, NoRow
<1>2. \A p \in Procs : Sound(warmer[p]) /\ RowHasLease(p) /\ Fenced(p)
  BY NewIsSound, NoProcess DEF Init, RowHasLease, Fenced, NoRow
<1> QED BY <1>1, <1>2 DEF Inv

\* The invariant holds in every state.
LEMMA Invariance == Spec => []Inv
BY InitInv, InvStep, PTL DEF Spec

\* The lease row, the warmers and the publication order keep their types.
THEOREM TypeCorrect == Spec => []TypeOK
<1>1. Inv => TypeOK
  BY DEF Inv
<1> QED BY <1>1, Invariance, PTL

\* A collector that was overtaken by a later collection's snapshot is not the
\* row's holder, so the fence of write_batch refuses its batch.
THEOREM OvertakenNeverPublishes == Spec => []OvertakenIsFenced
<1>1. Inv => OvertakenIsFenced
  BY DEF Inv, Fenced, OvertakenIsFenced, MayPublish, OwnsRow
<1> QED BY <1>1, Invariance, PTL

\* A shutdown that reports success left no thread, no heartbeat, no cleanup
\* thread and no lease row behind.
THEOREM ShutdownLeavesNothing == Spec => []ShutdownIsComplete
<1>1. Inv => ShutdownIsComplete
  BY DEF Inv, TypeOK, Warmer, Sound, Alive, RowHasLease, ShutdownIsComplete, ThreadAlive
<1> QED BY <1>1, Invariance, PTL

\* Only start makes a thread a loop.
LEMMA OnlyStartBegins ==
    ASSUME TypeOK, NEW p \in Procs, Sound(warmer[p]), Step(p),
           warmer'[p].thread = "loop", warmer[p].thread # "loop"
    PROVE  Start(p)
<1> DEFINE old == warmer[p]
<1>0. old \in Warmer /\ Sound(old) /\ old.thread # "loop"
  BY DEF TypeOK
<1>1. ASSUME NEW w \in Warmer, Set(p, w), w.thread # "loop" PROVE FALSE
  BY <1>1, SetEffect
<1>2. ASSUME NEW w \in Warmer, w.thread # "loop", CloseResources(p, w) PROVE FALSE
  <2>1. /\ [w EXCEPT !.failure = TRUE] \in Warmer
        /\ [w EXCEPT !.failure = TRUE].thread = w.thread
        /\ [w EXCEPT !.lease = "none"] \in Warmer
        /\ [w EXCEPT !.lease = "none"].thread = w.thread
    BY DEF Warmer
  <2>2. KeepsLease(w) \in Warmer /\ KeepsLease(w).thread = w.thread
    BY DEF Warmer, KeepsLease
  <2> QED BY <1>1, <1>2, <2>1, <2>2 DEF CloseResources
<1>3. ASSUME Loop(p) PROVE FALSE
  <2>1. LoopCleanup(p)
    BY <1>0, <1>3 DEF Loop, Sound, Acquire, StandBy, RenewForCycle, LoseForCycle,
          LoopIsFree, Collect, Publish, PublishRefused, EndCycle, JoinTimesOut, LeaveLoop
  <2> DEFINE w == [old EXCEPT !.thread = "ended"]
  <2>2. w \in Warmer /\ w.thread # "loop" /\ CloseResources(p, w)
    BY <1>0, <2>1 DEF LoopCleanup, Warmer
  <2> HIDE DEF w
  <2> QED BY <1>2, <2>2
<1>4. ASSUME Closer(p) PROVE FALSE
  <2> DEFINE w == [old EXCEPT !.closer = FALSE]
  <2>1. w \in Warmer /\ w.thread # "loop" /\ CloseResources(p, w)
    BY <1>0, <1>4 DEF Closer, Warmer
  <2> HIDE DEF w
  <2> QED BY <1>2, <2>1
<1>5. ASSUME RequestStop(p) \/ JoinedThreads(p) \/ ShutdownRaises(p) \/ ShutdownSucceeds(p)
      PROVE  FALSE
  <2> DEFINE asked == [old EXCEPT !.stop = TRUE, !.shut = "joining"]
             joined == [old EXCEPT !.shut = "closing",
                                   !.closer = (@ \/ old.lease # "none" \/ old.cycle # "idle")]
             raised == [old EXCEPT !.shut = "no"]
             done == [old EXCEPT !.shut = "done"]
  <2>1. asked \in Warmer /\ asked.thread # "loop"
    BY <1>0 DEF Warmer
  <2>2. joined \in Warmer /\ joined.thread # "loop"
    BY <1>0 DEF Warmer
  <2>3. raised \in Warmer /\ raised.thread # "loop"
    BY <1>0 DEF Warmer
  <2>4. done \in Warmer /\ done.thread # "loop"
    BY <1>0 DEF Warmer
  <2>5. Set(p, asked) \/ Set(p, joined) \/ Set(p, raised) \/ Set(p, done)
    BY <1>5 DEF RequestStop, JoinedThreads, ShutdownRaises, ShutdownSucceeds
  <2> HIDE DEF asked, joined, raised, done
  <2> QED BY <1>1, <2>1, <2>2, <2>3, <2>4, <2>5
<1>6. ASSUME Beat(p) PROVE FALSE
  <2> DEFINE next == IF old.beat = "late" THEN "none" ELSE "beating"
             v == [old EXCEPT !.beat = next]
             w == [old EXCEPT !.beat = "none", !.lease = "lost", !.failure = TRUE,
                              !.stop = TRUE]
  <2>1. Set(p, v) \/ Set(p, w)
    BY <1>6 DEF Beat
  <2>2. v \in Warmer /\ v.thread # "loop" /\ w \in Warmer /\ w.thread # "loop"
    BY <1>0 DEF Warmer
  <2> QED BY <1>1, <2>1, <2>2
<1>7. ASSUME Crash(p) PROVE FALSE
  BY <1>1, <1>7, NewIsSound DEF Crash, NewWarmer
<1> QED BY <1>3, <1>4, <1>5, <1>6, <1>7 DEF Step, Control

\* A loop is started only where nothing of an earlier one is left.
THEOREM StartIsClean == Spec => StartsClean
<1> DEFINE Begins(p) == warmer'[p].thread = "loop" /\ warmer[p].thread # "loop"
           Clean(p) == /\ warmer[p].beat = "none" /\ ~warmer[p].closer
                       /\ warmer[p].lease = "none" /\ row.holder # p
<1>1. Inv /\ [Next]_vars => [\A p \in Procs : Begins(p) => Clean(p)]_vars
  <2> SUFFICES ASSUME Inv, Next, NEW p \in Procs, Begins(p) PROVE Clean(p)
    OBVIOUS
  <2>1. CASE Tick
    BY <2>1 DEF Tick
  <2>2. PICK q \in Procs : Step(q)
    BY <2>1 DEF Next, Step, Tick
  <2>3. q = p
    <3>1. PICK w \in Warmer : Set(q, w)
      BY <2>2, StepSound DEF Inv
    <3> QED BY <3>1, SetEffect DEF Inv
  <2>4. Start(p)
    BY <2>2, <2>3, OnlyStartBegins DEF Inv
  <2> QED BY <2>4 DEF Inv, Sound, Alive, RowHasLease, Start, MayStart, ThreadAlive
<1> QED BY <1>1, Invariance, PTL DEF Spec, StartsClean
=============================================================================
