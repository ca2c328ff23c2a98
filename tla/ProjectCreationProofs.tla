----------------------- MODULE ProjectCreationProofs -----------------------
(***************************************************************************)
(* Theorems about ProjectCreation for any number of attempts, request ids  *)
(* and inputs, any number of deaths and any choice of who sweeps.          *)
(*                                                                         *)
(* The invariant: every row is whole for its state (Whole), a request id   *)
(* has one row (OneRow), and a row that is being filled has one creator,   *)
(* which wrote what its place in the sequence says (Filled).  A creator    *)
(* between the two halves of update_project_record holds a copy that is    *)
(* outdated only if the row is archived, and then the fence refuses it.    *)
(***************************************************************************)
EXTENDS ProjectCreation, FiniteSetTheorems, SequenceTheorems, TLAPS

\* The steps at which an attempt is the creator of its row.
Filling == {"workspace", "scenario", "record", "rewrite", "reworkspace", "lines"}

Whole(r) ==
    /\ r.archived <=> r.state = "ABANDONED"
    /\ r.state = "COMPLETE" => r.parts = Parts
    /\ r.state # "COMPLETE" => "lines" \notin r.parts

Filled(w, r) ==
    /\ r.state # "COMPLETE"
    /\ w.pc # "workspace" => "workspace" \in r.parts
    /\ w.pc \in {"record", "rewrite", "reworkspace", "lines"} => "scenario" \in r.parts
    /\ w.pc \in {"reworkspace", "lines"} => "record" \in r.parts
    /\ w.pc = "lines" => "reworkspace" \in r.parts
    /\ w.pc = "rewrite" /\ ~r.archived =>
          w.copy.state = "CREATING" /\ w.copy.archived = FALSE

OneRow == \A p, q \in Rows : projects[p].id = projects[q].id => p = q

Used == {projects[p].id : p \in Rows}

OneCreator ==
    \A a, b \in Attempts :
        /\ attempt[a].pc \in Filling /\ attempt[b].pc \in Filling
        /\ attempt[a].row = attempt[b].row
        => a = b

Inv ==
    /\ TypeOK
    /\ Len(projects) = Cardinality(Used)
    /\ \A p \in Rows : Whole(projects[p])
    /\ OneRow /\ OneCreator
    /\ \A a \in Attempts :
          /\ attempt[a].pc \in Filling \union {"sweep"} => attempt[a].row \in Rows
          /\ attempt[a].pc \in Filling => Filled(attempt[a], projects[attempt[a].row])
          /\ attempt[a].pc \in {"plan", "insert"} => attempt[a].tries < MaxTries

----------------------------------------------------------------------------
(* The effect of the assignments the actions are made of.                  *)

\* The constants are numbers.
LEMMA Numbers ==
    /\ Cardinality(Ids) \in Nat /\ IsFiniteSet(Ids)
    /\ MaxTries \in Nat /\ MaxCrashes \in Nat
BY FS_CardinalityType, CreationAssumption DEF CreationAssumption

\* Only the record of a changes, to v.
Becomes(a, v) ==
    /\ attempt' \in [Attempts -> Attempt] /\ attempt'[a] = v
    /\ \A b \in Attempts : b # a => attempt'[b] = attempt[b]

\* An EXCEPT of the attempts changes one of them.
LEMMA AttemptEffect ==
    ASSUME TypeOK, NEW a \in Attempts, NEW v \in Attempt,
           attempt' = [attempt EXCEPT ![a] = v]
    PROVE  Becomes(a, v)
BY DEF TypeOK, Becomes

\* The attempt goes on to pc, with the row and the copy it had.
Goes(a, pc) ==
    \E v \in Attempt : /\ Becomes(a, v) /\ v.pc = pc /\ v.row = attempt[a].row
                       /\ v.copy = attempt[a].copy /\ v.tries = attempt[a].tries

\* What Goto does.
LEMMA GotoEffect ==
    ASSUME TypeOK, NEW a \in Attempts, NEW pc \in Pcs, Goto(a, pc)
    PROVE  Goes(a, pc)
<1> DEFINE v == [attempt[a] EXCEPT !.pc = pc]
<1>1. /\ v \in Attempt /\ v.pc = pc /\ v.row = attempt[a].row
      /\ v.copy = attempt[a].copy /\ v.tries = attempt[a].tries
  BY DEF TypeOK, Attempt
<1>2. attempt' = [attempt EXCEPT ![a] = v]
  BY DEF Goto
<1> HIDE DEF v
<1> QED BY <1>1, <1>2, AttemptEffect DEF Goes

\* A new attempt is one, and has filled nothing.
LEMMA NewAttemptIs ==
    ASSUME NEW id \in Ids, NEW digest \in Digests
    PROVE  /\ NewAttempt(id, digest) \in Attempt
           /\ NewAttempt(id, digest).pc = "observe"
<1>1. /\ 1 \in Codes /\ 0 \in 0..Cardinality(Ids) /\ 0 \in 0..MaxTries
  <2>1. Cardinality(Ids) # 0
    BY Numbers, FS_EmptySet
  <2> QED BY <2>1, Numbers DEF Codes
<1>2. [state |-> "CREATING", archived |-> FALSE]
         \in [state : {"CREATING", "COMPLETE", "ABANDONED"}, archived : BOOLEAN]
  OBVIOUS
<1> QED BY <1>1, <1>2 DEF NewAttempt, Attempt, Pcs, Replies

\* The attempt is idle again, whatever it answered.
Idles(a) == \E v \in Attempt : Becomes(a, v) /\ v.pc = "idle"

\* What Answer does.
LEMMA AnswerEffect ==
    ASSUME TypeOK, NEW a \in Attempts, NEW reply \in Replies, Answer(a, reply)
    PROVE  Idles(a)
<1> DEFINE new == NewAttempt(attempt[a].id, attempt[a].digest)
           v == [new EXCEPT !.pc = "idle", !.reply = reply]
<1>1. attempt[a].id \in Ids /\ attempt[a].digest \in Digests
  BY DEF TypeOK, Attempt
<1>2. new \in Attempt
  BY <1>1, NewAttemptIs
<1>3. attempt' = [attempt EXCEPT ![a] = v]
  BY DEF Answer
<1> HIDE DEF new
<1>4. v \in Attempt /\ v.pc = "idle"
  BY <1>2 DEF Attempt, Pcs
<1> HIDE DEF v
<1> QED BY <1>3, <1>4, AttemptEffect DEF Idles

\* Only the row p changes, to r.
RowSet(p, r) ==
    /\ projects' \in Seq(Project) /\ Len(projects') = Len(projects)
    /\ Rows' = Rows
    /\ projects'[p] = r
    /\ \A q \in Rows : q # p => projects'[q] = projects[q]

\* The rows are numbered.
LEMMA RowsAre ==
    ASSUME TypeOK
    PROVE  /\ Rows = 1..Len(projects) /\ Len(projects) \in Nat
           /\ \A p \in Rows : projects[p] \in Project
BY DEF TypeOK, Rows

\* An EXCEPT of the rows changes one of them.
LEMMA RowEffect ==
    ASSUME TypeOK, NEW p \in Rows, NEW r \in Project,
           projects' = [projects EXCEPT ![p] = r]
    PROVE  RowSet(p, r)
<1>1. projects \in Seq(Project) /\ Rows = 1..Len(projects)
  BY RowsAre DEF TypeOK
<1> DEFINE new == [projects EXCEPT ![p] = r]
<1>2. /\ new \in Seq(Project) /\ Len(new) = Len(projects)
      /\ \A j \in 1..Len(projects) : new[j] = IF j = p THEN r ELSE projects[j]
  BY <1>1, ExceptSeq
<1>3. projects' = new
  OBVIOUS
<1> HIDE DEF new
<1>4. Rows' = 1..Len(projects')
  BY <1>2, <1>3 DEF Rows
<1> QED BY <1>1, <1>2, <1>3, <1>4 DEF RowSet

----------------------------------------------------------------------------
(* The invariant is kept: by a change of one attempt, of one row, or both. *)

\* The attempts other than a keep their places, their rows and their copies.
LEMMA AttemptKeeps ==
    ASSUME Inv, NEW a \in Attempts, NEW v \in Attempt, Becomes(a, v),
           UNCHANGED projects, crashes' \in 0..MaxCrashes,
           v.pc = "sweep" => v.row \in Rows,
           v.pc \in {"plan", "insert"} => v.tries < MaxTries,
           v.pc \in Filling => /\ attempt[a].pc \in Filling /\ v.row = attempt[a].row
                               /\ Filled(v, projects[v.row])
    PROVE  Inv'
<1>1. TypeOK'
  BY DEF Inv, TypeOK, Becomes
<1>2. Rows' = Rows /\ Used' = Used
  BY DEF Rows, Used
<1>3. OneCreator'
  BY DEF Inv, OneCreator, Becomes
<1>4. \A b \in Attempts :
         /\ attempt'[b].pc \in Filling \union {"sweep"} => attempt'[b].row \in Rows
         /\ attempt'[b].pc \in Filling => Filled(attempt'[b], projects'[attempt'[b].row])
         /\ attempt'[b].pc \in {"plan", "insert"} => attempt'[b].tries < MaxTries
  <2> SUFFICES ASSUME NEW b \in Attempts
               PROVE  /\ attempt'[b].pc \in Filling \union {"sweep"} => attempt'[b].row \in Rows
                      /\ attempt'[b].pc \in Filling =>
                            Filled(attempt'[b], projects'[attempt'[b].row])
                      /\ attempt'[b].pc \in {"plan", "insert"} => attempt'[b].tries < MaxTries
    OBVIOUS
  <2>1. CASE b = a
    BY <2>1 DEF Inv, Becomes
  <2>2. CASE b # a
    BY <2>2 DEF Inv, Becomes
  <2> QED BY <2>1, <2>2
<1> QED BY <1>1, <1>2, <1>3, <1>4 DEF Inv, OneRow

\* An attempt that ends keeps the invariant.
LEMMA IdleKeeps ==
    ASSUME Inv, NEW a \in Attempts, Idles(a), UNCHANGED projects,
           crashes' \in 0..MaxCrashes
    PROVE  Inv'
<1>1. PICK v \in Attempt : Becomes(a, v) /\ v.pc = "idle"
  BY DEF Idles
<1> QED BY <1>1, AttemptKeeps DEF Filling

\* What is used and how many there are does not depend on the rest of a row.
LEMMA RowKeepsIds ==
    ASSUME Inv, NEW p \in Rows, NEW r \in Project, RowSet(p, r), r.id = projects[p].id
    PROVE  /\ Used' = Used
           /\ \A q \in Rows : projects'[q].id = projects[q].id
           /\ OneRow'
<1>1. \A q \in Rows : projects'[q].id = projects[q].id
  BY DEF RowSet
<1>2. Rows' = Rows
  BY DEF RowSet
<1>3. Used' = Used
  BY <1>1, <1>2 DEF Used
<1> QED BY <1>1, <1>2, <1>3 DEF Inv, OneRow

\* So does the creator of a row, or a sweeper, that writes whole rows.
LEMMA RowKeeps ==
    ASSUME Inv, NEW a \in Attempts, NEW v \in Attempt, Becomes(a, v),
           NEW p \in Rows, NEW r \in Project, RowSet(p, r),
           Whole(r), r.id = projects[p].id, UNCHANGED crashes, v.pc \notin {"sweep", "plan", "insert"},
           \A b \in Attempts : b # a /\ attempt[b].pc \in Filling /\ attempt[b].row = p
                               => Filled(attempt[b], r),
           v.pc \in Filling => /\ attempt[a].pc \in Filling /\ attempt[a].row = p
                               /\ v.row = p /\ Filled(v, r)
    PROVE  Inv'
<1>1. TypeOK'
  BY DEF Inv, TypeOK, Becomes, RowSet
<1>2. Rows' = Rows /\ Used' = Used /\ OneRow' /\ Len(projects') = Len(projects)
  BY RowKeepsIds DEF RowSet
<1>3. \A q \in Rows : Whole(projects'[q])
  BY DEF Inv, RowSet
<1>4. OneCreator'
  BY DEF Inv, OneCreator, Becomes
<1>5. \A b \in Attempts :
         /\ attempt'[b].pc \in Filling \union {"sweep"} => attempt'[b].row \in Rows
         /\ attempt'[b].pc \in Filling => Filled(attempt'[b], projects'[attempt'[b].row])
         /\ attempt'[b].pc \in {"plan", "insert"} => attempt'[b].tries < MaxTries
  <2> SUFFICES ASSUME NEW b \in Attempts
               PROVE  /\ attempt'[b].pc \in Filling \union {"sweep"} => attempt'[b].row \in Rows
                      /\ attempt'[b].pc \in Filling =>
                            Filled(attempt'[b], projects'[attempt'[b].row])
                      /\ attempt'[b].pc \in {"plan", "insert"} => attempt'[b].tries < MaxTries
    OBVIOUS
  <2>1. CASE b = a
    BY <2>1 DEF Becomes, RowSet
  <2>2. CASE b # a /\ attempt[b].row = p
    BY <2>2 DEF Inv, Becomes, RowSet
  <2>3. CASE b # a /\ attempt[b].row # p
    BY <2>3 DEF Inv, Becomes, RowSet
  <2> QED BY <2>1, <2>2, <2>3
<1> QED BY <1>1, <1>2, <1>3, <1>4, <1>5 DEF Inv

\* A creator that goes on leaves the other attempts alone: the row is its own.
LEMMA CreatorKeeps ==
    ASSUME Inv, NEW a \in Attempts, NEW pc \in Pcs, Goes(a, pc), pc \notin {"sweep", "plan", "insert"},
           attempt[a].pc \in Filling, NEW r \in Project, RowSet(attempt[a].row, r),
           Whole(r), r.id = projects[attempt[a].row].id, UNCHANGED crashes,
           pc \in Filling => \A v \in Attempt : v.pc = pc => pc # "rewrite" /\ Filled(v, r)
    PROVE  Inv'
<1>1. PICK v \in Attempt : Becomes(a, v) /\ v.pc = pc /\ v.row = attempt[a].row
  BY DEF Goes
<1>2. attempt[a].row \in Rows
  BY DEF Inv
<1>3. \A b \in Attempts : b # a /\ attempt[b].pc \in Filling => attempt[b].row # attempt[a].row
  BY DEF Inv, OneCreator
<1> QED BY <1>1, <1>2, <1>3, RowKeeps

----------------------------------------------------------------------------
(* The actions.                                                            *)

\* What an attempt holds has its type.
LEMMA AttemptIs ==
    ASSUME TypeOK, NEW a \in Attempts
    PROVE  /\ attempt[a] \in Attempt /\ attempt[a].pc \in Pcs
           /\ attempt[a].id \in Ids /\ attempt[a].digest \in Digests
           /\ attempt[a].code \in Codes
           /\ attempt[a].copy \in [state : {"CREATING", "COMPLETE", "ABANDONED"},
                                   archived : BOOLEAN]
           /\ attempt[a].copy.state \in {"CREATING", "COMPLETE", "ABANDONED"}
           /\ attempt[a].copy.archived \in BOOLEAN
<1>1. attempt[a] \in Attempt
  BY DEF TypeOK
<1> QED BY <1>1 DEF Attempt

\* One lemma per action: it keeps the invariant.
LEMMA SubmitKeeps ==
    ASSUME Inv, NEW a \in Attempts, NEW id \in Ids, NEW digest \in Digests,
           Submit(a, id, digest)
    PROVE  Inv'
<1>1. Becomes(a, NewAttempt(id, digest))
  BY NewAttemptIs, AttemptEffect DEF Inv, Submit
<1>2. UNCHANGED <<projects, crashes>>
  BY DEF Submit
<1> QED BY <1>1, <1>2, NewAttemptIs, AttemptKeeps DEF Filling, Inv, TypeOK

\* Reading the namespace and the mapping keeps the invariant.
LEMMA ObserveKeeps ==
    ASSUME Inv, NEW a \in Attempts, Observe(a)
    PROVE  Inv'
<1>1. TypeOK /\ attempt[a] \in Attempt /\ UNCHANGED <<projects, crashes>>
      /\ crashes' \in 0..MaxCrashes
  BY AttemptIs DEF Inv, Observe, TypeOK
<1>2. ASSUME NEW reply \in Replies, Answer(a, reply)
      PROVE  Inv'
  BY <1>1, <1>2, AnswerEffect, IdleKeeps
<1>3. CASE Goto(a, "plan") /\ attempt[a].tries # MaxTries
  <2>1. Goes(a, "plan")
    BY <1>1, <1>3, GotoEffect DEF Pcs
  <2>2. PICK v \in Attempt : Becomes(a, v) /\ v.pc = "plan" /\ v.tries < MaxTries
    <3>1. attempt[a].tries < MaxTries
      BY <1>1, <1>3, Numbers DEF Attempt
    <3> QED BY <2>1, <3>1 DEF Goes
  <2> QED BY <1>1, <2>2, AttemptKeeps DEF Filling
<1>4. ASSUME NEW p \in RowsOf(attempt[a].id),
             attempt' = [attempt EXCEPT ![a].pc = "sweep", ![a].row = p]
      PROVE  Inv'
  <2> DEFINE v == [attempt[a] EXCEPT !.pc = "sweep", !.row = p]
  <2>1. p \in Rows /\ p \in 0..Cardinality(Ids)
    BY <1>1, RowsAre, Numbers DEF RowsOf, TypeOK
  <2>2. v \in Attempt /\ v.pc = "sweep" /\ v.row = p
    BY <1>1, <2>1 DEF Attempt, Pcs
  <2>3. attempt' = [attempt EXCEPT ![a] = v]
    BY <1>4
  <2> HIDE DEF v
  <2>4. Becomes(a, v)
    BY <1>1, <2>2, <2>3, AttemptEffect
  <2> QED BY <1>1, <2>1, <2>2, <2>4, AttemptKeeps DEF Filling
<1>5. \/ \E reply \in Replies : Answer(a, reply)
      \/ Goto(a, "plan") /\ attempt[a].tries # MaxTries
      \/ \E p \in RowsOf(attempt[a].id) :
            attempt' = [attempt EXCEPT ![a].pc = "sweep", ![a].row = p]
  <2>1. "unknown" \in Replies /\ "conflict" \in Replies /\ "created" \in Replies
        /\ "abandoned" \in Replies
    BY DEF Replies
  <2>2. CASE RowsOf(attempt[a].id) = {} /\ (IF attempt[a].tries = MaxTries
                                            THEN Answer(a, "unknown") ELSE Goto(a, "plan"))
    BY <2>1, <2>2
  <2>3. ASSUME NEW p \in RowsOf(attempt[a].id),
               CASE projects[p].digest # attempt[a].digest -> Answer(a, "conflict")
                 [] projects[p].state = "COMPLETE" -> Answer(a, "created")
                 [] projects[p].state = "ABANDONED" -> Answer(a, "abandoned")
                 [] OTHER -> attempt' = [attempt EXCEPT ![a].pc = "sweep", ![a].row = p]
        PROVE  \/ \E reply \in Replies : Answer(a, reply)
               \/ attempt' = [attempt EXCEPT ![a].pc = "sweep", ![a].row = p]
    BY <2>1, <2>3
  <2> QED BY <2>2, <2>3 DEF Observe
<1> QED BY <1>2, <1>3, <1>4, <1>5

\* Choosing a code from what was read keeps the invariant.
LEMMA PlanKeeps ==
    ASSUME Inv, NEW a \in Attempts, Plan(a)
    PROVE  Inv'
<1>1. TypeOK /\ attempt[a] \in Attempt /\ UNCHANGED <<projects, crashes>>
      /\ crashes' \in 0..MaxCrashes
  BY AttemptIs DEF Inv, Plan, TypeOK
<1>2. PICK code \in Codes :
         attempt' = [attempt EXCEPT ![a].pc = "insert", ![a].code = code]
  BY DEF Plan
<1> DEFINE v == [attempt[a] EXCEPT !.pc = "insert", !.code = code]
<1>3. v \in Attempt /\ v.pc = "insert" /\ v.tries < MaxTries
  <2>1. attempt[a].tries < MaxTries
    BY DEF Inv, Plan
  <2> QED BY <1>1, <2>1 DEF Attempt, Pcs
<1>4. attempt' = [attempt EXCEPT ![a] = v]
  BY <1>2
<1> HIDE DEF v
<1>5. Becomes(a, v)
  BY <1>1, <1>3, <1>4, AttemptEffect
<1> QED BY <1>1, <1>3, <1>5, AttemptKeeps DEF Filling

\* A new row, that nobody but its creator can name yet.
LEMMA Inserted ==
    ASSUME Inv, NEW a \in Attempts, Insert(a), MayInsert(a)
    PROVE  /\ Inv' /\ RowsOf(attempt[a].id) = {}
           /\ Rows' = Rows \union {Len(projects) + 1} /\ Len(projects) + 1 \notin Rows
           /\ \A p \in Rows : projects'[p] = projects[p]
           /\ projects'[Len(projects) + 1].id = attempt[a].id
           /\ projects'[Len(projects) + 1].state = "CREATING"
<1> DEFINE n == Len(projects) + 1
           r == [id |-> attempt[a].id, digest |-> attempt[a].digest,
                 code |-> attempt[a].code, state |-> "CREATING",
                 archived |-> FALSE, stale |-> FALSE, parts |-> {}]
           v == [attempt[a] EXCEPT !.pc = "workspace", !.row = n]
<1>1. /\ TypeOK /\ attempt[a] \in Attempt /\ UNCHANGED crashes
      /\ RowsOf(attempt[a].id) = {} /\ attempt[a].id \in Ids
      /\ Rows = 1..Len(projects) /\ Len(projects) \in Nat
  BY AttemptIs, RowsAre DEF Inv, Insert, MayInsert
<1>2. r \in Project /\ r.id = attempt[a].id /\ r.state = "CREATING" /\ Whole(r)
  BY <1>1, AttemptIs DEF Project, Whole
<1>3. projects' = Append(projects, r)
  BY DEF Insert
<1> HIDE DEF r
<1>4. /\ projects' \in Seq(Project) /\ Len(projects') = n /\ projects'[n] = r
      /\ \A p \in Rows : projects'[p] = projects[p]
  BY <1>1, <1>2, <1>3 DEF TypeOK
<1>5. Rows' = Rows \union {n} /\ n \notin Rows
  <2>1. Rows' = 1..n
    BY <1>4 DEF Rows
  <2> QED BY <1>1, <2>1
<1>6. /\ Used' = Used \union {attempt[a].id} /\ attempt[a].id \notin Used
      /\ Used \subseteq Ids /\ Used' \subseteq Ids
  <2>1. attempt[a].id \notin Used /\ Used \subseteq Ids
    BY <1>1, RowsAre DEF Used, RowsOf, Project
  <2>2. Used' = Used \union {attempt[a].id}
    BY <1>2, <1>4, <1>5 DEF Used
  <2> QED BY <1>1, <2>1, <2>2
<1>7. Len(projects') = Cardinality(Used') /\ n <= Cardinality(Ids)
  <2>1. IsFiniteSet(Used) /\ Cardinality(Used') <= Cardinality(Ids)
    BY <1>6, Numbers, FS_Subset
  <2>2. Cardinality(Used') = Cardinality(Used) + 1
    BY <1>6, <2>1, FS_AddElement
  <2> QED BY <1>4, <2>1, <2>2 DEF Inv
<1>8. v \in Attempt /\ v.pc = "workspace" /\ v.row = n
  <2>1. n \in 0..Cardinality(Ids)
    BY <1>1, <1>7, Numbers
  <2> HIDE DEF n
  <2> QED BY <1>1, <2>1 DEF Attempt, Pcs
<1>9. attempt' = [attempt EXCEPT ![a] = v]
  BY DEF Insert
<1> HIDE DEF v
<1>10. Becomes(a, v)
  BY <1>1, <1>8, <1>9, AttemptEffect
<1> HIDE DEF n
<1>11. TypeOK'
  BY <1>1, <1>4, <1>7, <1>10 DEF TypeOK, Becomes
<1>12. \A p \in Rows' : Whole(projects'[p])
  BY <1>2, <1>4, <1>5 DEF Inv
<1>13. OneRow'
  <2>1. \A p \in Rows : projects'[p].id = projects[p].id /\ projects[p].id \in Used
    BY <1>4 DEF Used
  <2>2. \A p \in Rows : projects'[p].id # projects'[n].id
    BY <1>2, <1>4, <1>6, <2>1
  <2> SUFFICES ASSUME NEW p \in Rows', NEW q \in Rows', projects'[p].id = projects'[q].id
               PROVE  p = q
    BY DEF OneRow
  <2>3. (p \in Rows \/ p = n) /\ (q \in Rows \/ q = n)
    BY <1>5
  <2> QED BY <2>1, <2>2, <2>3 DEF Inv, OneRow
<1>14. OneCreator'
  BY <1>5, <1>8, <1>10 DEF Inv, OneCreator, Becomes
<1>15. \A b \in Attempts :
         /\ attempt'[b].pc \in Filling \union {"sweep"} => attempt'[b].row \in Rows'
         /\ attempt'[b].pc \in Filling => Filled(attempt'[b], projects'[attempt'[b].row])
         /\ attempt'[b].pc \in {"plan", "insert"} => attempt'[b].tries < MaxTries
  <2> SUFFICES ASSUME NEW b \in Attempts
               PROVE  /\ attempt'[b].pc \in Filling \union {"sweep"} => attempt'[b].row \in Rows'
                      /\ attempt'[b].pc \in Filling =>
                            Filled(attempt'[b], projects'[attempt'[b].row])
                      /\ attempt'[b].pc \in {"plan", "insert"} => attempt'[b].tries < MaxTries
    OBVIOUS
  <2>1. CASE b = a
    <3>1. Filled(v, r)
      BY <1>2, <1>8 DEF Filled
    <3> QED BY <1>4, <1>5, <1>8, <1>10, <2>1, <3>1 DEF Becomes
  <2>2. CASE b # a
    BY <1>4, <1>5, <1>10, <2>2 DEF Inv, Becomes
  <2> QED BY <2>1, <2>2
<1> QED BY <1>1, <1>2, <1>4, <1>5, <1>7, <1>11, <1>12, <1>13, <1>14, <1>15 DEF Inv, n

\* An insert that meets a taken code changes no project.
LEMMA CollisionKeeps ==
    ASSUME Inv, NEW a \in Attempts, Insert(a), ~MayInsert(a)
    PROVE  Inv' /\ UNCHANGED projects
<1>1. /\ TypeOK /\ attempt[a] \in Attempt /\ UNCHANGED <<projects, crashes>>
      /\ crashes' \in 0..MaxCrashes
  BY AttemptIs DEF Inv, Insert, TypeOK
<1> DEFINE v == [attempt[a] EXCEPT !.pc = "observe", !.tries = @ + 1]
<1>2. v \in Attempt /\ v.pc = "observe"
  <2>1. attempt[a].tries + 1 \in 0..MaxTries
    <3>1. attempt[a].tries < MaxTries
      BY DEF Inv, Insert
    <3> QED BY <1>1, <3>1, Numbers DEF Attempt
  <2> QED BY <1>1, <2>1 DEF Attempt, Pcs
<1>3. attempt' = [attempt EXCEPT ![a] = v]
  BY DEF Insert
<1> HIDE DEF v
<1>4. Becomes(a, v)
  BY <1>1, <1>2, <1>3, AttemptEffect
<1> QED BY <1>1, <1>2, <1>4, AttemptKeeps DEF Filling

\* Sweeping what an earlier attempt left keeps the invariant.
LEMMA SweepKeeps ==
    ASSUME Inv, NEW a \in Attempts, Sweep(a)
    PROVE  Inv'
<1> DEFINE p == attempt[a].row
           r == [projects[p] EXCEPT !.state = "ABANDONED", !.archived = TRUE]
<1>1. /\ TypeOK /\ p \in Rows /\ projects[p] \in Project /\ Whole(projects[p])
      /\ UNCHANGED crashes /\ crashes' \in 0..MaxCrashes
  BY RowsAre DEF Inv, Sweep, Filling, TypeOK
<1>2. CASE MayAbandon(p)
  <2>1. Idles(a)
    BY <1>1, <1>2, AnswerEffect DEF Sweep, Replies
  <2>2. PICK v \in Attempt : Becomes(a, v) /\ v.pc = "idle"
    BY <2>1 DEF Idles
  <2>3. /\ r \in Project /\ r.state = "ABANDONED" /\ r.archived = TRUE
        /\ r.parts = projects[p].parts /\ r.id = projects[p].id
    BY <1>1 DEF Project
  <2>4. projects' = [projects EXCEPT ![p] = r]
    BY <1>2 DEF Sweep
  <2> HIDE DEF r
  <2>5. RowSet(p, r)
    BY <1>1, <2>3, <2>4, RowEffect
  <2>6. Whole(r)
    BY <1>1, <1>2, <2>3 DEF Whole, MayAbandon
  <2>7. \A b \in Attempts : attempt[b].pc \in Filling /\ attempt[b].row = p
                             => Filled(attempt[b], r)
    BY <2>3 DEF Inv, Filled
  <2> HIDE DEF p
  <2> QED BY <1>1, <2>2, <2>3, <2>5, <2>6, <2>7, RowKeeps DEF Filling
<1>3. CASE ~MayAbandon(p)
  <2>1. Idles(a) /\ UNCHANGED projects
    BY <1>1, <1>3, AnswerEffect DEF Sweep, Replies
  <2> QED BY <1>1, <2>1, IdleKeeps
<1> QED BY <1>2, <1>3

\* Whatever a creator writes: its part, or nothing.
LEMMA WriteKeeps ==
    ASSUME Inv, NEW a \in Attempts,
           WriteWorkspace(a) \/ WriteScenario(a) \/ RewriteWorkspace(a)
    PROVE  Inv'
<1> DEFINE p == attempt[a].row
<1>1. /\ TypeOK /\ p \in Rows /\ projects[p] \in Project /\ Whole(projects[p])
      /\ UNCHANGED crashes /\ crashes' \in 0..MaxCrashes
      /\ attempt[a].pc \in Filling /\ Filled(attempt[a], projects[p])
  BY RowsAre DEF Inv, WriteWorkspace, WriteScenario, RewriteWorkspace, Write, Filling, TypeOK
<1>2. CASE MayWrite(p)
  <2>1. PICK part \in Parts \ {"lines"}, pc \in {"scenario", "record", "lines"} :
           /\ attempt[a].pc = part /\ Goto(a, pc)
           /\ <<part, pc>> \in {<<"workspace", "scenario">>, <<"scenario", "record">>,
                                 <<"reworkspace", "lines">>}
           /\ projects' = [projects EXCEPT ![p].parts = @ \union {part}]
    BY <1>2 DEF WriteWorkspace, WriteScenario, RewriteWorkspace, Write, Parts
  <2> DEFINE r == [projects[p] EXCEPT !.parts = @ \union {part}]
  <2>2. /\ r \in Project /\ r.state = projects[p].state /\ r.archived = projects[p].archived
        /\ r.parts = projects[p].parts \union {part} /\ r.id = projects[p].id
    BY <1>1 DEF Project, Parts
  <2>3. projects' = [projects EXCEPT ![p] = r]
    BY <2>1
  <2> HIDE DEF r
  <2>4. RowSet(p, r)
    BY <1>1, <2>2, <2>3, RowEffect
  <2>5. Goes(a, pc)
    BY <1>1, <2>1, GotoEffect DEF Pcs
  <2>6. Whole(r)
    BY <1>1, <2>2 DEF Whole, Filled
  <2>7. \A v \in Attempt : v.pc = pc => pc # "rewrite" /\ Filled(v, r)
    BY <1>1, <2>1, <2>2 DEF Filled
  <2>8. pc \in Pcs /\ pc \notin {"sweep", "plan", "insert"}
    BY DEF Pcs
  <2> HIDE DEF p
  <2> QED BY <1>1, <2>2, <2>4, <2>5, <2>6, <2>7, <2>8, CreatorKeeps DEF p
<1>3. CASE ~MayWrite(p)
  <2>1. Idles(a) /\ UNCHANGED projects
    BY <1>1, <1>3, AnswerEffect
       DEF WriteWorkspace, WriteScenario, RewriteWorkspace, Write, Replies
  <2> QED BY <1>1, <2>1, IdleKeeps
<1> QED BY <1>2, <1>3

\* Reading back the record of the project keeps the invariant.
LEMMA ReadKeeps ==
    ASSUME Inv, NEW a \in Attempts, ReadRecord(a)
    PROVE  Inv'
<1> DEFINE p == attempt[a].row
           copy == [state |-> projects[p].state, archived |-> projects[p].archived]
           v == [attempt[a] EXCEPT !.pc = "rewrite", !.copy = copy]
<1>1. /\ TypeOK /\ p \in Rows /\ projects[p] \in Project /\ Whole(projects[p])
      /\ UNCHANGED <<projects, crashes>> /\ crashes' \in 0..MaxCrashes
      /\ attempt[a].pc = "record" /\ attempt[a].pc \in Filling
      /\ Filled(attempt[a], projects[p]) /\ attempt[a] \in Attempt
  BY RowsAre, AttemptIs DEF Inv, ReadRecord, Filling, TypeOK
<1>2. copy \in [state : {"CREATING", "COMPLETE", "ABANDONED"}, archived : BOOLEAN]
      /\ copy.state = projects[p].state /\ copy.archived = projects[p].archived
  BY <1>1 DEF Project
<1>3. attempt' = [attempt EXCEPT ![a] = v]
  BY DEF ReadRecord
<1> HIDE DEF copy
<1>4. v \in Attempt /\ v.pc = "rewrite" /\ v.row = p /\ v.copy = copy
  BY <1>1, <1>2 DEF Attempt, Pcs
<1> HIDE DEF v
<1>5. Becomes(a, v)
  BY <1>1, <1>3, <1>4, AttemptEffect
<1>6. Filled(v, projects[p])
  BY <1>1, <1>2, <1>4 DEF Filled, Whole, Project
<1> QED BY <1>1, <1>4, <1>5, <1>6, AttemptKeeps DEF Filling

\* The record is written back as it is but for its part: the copy is not
\* outdated where the fence lets it through.
LEMMA RecordWritten ==
    ASSUME Inv, NEW a \in Attempts, WriteRecord(a), MayWrite(attempt[a].row)
    PROVE  /\ attempt[a].row \in Rows
           /\ attempt[a].copy.state = projects[attempt[a].row].state
           /\ attempt[a].copy.archived = projects[attempt[a].row].archived
<1> DEFINE p == attempt[a].row
<1>1. /\ p \in Rows /\ projects[p] \in Project /\ Whole(projects[p])
      /\ attempt[a].pc = "rewrite" /\ Filled(attempt[a], projects[p])
  BY RowsAre DEF Inv, WriteRecord, Filling
<1> QED BY <1>1 DEF Filled, Whole, MayWrite, Project

\* Rewriting the record of the project keeps the invariant.
LEMMA WriteRecordKeeps ==
    ASSUME Inv, NEW a \in Attempts, WriteRecord(a)
    PROVE  Inv'
<1> DEFINE p == attempt[a].row
<1>1. /\ TypeOK /\ p \in Rows /\ projects[p] \in Project /\ Whole(projects[p])
      /\ UNCHANGED crashes /\ crashes' \in 0..MaxCrashes
      /\ attempt[a].pc = "rewrite" /\ attempt[a].pc \in Filling
      /\ Filled(attempt[a], projects[p])
  BY RowsAre DEF Inv, WriteRecord, Filling, TypeOK
<1>2. CASE MayWrite(p)
  <2> DEFINE r == [projects[p] EXCEPT !.state = attempt[a].copy.state,
                                      !.archived = attempt[a].copy.archived,
                                      !.parts = @ \union {"record"}]
  <2>1. attempt[a].copy.state = projects[p].state
        /\ attempt[a].copy.archived = projects[p].archived
    BY <1>2, RecordWritten
  <2>2. /\ r \in Project /\ r.state = projects[p].state /\ r.archived = projects[p].archived
        /\ r.parts = projects[p].parts \union {"record"} /\ r.id = projects[p].id
    BY <1>1, <2>1 DEF Project, Parts
  <2>3. projects' = [projects EXCEPT ![p] = r] /\ Goto(a, "reworkspace")
    BY <1>2 DEF WriteRecord
  <2> HIDE DEF r
  <2>4. RowSet(p, r)
    BY <1>1, <2>2, <2>3, RowEffect
  <2>5. Goes(a, "reworkspace")
    BY <1>1, <2>3, GotoEffect DEF Pcs
  <2>6. Whole(r)
    BY <1>1, <2>2 DEF Whole, Filled
  <2>7. \A v \in Attempt : v.pc = "reworkspace" => Filled(v, r)
    BY <1>1, <2>2 DEF Filled
  <2>8. "reworkspace" \in Pcs
    BY DEF Pcs
  <2> HIDE DEF p
  <2> QED BY <1>1, <2>2, <2>4, <2>5, <2>6, <2>7, <2>8, CreatorKeeps DEF p
<1>3. CASE ~MayWrite(p)
  <2>1. Idles(a) /\ UNCHANGED projects
    BY <1>1, <1>3, AnswerEffect DEF WriteRecord, Replies
  <2> QED BY <1>1, <2>1, IdleKeeps
<1> QED BY <1>2, <1>3

\* The row of the seed transaction.
LEMMA SeedSets ==
    ASSUME Inv, NEW a \in Attempts, Seed(a),
           MayWrite(attempt[a].row), projects[attempt[a].row].state = "CREATING"
    PROVE  /\ attempt[a].row \in Rows
           /\ RowSet(attempt[a].row, Seeded(attempt[a].row))
           /\ Seeded(attempt[a].row) \in Project
           /\ Seeded(attempt[a].row).state = "COMPLETE"
           /\ Seeded(attempt[a].row).id = projects[attempt[a].row].id
           /\ Whole(Seeded(attempt[a].row))
<1> DEFINE p == attempt[a].row
           r == Seeded(p)
<1>1. /\ TypeOK /\ p \in Rows /\ projects[p] \in Project /\ Whole(projects[p])
      /\ attempt[a].pc = "lines" /\ Filled(attempt[a], projects[p])
  BY RowsAre DEF Inv, Seed, Filling
<1>2. /\ r \in Project /\ r.state = "COMPLETE" /\ r.archived = projects[p].archived
      /\ r.parts = projects[p].parts \union {"lines"} /\ r.id = projects[p].id
  BY <1>1 DEF Project, Parts, Seeded
<1>3. projects' = [projects EXCEPT ![p] = r]
  BY DEF Seed
<1> HIDE DEF r
<1>4. RowSet(p, r)
  BY <1>1, <1>2, <1>3, RowEffect
<1>5. r.parts = Parts
  BY <1>1, <1>2 DEF Filled, Parts, Project
<1>6. Whole(r)
  BY <1>1, <1>2, <1>5 DEF Whole, MayWrite
<1> QED BY <1>1, <1>2, <1>4, <1>6 DEF r

\* Seeding the new project keeps the invariant.
LEMMA SeedKeeps ==
    ASSUME Inv, NEW a \in Attempts, Seed(a)
    PROVE  Inv'
<1> DEFINE p == attempt[a].row
<1>1. /\ TypeOK /\ UNCHANGED crashes /\ crashes' \in 0..MaxCrashes
      /\ attempt[a].pc \in Filling
  BY DEF Inv, Seed, Filling, TypeOK
<1>2. CASE MayWrite(p) /\ projects[p].state = "CREATING"
  <2>1. Goes(a, "finish")
    BY <1>1, <1>2, GotoEffect DEF Seed, Pcs
  <2>2. "finish" \in Pcs \ Filling
    BY DEF Pcs, Filling
  <2> QED BY <1>1, <1>2, <2>1, <2>2, SeedSets, CreatorKeeps
<1>3. CASE ~(MayWrite(p) /\ projects[p].state = "CREATING")
  <2>1. Idles(a) /\ UNCHANGED projects
    BY <1>1, <1>3, AnswerEffect DEF Seed, Replies
  <2> QED BY <1>1, <2>1, IdleKeeps
<1> QED BY <1>2, <1>3

\* An attempt that ends, well or by a crash, keeps the invariant.
LEMMA LeaveKeeps ==
    ASSUME Inv, NEW a \in Attempts, Finish(a) \/ Crash(a)
    PROVE  Inv'
<1>1. TypeOK /\ UNCHANGED projects /\ crashes' \in 0..MaxCrashes
  BY Numbers DEF Inv, TypeOK, Finish, Crash
<1>2. Idles(a)
  BY <1>1, AnswerEffect DEF Finish, Crash, Replies
<1> QED BY <1>1, <1>2, IdleKeeps

\* A row gets old, for its creator as for everyone.
LEMMA LeaseKeeps ==
    ASSUME Inv, NEW p \in Rows, LeasePasses(p)
    PROVE  /\ Inv' /\ Rows' = Rows /\ projects[p].state = "CREATING"
           /\ \A q \in Rows : projects'[q].id = projects[q].id
                              /\ projects'[q].state = projects[q].state
           /\ \A q \in Rows : q # p => projects'[q] = projects[q]
<1> DEFINE r == [projects[p] EXCEPT !.stale = TRUE]
<1>1. /\ TypeOK /\ projects[p] \in Project /\ Whole(projects[p])
      /\ UNCHANGED <<attempt, crashes>> /\ projects[p].state = "CREATING"
  BY RowsAre DEF Inv, LeasePasses, MayGetStale
<1>2. /\ r \in Project /\ r.state = projects[p].state /\ r.archived = projects[p].archived
      /\ r.parts = projects[p].parts /\ r.id = projects[p].id
  BY <1>1 DEF Project
<1>3. projects' = [projects EXCEPT ![p] = r]
  BY DEF LeasePasses
<1> HIDE DEF r
<1>4. RowSet(p, r)
  BY <1>1, <1>2, <1>3, RowEffect
<1>5. Whole(r)
  BY <1>1, <1>2 DEF Whole
<1>6. TypeOK'
  BY <1>1, <1>4 DEF TypeOK, RowSet
<1>7. Rows' = Rows /\ Used' = Used /\ OneRow' /\ Len(projects') = Len(projects)
  BY <1>2, <1>4, RowKeepsIds DEF RowSet
<1>8. \A b \in Attempts : attempt[b].pc \in Filling =>
         Filled(attempt[b], projects'[attempt[b].row])
  BY <1>2, <1>4 DEF Inv, RowSet, Filled
<1>9. OneCreator'
  BY <1>1 DEF Inv, OneCreator
<1>10. \A q \in Rows : Whole(projects'[q])
  BY <1>4, <1>5 DEF Inv, RowSet
<1>11. Inv'
  BY <1>1, <1>6, <1>7, <1>8, <1>9, <1>10 DEF Inv
<1> QED BY <1>1, <1>2, <1>4, <1>11 DEF RowSet

\* The invariant holds initially ...
LEMMA InitInv == Init => Inv
<1> SUFFICES ASSUME Init PROVE Inv
  OBVIOUS
<1> DEFINE new == NewAttempt(CHOOSE id \in Ids : TRUE, CHOOSE d \in Digests : TRUE)
           v == [new EXCEPT !.pc = "idle"]
<1>1. new \in Attempt
  BY NewAttemptIs, CreationAssumption DEF CreationAssumption
<1>2. attempt = [a \in Attempts |-> v]
  BY DEF Init
<1> HIDE DEF new
<1>3. v \in Attempt /\ v.pc = "idle"
  BY <1>1 DEF Attempt, Pcs
<1> HIDE DEF v
<1>4. attempt \in [Attempts -> Attempt] /\ \A a \in Attempts : attempt[a].pc = "idle"
  BY <1>2, <1>3
<1>5. projects = <<>> /\ projects \in Seq(Project) /\ Len(projects) = 0 /\ Rows = {}
  BY DEF Init, Rows
<1>6. Used = {} /\ Cardinality(Used) = 0
  BY <1>5, FS_EmptySet DEF Used
<1>7. TypeOK
  <2>1. Len(projects) <= Cardinality(Ids)
    BY <1>5, Numbers
  <2>2. crashes \in 0..MaxCrashes
    BY Numbers DEF Init
  <2> QED BY <1>4, <1>5, <2>1, <2>2 DEF TypeOK
<1> QED BY <1>4, <1>5, <1>6, <1>7 DEF Inv, OneRow, OneCreator, Filling

\* ... and after every step.
LEMMA InvStep ==
    ASSUME Inv, [Next]_vars
    PROVE  Inv'
<1>1. CASE UNCHANGED vars
  <2>1. UNCHANGED <<projects, attempt, crashes>> /\ Rows' = Rows /\ Used' = Used
    BY <1>1 DEF vars, Rows, Used
  <2> QED BY <2>1 DEF Inv, TypeOK, OneRow, OneCreator
<1>2. ASSUME NEW a \in Attempts, NEW id \in Ids, NEW digest \in Digests,
             Submit(a, id, digest)
      PROVE  Inv'
  BY <1>2, SubmitKeeps
<1>3. ASSUME NEW a \in Attempts, Create(a) \/ Crash(a)
      PROVE  Inv'
  BY <1>3, ObserveKeeps, SweepKeeps, PlanKeeps, Inserted, CollisionKeeps, WriteKeeps,
     ReadKeeps, WriteRecordKeeps, SeedKeeps, LeaveKeeps DEF Create
<1>4. ASSUME NEW p \in Rows, LeasePasses(p)
      PROVE  Inv'
  BY <1>4, LeaseKeeps
<1> QED BY <1>1, <1>2, <1>3, <1>4 DEF Next

\* Hence it holds always.
LEMMA Always == Spec => []Inv
<1> QED BY InitInv, InvStep, PTL DEF Spec

(* The rows and the attempts keep their types; no attempt plans a code     *)
(* more often than it may (projects_repository.py, save_project).          *)
THEOREM TypeCorrect == Spec => []TypeOK
<1>1. Inv => TypeOK
  BY DEF Inv
<1> QED BY <1>1, Always, PTL

(* A COMPLETE project has every part and an abandoned one no cost line,    *)
(* whatever creators and sweeps did in which order                         *)
(* (seed_reference_lines_and_complete, abandon_stale_create).              *)
THEOREM CompleteHasEveryPart == Spec => []CompleteIsWhole
<1>1. Inv => CompleteIsWhole
  BY DEF Inv, Whole, CompleteIsWhole
<1> QED BY <1>1, Always, PTL

----------------------------------------------------------------------------
(* What a step may do to the rows.                                         *)

\* One row of each request id, its state and its id.
RowsKept ==
    /\ Rows' = Rows
    /\ \A p \in Rows : /\ projects'[p].id = projects[p].id
                       /\ projects'[p].state = projects[p].state

\* p goes from CREATING to state, and nothing else changes.
RowMoves(p, state) ==
    /\ p \in Rows /\ Rows' = Rows
    /\ projects[p].state = "CREATING" /\ projects'[p].state = state
    /\ projects'[p].id = projects[p].id
    /\ \A q \in Rows : q # p => projects'[q] = projects[q]

\* A row of id appears.
RowAppears(id) ==
    LET n == Len(projects) + 1 IN
    /\ id \in Ids /\ RowsOf(id) = {}
    /\ Rows' = Rows \union {n} /\ n \notin Rows
    /\ \A p \in Rows : projects'[p] = projects[p]
    /\ projects'[n].id = id /\ projects'[n].state = "CREATING"

\* A creator that writes its part writes into a row that is not abandoned.
LEMMA PartWritten ==
    ASSUME Inv, NEW a \in Attempts,
           \/ WriteWorkspace(a) \/ WriteScenario(a) \/ RewriteWorkspace(a)
           \/ WriteRecord(a)
    PROVE  /\ RowsKept
           /\ \A p \in Rows : projects[p].state = "ABANDONED" => projects'[p] = projects[p]
<1> DEFINE p == attempt[a].row
<1>1. /\ TypeOK /\ p \in Rows /\ projects[p] \in Project /\ Whole(projects[p])
  BY RowsAre DEF Inv, WriteWorkspace, WriteScenario, RewriteWorkspace, Write,
                 WriteRecord, Filling
<1>2. CASE UNCHANGED projects
  BY <1>2 DEF RowsKept, Rows
<1>3. ASSUME MayWrite(p), NEW part \in Parts,
             \/ projects' = [projects EXCEPT ![p].parts = @ \union {part}]
             \/ /\ projects' = [projects EXCEPT ![p].state = attempt[a].copy.state,
                                  ![p].archived = attempt[a].copy.archived,
                                  ![p].parts = @ \union {part}]
                /\ attempt[a].copy.state = projects[p].state
                /\ attempt[a].copy.archived = projects[p].archived
      PROVE  /\ RowsKept
             /\ \A q \in Rows : projects[q].state = "ABANDONED" => projects'[q] = projects[q]
  <2> DEFINE r == [projects[p] EXCEPT !.parts = @ \union {part}]
             s == [projects[p] EXCEPT !.state = attempt[a].copy.state,
                                      !.archived = attempt[a].copy.archived,
                                      !.parts = @ \union {part}]
  <2>1. /\ r \in Project /\ r.id = projects[p].id /\ r.state = projects[p].state
        /\ attempt[a].copy.state = projects[p].state
           /\ attempt[a].copy.archived = projects[p].archived => s = r
    BY <1>1 DEF Project
  <2>2. projects' = [projects EXCEPT ![p] = r] \/ projects' = [projects EXCEPT ![p] = s]
    BY <1>3
  <2>3. projects' = [projects EXCEPT ![p] = r]
    BY <1>3, <2>1
  <2> HIDE DEF r, s
  <2>4. RowSet(p, r)
    BY <1>1, <2>1, <2>3, RowEffect
  <2>5. projects[p].state # "ABANDONED"
    BY <1>1, <1>3 DEF Whole, MayWrite
  <2> QED BY <2>1, <2>4, <2>5 DEF RowSet, RowsKept
<1>4. CASE MayWrite(p)
  <2>1. CASE WriteRecord(a)
    BY <1>3, <1>4, <2>1, RecordWritten DEF WriteRecord, Parts
  <2>2. CASE WriteWorkspace(a) \/ WriteScenario(a) \/ RewriteWorkspace(a)
    BY <1>3, <1>4, <2>2 DEF WriteWorkspace, WriteScenario, RewriteWorkspace, Write, Parts
  <2> QED BY <2>1, <2>2
<1>5. CASE ~MayWrite(p)
  BY <1>2, <1>5 DEF WriteWorkspace, WriteScenario, RewriteWorkspace, Write, WriteRecord
<1> QED BY <1>4, <1>5

\* Every step keeps the rows, moves one or adds one; none touches an abandoned row.
LEMMA RowStep ==
    ASSUME Inv, [Next]_vars
    PROVE  /\ \/ RowsKept
              \/ \E p \in Rows : RowMoves(p, "ABANDONED") \/ RowMoves(p, "COMPLETE")
              \/ \E id \in Ids : RowAppears(id)
           /\ \A p \in Rows : projects[p].state = "ABANDONED" => projects'[p] = projects[p]
<1> DEFINE Frozen == \A p \in Rows : projects[p].state = "ABANDONED"
                                        => projects'[p] = projects[p]
<1>1. ASSUME UNCHANGED projects
      PROVE  RowsKept /\ Frozen
  BY <1>1 DEF RowsKept, Rows
<1>2. ASSUME NEW p \in Rows, LeasePasses(p)
      PROVE  RowsKept /\ Frozen
  BY <1>2, LeaseKeeps DEF RowsKept
<1>3. ASSUME NEW a \in Attempts, Insert(a), MayInsert(a)
      PROVE  (\E id \in Ids : RowAppears(id)) /\ Frozen
  <2>1. attempt[a].id \in Ids
    BY AttemptIs DEF Inv
  <2>2. RowAppears(attempt[a].id)
    BY <1>3, <2>1, Inserted DEF RowAppears
  <2> QED BY <2>1, <2>2 DEF RowAppears
<1>4. ASSUME NEW a \in Attempts, Sweep(a), MayAbandon(attempt[a].row)
      PROVE  (\E p \in Rows : RowMoves(p, "ABANDONED")) /\ Frozen
  <2> DEFINE p == attempt[a].row
             r == [projects[p] EXCEPT !.state = "ABANDONED", !.archived = TRUE]
  <2>1. TypeOK /\ p \in Rows /\ projects[p] \in Project /\ projects[p].state = "CREATING"
    BY <1>4, RowsAre DEF Inv, Sweep, MayAbandon
  <2>2. r \in Project /\ r.state = "ABANDONED" /\ r.id = projects[p].id
    BY <2>1 DEF Project
  <2>3. projects' = [projects EXCEPT ![p] = r]
    BY <1>4 DEF Sweep
  <2> HIDE DEF r
  <2>4. RowSet(p, r)
    BY <2>1, <2>2, <2>3, RowEffect
  <2>5. RowMoves(p, "ABANDONED")
    BY <2>1, <2>2, <2>4 DEF RowSet, RowMoves
  <2> QED BY <2>1, <2>5 DEF RowMoves
<1>5. ASSUME NEW a \in Attempts, Seed(a), MayWrite(attempt[a].row),
             projects[attempt[a].row].state = "CREATING"
      PROVE  (\E p \in Rows : RowMoves(p, "COMPLETE")) /\ Frozen
  <2>1. RowMoves(attempt[a].row, "COMPLETE") /\ attempt[a].row \in Rows
    BY <1>5, SeedSets DEF RowSet, RowMoves
  <2> QED BY <2>1 DEF RowMoves
<1>6. ASSUME NEW a \in Attempts, Create(a) \/ Crash(a),
             ~(Insert(a) /\ MayInsert(a)), ~(Sweep(a) /\ MayAbandon(attempt[a].row)),
             ~(Seed(a) /\ MayWrite(attempt[a].row)
                       /\ projects[attempt[a].row].state = "CREATING")
      PROVE  RowsKept /\ Frozen
  <2>1. \/ UNCHANGED projects
        \/ WriteWorkspace(a) \/ WriteScenario(a) \/ RewriteWorkspace(a) \/ WriteRecord(a)
    BY <1>6 DEF Create, Observe, Sweep, Plan, Insert, ReadRecord, Seed, Finish, Crash
  <2> QED BY <1>1, <2>1, PartWritten
<1>7. ASSUME NEW a \in Attempts, NEW id \in Ids, NEW digest \in Digests,
             Submit(a, id, digest)
      PROVE  RowsKept /\ Frozen
  BY <1>1, <1>7 DEF Submit
<1>8. CASE UNCHANGED vars
  BY <1>1, <1>8 DEF vars
<1> QED BY <1>2, <1>3, <1>4, <1>5, <1>6, <1>7, <1>8 DEF Next

(* A creator that was only slow writes nothing into an abandoned project:  *)
(* no part, and not the state and flag it read before (the triggers wf03   *)
(* and update_project_record).                                             *)
THEOREM AbandonedStaysFrozen == Spec => AbandonedIsFrozen
<1>1. Inv /\ [Next]_vars =>
         [\A p \in Rows : projects[p].state = "ABANDONED" => projects'[p] = projects[p]]_vars
  BY RowStep
<1>2. Spec => [][\A p \in Rows : projects[p].state = "ABANDONED"
                                    => projects'[p] = projects[p]]_vars
  BY <1>1, Always, PTL DEF Spec
<1> QED BY <1>2 DEF AbandonedIsFrozen

----------------------------------------------------------------------------
(* The rows implement RunOnce.                                             *)

StateOutcome(state) ==
    CASE state = "CREATING" -> "OPEN"
      [] state = "COMPLETE" -> "COMMITTED"
      [] OTHER -> "FAILED"

\* The outcome of a request is the state of its row.
RowDecides(id) ==
    /\ RowsOf(id) = {} => OutcomeOf(id) = "NONE" /\ ProjectOf(id) = 0
    /\ \A p \in Rows : projects[p].id = id =>
          /\ OutcomeOf(id) = StateOutcome(projects[p].state)
          /\ ProjectOf(id) = IF projects[p].state = "COMPLETE" THEN p ELSE 0

\* A request id has one row, so the row decides.
LEMMA RowsDecide == OneRow => \A id \in Ids : RowDecides(id)
<1> SUFFICES ASSUME OneRow, NEW id \in Ids PROVE RowDecides(id)
  OBVIOUS
<1>1. ASSUME RowsOf(id) = {}
      PROVE  OutcomeOf(id) = "NONE" /\ ProjectOf(id) = 0
  BY <1>1 DEF OutcomeOf, ProjectOf
<1>2. ASSUME NEW p \in Rows, projects[p].id = id
      PROVE  /\ OutcomeOf(id) = StateOutcome(projects[p].state)
             /\ ProjectOf(id) = IF projects[p].state = "COMPLETE" THEN p ELSE 0
  <2>1. RowsOf(id) = {p}
    BY <1>2 DEF RowsOf, OneRow
  <2>2. (CHOOSE q \in RowsOf(id) : TRUE) = p
    BY <2>1
  <2>3. OutcomeOf(id) = StateOutcome(projects[p].state)
    BY <2>1, <2>2 DEF OutcomeOf, StateOutcome
  <2>4. OutcomeOf(id) = "COMMITTED" <=> projects[p].state = "COMPLETE"
    BY <2>3 DEF StateOutcome
  <2>5. ProjectOf(id) = IF projects[p].state = "COMPLETE" THEN p ELSE 0
    <3>1. CASE projects[p].state = "COMPLETE"
      BY <2>2, <2>4, <3>1 DEF ProjectOf
    <3>2. CASE projects[p].state # "COMPLETE"
      BY <2>4, <3>2 DEF ProjectOf
    <3> QED BY <3>1, <3>2
  <2> QED BY <2>3, <2>5
<1> QED BY <1>1, <1>2 DEF RowDecides

\* The same in the next state.
LEMMA RowsDecideNext == OneRow' => (\A id \in Ids : RowDecides(id))'
BY RowsDecide, PTL

\* Every outcome is one that RunOnce knows, and only rows are named.
LEMMA OutcomeOfRow ==
    ASSUME OneRow, TypeOK, NEW id \in Ids
    PROVE  /\ ProjectOf(id) \in Rows \union {0}
           /\ \A p \in Rows : ProjectOf(id) = p => projects[p].id = id
<1>1. CASE RowsOf(id) = {}
  BY <1>1, RowsDecide, RowsAre DEF RowDecides
<1>2. CASE RowsOf(id) # {}
  <2>1. PICK p \in Rows : projects[p].id = id
    BY <1>2 DEF RowsOf
  <2>2. ProjectOf(id) = p \/ ProjectOf(id) = 0
    BY <2>1, RowsDecide DEF RowDecides
  <2> QED BY <2>1, <2>2, RowsAre
<1> QED BY <1>1, <1>2

\* A request whose rows keep their state keeps its outcome.
Stays(id) == OutcomeOf(id)' = OutcomeOf(id) /\ ProjectOf(id)' = ProjectOf(id)

\* A request whose row keeps id and state stays.
LEMMA OthersStay ==
    ASSUME OneRow, OneRow', NEW id \in Ids,
           RowsOf(id)' = RowsOf(id),
           \A p \in Rows : projects[p].id = id =>
              /\ p \in Rows' /\ projects'[p].id = id
              /\ projects'[p].state = projects[p].state
    PROVE  Stays(id)
<1>1. RowDecides(id) /\ RowDecides(id)'
  BY RowsDecide, RowsDecideNext
<1>3. CASE RowsOf(id) = {}
  BY <1>1, <1>3 DEF RowDecides, Stays
<1>4. CASE RowsOf(id) # {}
  <2>1. PICK p \in Rows : projects[p].id = id
    BY <1>4 DEF RowsOf
  <2> QED BY <1>1, <2>1 DEF RowDecides, Stays
<1> QED BY <1>3, <1>4

\* If all rows keep their state, every request stays.
LEMMA KeptStay ==
    ASSUME OneRow, OneRow', RowsKept
    PROVE  \A id \in Ids : Stays(id)
<1> SUFFICES ASSUME NEW id \in Ids PROVE Stays(id)
  OBVIOUS
<1>1. RowsOf(id)' = RowsOf(id)
  BY DEF RowsOf, RowsKept
<1> QED BY <1>1, OthersStay DEF RowsKept

\* If one row moves, its request alone has a new outcome.
LEMMA MovedOnly ==
    ASSUME OneRow, OneRow', NEW p \in Rows, NEW id \in Ids, id = projects[p].id,
           NEW state \in {"ABANDONED", "COMPLETE"}, RowMoves(p, state)
    PROVE  /\ OutcomeOf(id) = "OPEN" /\ ProjectOf(id) = 0
           /\ OutcomeOf(id)' = StateOutcome(state)
           /\ ProjectOf(id)' = IF state = "COMPLETE" THEN p ELSE 0
           /\ \A other \in Ids : other # id => Stays(other)
<1>1. RowDecides(id) /\ RowDecides(id)'
  BY RowsDecide, RowsDecideNext
<1>2. OutcomeOf(id) = "OPEN" /\ ProjectOf(id) = 0
  BY <1>1 DEF RowDecides, RowMoves, StateOutcome
<1>3. /\ OutcomeOf(id)' = StateOutcome(state)
      /\ ProjectOf(id)' = IF state = "COMPLETE" THEN p ELSE 0
  BY <1>1 DEF RowDecides, RowMoves
<1>4. ASSUME NEW other \in Ids, other # id
      PROVE  Stays(other)
  <2>1. \A q \in Rows : projects'[q].id = projects[q].id
    BY DEF RowMoves
  <2>2. RowsOf(other)' = RowsOf(other)
    BY <2>1 DEF RowsOf, RowMoves
  <2>3. \A q \in Rows : projects[q].id = other => projects'[q] = projects[q]
    BY <1>4 DEF RowMoves
  <2> QED BY <2>2, <2>3, OthersStay DEF RowMoves
<1> QED BY <1>2, <1>3, <1>4

\* If a row appears, its request alone is opened.
LEMMA AppearedOnly ==
    ASSUME OneRow, OneRow', NEW id \in Ids, RowAppears(id)
    PROVE  /\ OutcomeOf(id) = "NONE" /\ ProjectOf(id) = 0
           /\ OutcomeOf(id)' = "OPEN" /\ ProjectOf(id)' = 0
           /\ \A other \in Ids : other # id => Stays(other)
<1>1. RowDecides(id) /\ RowDecides(id)'
  BY RowsDecide, RowsDecideNext
<1>2. OutcomeOf(id) = "NONE" /\ ProjectOf(id) = 0
  BY <1>1 DEF RowDecides, RowAppears
<1>3. OutcomeOf(id)' = "OPEN" /\ ProjectOf(id)' = 0
  BY <1>1 DEF RowDecides, RowAppears, StateOutcome
<1>4. ASSUME NEW other \in Ids, other # id
      PROVE  Stays(other)
  <2>1. RowsOf(other)' = RowsOf(other)
    BY <1>4 DEF RowsOf, RowAppears
  <2> QED BY <2>1, OthersStay DEF RowAppears
<1> QED BY <1>2, <1>3, <1>4

\* Functions of the requests, in the terms of RunOnce.
LEMMA RequestsStep ==
    ASSUME NEW id \in Ids,
           \A other \in Ids : other # id => Stays(other)
    PROVE  /\ [k \in Ids |-> OutcomeOf(k)]'
                = [[k \in Ids |-> OutcomeOf(k)] EXCEPT ![id] = OutcomeOf(id)']
           /\ [k \in Ids |-> ProjectOf(k)]'
                = [[k \in Ids |-> ProjectOf(k)] EXCEPT ![id] = ProjectOf(id)']
BY DEF Stays

\* Every step maps to one of RunOnce, or to none.
LEMMA RefinementStep ==
    Inv /\ Inv' /\ [Next]_vars => [Once!Next]_(Once!vars)
<1> SUFFICES ASSUME Inv, Inv', [Next]_vars PROVE [Once!Next]_(Once!vars)
  OBVIOUS
<1> DEFINE outcome == [k \in Ids |-> OutcomeOf(k)]
           bound == [k \in Ids |-> ProjectOf(k)]
<1>1. OneRow /\ OneRow' /\ TypeOK /\ TypeOK'
  BY DEF Inv
<1>2. CASE RowsKept
  <2>1. outcome' = outcome /\ bound' = bound
    BY <1>1, <1>2, KeptStay DEF Stays
  <2> QED BY <2>1 DEF Once!vars
<1>3. ASSUME NEW id \in Ids, RowAppears(id)
      PROVE  [Once!Next]_(Once!vars)
  <2>1. /\ OutcomeOf(id) = "NONE" /\ ProjectOf(id) = 0
        /\ OutcomeOf(id)' = "OPEN" /\ ProjectOf(id)' = 0
        /\ \A other \in Ids : other # id => Stays(other)
    BY <1>1, <1>3, AppearedOnly
  <2>2. outcome' = [outcome EXCEPT ![id] = "OPEN"] /\ bound' = bound
    BY <2>1, RequestsStep
  <2>3. Once!Open(id)
    BY <2>1, <2>2 DEF Once!Open
  <2> QED BY <2>3 DEF Once!Next
<1>4. ASSUME NEW p \in Rows, NEW state \in {"ABANDONED", "COMPLETE"}, RowMoves(p, state)
      PROVE  [Once!Next]_(Once!vars)
  <2>1. PICK id \in Ids : id = projects[p].id
    BY <1>1, RowsAre DEF Project
  <2>2. p \in Nat \ {0}
    BY <1>1, RowsAre
  <2>3. /\ OutcomeOf(id) = "OPEN" /\ ProjectOf(id) = 0
        /\ OutcomeOf(id)' = StateOutcome(state)
        /\ ProjectOf(id)' = IF state = "COMPLETE" THEN p ELSE 0
        /\ \A other \in Ids : other # id => Stays(other)
    BY <1>1, <1>4, <2>1, MovedOnly
  <2>4. /\ outcome' = [outcome EXCEPT ![id] = OutcomeOf(id)']
        /\ bound' = [bound EXCEPT ![id] = ProjectOf(id)']
    BY <2>1, <2>3, RequestsStep
  <2>5. CASE state = "ABANDONED"
    <3>1. outcome' = [outcome EXCEPT ![id] = "FAILED"] /\ bound' = bound
      BY <2>1, <2>3, <2>4, <2>5 DEF StateOutcome
    <3>2. Once!Fail(id)
      BY <2>1, <2>3, <3>1 DEF Once!Fail
    <3> QED BY <2>1, <3>2 DEF Once!Next
  <2>6. CASE state = "COMPLETE"
    <3>1. outcome' = [outcome EXCEPT ![id] = "COMMITTED"]
      BY <2>3, <2>4, <2>6 DEF StateOutcome
    <3>2. bound'[id] = p /\ bound' = [bound EXCEPT ![id] = bound'[id]]
      BY <2>1, <2>3, <2>4, <2>6
    <3>3. \A other \in Ids : bound[other] # p
      <4>1. SUFFICES ASSUME NEW other \in Ids, ProjectOf(other) = p PROVE FALSE
        OBVIOUS
      <4>2. other = id
        BY <1>1, <2>1, <4>1, OutcomeOfRow
      <4> QED BY <2>3, <2>2, <4>1, <4>2
    <3>4. Once!Commit(id)
      BY <2>1, <2>3, <2>2, <3>1, <3>2, <3>3 DEF Once!Commit
    <3> QED BY <2>1, <3>4 DEF Once!Next
  <2> QED BY <2>5, <2>6
<1> QED BY <1>2, <1>3, <1>4, RowStep

\* The rows, with their leases, sweeps, retries, collisions and deaths,
\* implement the one-immutable-outcome-per-request specification
\* (find_project_by_create_request, abandon_stale_create).
THEOREM CreationImplementsRunOnce == Spec => ImplementsRunOnce
<1>1. Init => Once!Init
  <2> SUFFICES ASSUME Init PROVE Once!Init
    OBVIOUS
  <2>1. Rows = {} /\ OneRow
    BY DEF Init, Rows, OneRow
  <2>2. ASSUME NEW id \in Ids
        PROVE  OutcomeOf(id) = "NONE" /\ ProjectOf(id) = 0
    BY <2>1, RowsDecide DEF RowDecides, RowsOf
  <2> QED BY <2>2 DEF Once!Init
<1> QED BY <1>1, Always, RefinementStep, PTL DEF Spec, ImplementsRunOnce, Once!Spec
=============================================================================
