-------------------------- MODULE WorkbookRunProofs --------------------------
(***************************************************************************)
(* Theorems about WorkbookRun for any number of Runs, intents and legacy   *)
(* saves, any values of what is edited, and any number of edits and        *)
(* lifecycle transitions.                                                  *)
(*                                                                         *)
(* The invariant: a request that has loaded the draft and since when       *)
(* nobody edited still sees it (AsRead), from which a quiet Run's inputs   *)
(* are the identity it submitted; an entry of the history belongs to a     *)
(* request that is past its commit (Entered), so that its intent can no    *)
(* longer change; no counter names a run that is not in the history.       *)
(***************************************************************************)
EXTENDS WorkbookRun, FiniteSetTheorems, SequenceTheorems, TLAPS

Reading == {"loaded", "checked", "resolved"}

\* What a request has read so far, against the workbook as it is.
AsRead(v) ==
    /\ v.pc \in Reading => v.since <= edits
    /\ v.pc \in Reading /\ v.since = edits =>
          /\ v.inputs.scalar = book.draft /\ v.inputs.scenario = book.active
          /\ v.pc \in {"checked", "resolved"} => Identity(book) = v.hash
          /\ v.pc = "resolved" => v.inputs.overrides = book.overrides[book.active]
    /\ v.pc \in {"folded", "started", "computed"} /\ v.quiet => v.inputs = v.hash

Entered(v) == v.pc \in {"committed", "done"}

Inv ==
    /\ TypeOK
    /\ \A r \in 1..Len(history) :
          /\ Entered(job[history[r].by])
          /\ history[r].ranAt <= finished
    /\ \A q \in Requests :
          /\ AsRead(job[q]) /\ job[q].ranAt <= finished
          /\ job[q].pc = "committed" => \E r \in 1..Len(history) : history[r].by = q
    /\ \A i \in Intents : bound[i] <= Len(history)
    /\ \A w \in Writers : writer[w].run <= Len(history)
    /\ QuietRunIsHonest
    /\ IntentNamesItsRun

----------------------------------------------------------------------------
(* Facts about the data.                                                   *)

\* A set of numbers has a least one: the intervals from 0 to them are finite
\* sets, which strict inclusion orders well.
LEMMA HasLeast ==
    ASSUME NEW T, T \subseteq Nat, T # {}
    PROVE  \E x \in T : \A y \in T : x <= y
<1> DEFINE F == {0..x : x \in T}
           R == StrictSubsetOrdering(Nat)
<1>1. F \subseteq FiniteSubsetsOf(Nat) /\ F # {}
  <2>1. ASSUME NEW x \in T
        PROVE  0..x \in FiniteSubsetsOf(Nat)
    <3>1. IsFiniteSet(0..x) /\ 0..x \subseteq Nat
      BY FS_Interval
    <3> QED BY <3>1 DEF FiniteSubsetsOf
  <2> QED BY <2>1
<1>2. PICK s \in F : \A t \in F : <<t, s>> \notin R
  <2>1. IsWellFoundedOn(R, FiniteSubsetsOf(Nat))
    BY FS_StrictSubsetOrderingWellFounded
  <2> HIDE DEF F, R
  <2> QED BY <1>1, <2>1, WFMin
<1>3. PICK x \in T : s = 0..x
  BY <1>2
<1>4. ASSUME NEW y \in T, y < x
      PROVE  FALSE
  <2>1. 0..y \subseteq 0..x /\ x \in 0..x /\ x \notin 0..y
    BY <1>4
  <2>2. <<0..y, s>> \in R
    BY <1>3, <2>1 DEF StrictSubsetOrdering
  <2> QED BY <1>2, <2>2
<1> QED BY <1>4

\* What the history holds is an entry.
LEMMA EntryIs ==
    ASSUME history \in Seq(Entry), NEW r \in 1..Len(history)
    PROVE  /\ history[r] \in Entry /\ history[r].by \in Requests
           /\ history[r].hash \in Content /\ history[r].ranAt \in Nat
<1>1. history[r] \in Entry
  BY ElementOfSeq
<1> QED BY <1>1 DEF Entry

\* The newest run of a scenario that has one is one of its runs.
LEMMA NewestRunIs ==
    ASSUME history \in Seq(Entry), finished \in Nat,
           \A r \in 1..Len(history) : history[r].ranAt <= finished,
           NEW sc \in Scenarios
    PROVE  \/ NewestRun(sc) = 0
           \/ NewestRun(sc) \in 1..Len(history) /\ NewestRun(sc) \in RunsOf(sc)
<1>1. CASE RunsOf(sc) = {}
  BY <1>1 DEF NewestRun
<1>2. CASE RunsOf(sc) # {}
  <2> DEFINE Age(r) == finished - history[r].ranAt
             T == {Age(r) : r \in RunsOf(sc)}
  <2>1. \A r \in RunsOf(sc) : r \in 1..Len(history) /\ Age(r) \in Nat
                              /\ history[r].ranAt \in Nat
    BY EntryIs DEF RunsOf, Entry
  <2>2. T \subseteq Nat /\ T # {}
    BY <1>2, <2>1
  <2>3. PICK z \in T : \A y \in T : z <= y
    <3> HIDE DEF T
    <3> QED BY <2>2, HasLeast
  <2>4. PICK r \in RunsOf(sc) : z = Age(r)
    BY <2>3
  <2>5. \A s \in RunsOf(sc) : history[s].ranAt <= history[r].ranAt
    <3>1. ASSUME NEW s \in RunsOf(sc)
          PROVE  history[s].ranAt <= history[r].ranAt
      <4>1. Age(r) <= Age(s)
        BY <2>3, <2>4
      <4> QED BY <4>1, <2>1
    <3> QED BY <3>1
  <2>6. NewestRun(sc) \in RunsOf(sc)
    BY <1>2, <2>5 DEF NewestRun
  <2> QED BY <2>1, <2>6
<1> QED BY <1>1, <1>2

\* The identity is a content, made of the parts of the workbook.
LEMMA IdentityIs ==
    ASSUME NEW b \in Book
    PROVE  /\ Identity(b) \in Content
           /\ Identity(b).scalar = b.draft /\ Identity(b).rows = b.rows
           /\ Identity(b).scenario = b.active
           /\ Identity(b).overrides = b.overrides[b.active]
BY DEF Book, Content, Identity

\* The content an idle record holds is one.
LEMMA NoContentIs == NoContent \in Content
<1>1. PICK s \in Scalars, r \in RowSets, sc \in Scenarios, o \in Overrides : TRUE
  BY WorkbookAssumption DEF WorkbookAssumption
<1>2. [scalar |-> s, rows |-> r, scenario |-> sc, overrides |-> o] \in Content
  BY DEF Content
<1> QED BY <1>2 DEF NoContent

\* A request not yet made is well-typed and has run nothing.
LEMMA NewJobIs == NewJob \in Job /\ NewJob.pc = "idle" /\ NewJob.ranAt = 0
BY NoContentIs DEF NewJob, Job, JobPcs, Replies

\* A legacy save not yet made is well-typed and writes no run.
LEMMA NewWriterIs == NewWriter \in Writer /\ NewWriter.run = 0
<1>1. (CHOOSE s \in Scalars : TRUE) \in Scalars /\ (CHOOSE s \in Scenarios : TRUE) \in Scenarios
  BY WorkbookAssumption DEF WorkbookAssumption
<1> QED BY <1>1 DEF NewWriter, Writer, WriterPcs

\* A content is its four parts.
LEMMA ContentEqual ==
    ASSUME NEW c \in Content, NEW d \in Content,
           c.scalar = d.scalar, c.rows = d.rows, c.scenario = d.scenario,
           c.overrides = d.overrides
    PROVE  c = d
BY DEF Content

----------------------------------------------------------------------------
(* The effect of the assignments the actions are made of.                  *)

\* Only the record of q changes, to v.
Becomes(q, v) ==
    /\ job' \in [Requests -> Job] /\ job'[q] = v
    /\ \A p \in Requests : p # q => job'[p] = job[p]

\* What an assignment of one record leaves of the others.
LEMMA JobEffect ==
    ASSUME TypeOK, NEW q \in Requests, NEW v \in Job, job' = [job EXCEPT ![q] = v]
    PROVE  Becomes(q, v)
BY DEF TypeOK, Becomes

\* What the record of a request holds.
LEMMA JobIs ==
    ASSUME TypeOK, NEW q \in Requests
    PROVE  /\ job[q] \in Job /\ job[q].pc \in JobPcs /\ job[q].hash \in Content
           /\ job[q].inputs \in Content /\ job[q].intent \in Intents \union {NoIntent}
           /\ job[q].ranAt \in Nat /\ job[q].since \in Nat /\ job[q].epoch \in Nat
           /\ job[q].quiet \in BOOLEAN
BY DEF TypeOK, Job

\* q goes on to pc, and what it read and submitted stays.
Moves(q, pc) ==
    \E v \in Job :
        /\ Becomes(q, v) /\ v.pc = pc
        /\ v.intent = job[q].intent /\ v.hash = job[q].hash
        /\ v.inputs = job[q].inputs /\ v.since = job[q].since
        /\ v.quiet = job[q].quiet /\ v.ranAt = job[q].ranAt

\* Going on moves the request and nothing else.
LEMMA GotoEffect ==
    ASSUME TypeOK, NEW q \in Requests, NEW pc \in JobPcs, Goto(q, pc)
    PROVE  Moves(q, pc)
<1> DEFINE v == [job[q] EXCEPT !.pc = pc]
<1>1. /\ v \in Job /\ v.pc = pc
      /\ v.intent = job[q].intent /\ v.hash = job[q].hash
      /\ v.inputs = job[q].inputs /\ v.since = job[q].since
      /\ v.quiet = job[q].quiet /\ v.ranAt = job[q].ranAt
  BY JobIs DEF Job
<1>2. job' = [job EXCEPT ![q] = v]
  BY DEF Goto
<1> HIDE DEF v
<1> QED BY <1>1, <1>2, JobEffect DEF Moves

\* An answer ends the request and leaves what it read.
LEMMA AnswerEffect ==
    ASSUME TypeOK, NEW q \in Requests, NEW reply \in Replies, Answer(q, reply)
    PROVE  Moves(q, "done")
<1> DEFINE v == [job[q] EXCEPT !.pc = "done", !.reply = reply]
<1>1. /\ v \in Job /\ v.pc = "done"
      /\ v.intent = job[q].intent /\ v.hash = job[q].hash
      /\ v.inputs = job[q].inputs /\ v.since = job[q].since
      /\ v.quiet = job[q].quiet /\ v.ranAt = job[q].ranAt
  BY JobIs DEF Job, JobPcs
<1>2. job' = [job EXCEPT ![q] = v]
  BY DEF Answer
<1> HIDE DEF v
<1> QED BY <1>1, <1>2, JobEffect DEF Moves

----------------------------------------------------------------------------
(* What keeps the invariant.                                               *)

\* Whoever edits, or changes nothing of the identity, keeps what was read.
LEMMA AsReadKept ==
    ASSUME TypeOK, book' \in Book, edits' \in Nat,
           \/ edits' = edits /\ Identity(book)' = Identity(book)
           \/ edits' > edits,
           NEW v \in Job, AsRead(v)
    PROVE  AsRead(v)'
<1>1. book \in Book /\ edits \in Nat /\ v.since \in Nat
  BY DEF TypeOK, Job
<1>2. CASE edits' = edits /\ Identity(book)' = Identity(book)
  <2>1. /\ book'.draft = book.draft /\ book'.active = book.active
        /\ book'.overrides[book'.active] = book.overrides[book.active]
    BY <1>1, <1>2, IdentityIs
  <2> QED BY <1>2, <2>1 DEF AsRead
<1>3. CASE edits' > edits
  <2>1. v.pc \in Reading => v.since <= edits' /\ v.since # edits'
    BY <1>1, <1>3 DEF AsRead
  <2> QED BY <2>1 DEF AsRead
<1> QED BY <1>2, <1>3

\* A step of another writer keeps the invariant.
LEMMA WriterKeeps ==
    ASSUME Inv, UNCHANGED <<history, summary, outcome, bound, job, finished>>,
           book' \in Book, edits' \in Nat,
           last' \in [run : 0..Len(history), hash : Content],
           project' \in [archived : BOOLEAN, version : Nat],
           writer' \in [Writers -> Writer],
           \A w \in Writers : writer'[w].run <= Len(history),
           \/ edits' = edits /\ Identity(book)' = Identity(book)
           \/ edits' > edits
    PROVE  Inv'
<1>1. TypeOK'
  BY DEF Inv, TypeOK
<1>2. \A q \in Requests : AsRead(job[q])'
  BY AsReadKept, JobIs DEF Inv
<1>3. QuietRunIsHonest'
  BY DEF Inv, QuietRunIsHonest
<1>4. IntentNamesItsRun'
  BY DEF Inv, IntentNamesItsRun
<1> QED BY <1>1, <1>2, <1>3, <1>4 DEF Inv, Entered

\* A step of a Run request that does not commit keeps the invariant.
LEMMA RequestKeeps ==
    ASSUME Inv, NEW q \in Requests, NEW v \in Job, Becomes(q, v),
           UNCHANGED <<book, edits, last, history, project, bound, writer>>,
           summary' \in [Scenarios -> [run : Nat, overrides : Overrides]],
           outcome' \in [Intents -> {"NONE", "OPEN", "FAILED", "COMMITTED"}],
           \A i \in Intents : outcome[i] = "COMMITTED" => outcome'[i] = "COMMITTED",
           finished' \in Nat, finished' >= finished, v.ranAt <= finished',
           AsRead(v), v.pc # "committed",
           Entered(job[q]) => Entered(v) /\ v.intent = job[q].intent
    PROVE  Inv'
<1>0. TypeOK
  BY DEF Inv
<1>1. TypeOK'
  BY <1>0 DEF TypeOK, Becomes
<1>2. \A p \in Requests : p # q => job'[p] = job[p]
  BY DEF Becomes
<1>3. job'[q] = v
  BY DEF Becomes
<1>4. ASSUME NEW r \in 1..Len(history)
      PROVE  /\ Entered(job'[history[r].by]) /\ history[r].ranAt <= finished'
             /\ job'[history[r].by].intent = job[history[r].by].intent
  <2>1. /\ history[r].by \in Requests /\ history[r].ranAt \in Nat /\ finished \in Nat
        /\ Entered(job[history[r].by]) /\ history[r].ranAt <= finished
    BY <1>0, EntryIs DEF Inv, TypeOK
  <2>2. history[r].ranAt <= finished'
    BY <2>1
  <2> QED BY <1>2, <1>3, <2>1, <2>2
<1>5. ASSUME NEW p \in Requests
      PROVE  /\ AsRead(job[p])' /\ job'[p].ranAt <= finished'
             /\ job'[p].pc = "committed" => \E r \in 1..Len(history) : history[r].by = p
  <2>1. CASE p = q
    BY <1>3, <2>1 DEF AsRead, Identity
  <2>2. CASE p # q
    <3>1. job'[p] = job[p] /\ job[p].ranAt \in Nat /\ finished \in Nat
      BY <1>0, <1>2, <2>2, JobIs DEF TypeOK
    <3>2. /\ AsRead(job[p]) /\ job[p].ranAt <= finished
          /\ job[p].pc = "committed" => \E r \in 1..Len(history) : history[r].by = p
      BY DEF Inv
    <3> QED BY <3>1, <3>2 DEF AsRead, Identity
  <2> QED BY <2>1, <2>2
<1>6. IntentNamesItsRun'
  <2>1. ASSUME NEW r \in 1..Len(history), job'[history[r].by].intent # NoIntent
        PROVE  LET i == job'[history[r].by].intent IN
                  outcome'[i] = "COMMITTED" /\ bound[i] = r
    <3>1. job'[history[r].by].intent = job[history[r].by].intent
      BY <1>4
    <3>2. job[history[r].by].intent \in Intents
      BY <1>0, <2>1, <3>1, EntryIs, JobIs DEF TypeOK
    <3> QED BY <2>1, <3>1, <3>2 DEF Inv, IntentNamesItsRun
  <2> QED BY <2>1 DEF IntentNamesItsRun
<1>7. QuietRunIsHonest'
  BY DEF Inv, QuietRunIsHonest
<1> QED BY <1>1, <1>4, <1>5, <1>6, <1>7 DEF Inv

\* What is recorded of the intents stays typed, and COMMITTED stays.
OutcomeHolds ==
    /\ outcome' \in [Intents -> {"NONE", "OPEN", "FAILED", "COMMITTED"}]
    /\ \A i \in Intents : outcome[i] = "COMMITTED" => outcome'[i] = "COMMITTED"

\* A claim and a recorded failure leave COMMITTED alone.
LEMMA OutcomeEffect ==
    ASSUME TypeOK, NEW i \in Intents \union {NoIntent},
           \/ UNCHANGED outcome
           \/ MarkFailed(i)
           \/ i # NoIntent /\ Claimable(i) /\ SetOutcome(i, "OPEN")
    PROVE  OutcomeHolds
<1>1. CASE UNCHANGED outcome
  BY <1>1 DEF TypeOK, OutcomeHolds
<1>2. CASE i # NoIntent /\ outcome[i] = "OPEN" /\ SetOutcome(i, "FAILED")
  BY <1>2 DEF TypeOK, OutcomeHolds, SetOutcome
<1>3. CASE i # NoIntent /\ Claimable(i) /\ SetOutcome(i, "OPEN")
  BY <1>3 DEF TypeOK, OutcomeHolds, SetOutcome, Claimable
<1> QED BY <1>1, <1>2, <1>3 DEF MarkFailed

\* A request that is answered keeps the invariant.
LEMMA DoneKeeps ==
    ASSUME Inv, NEW q \in Requests, Moves(q, "done"), OutcomeHolds,
           UNCHANGED <<book, edits, last, history, project, bound, writer, finished>>,
           summary' \in [Scenarios -> [run : Nat, overrides : Overrides]]
    PROVE  Inv'
<1>1. PICK v \in Job : /\ Becomes(q, v) /\ v.pc = "done"
                       /\ v.intent = job[q].intent /\ v.ranAt = job[q].ranAt
  BY DEF Moves
<1>2. AsRead(v) /\ Entered(v)
  BY <1>1 DEF AsRead, Entered, Reading
<1>3. finished' \in Nat /\ finished' >= finished /\ v.ranAt <= finished'
  BY <1>1 DEF Inv, TypeOK
<1> QED BY <1>1, <1>2, <1>3, RequestKeeps DEF OutcomeHolds

\* A request that goes on with what it has keeps the invariant.
LEMMA MoveKeeps ==
    ASSUME Inv, NEW q \in Requests, NEW pc \in JobPcs, Moves(q, pc), OutcomeHolds,
           UNCHANGED <<book, edits, last, history, summary, project, bound, writer,
                       finished>>,
           ~Entered(job[q]), pc # "committed",
           \A v \in Job : /\ v.pc = pc /\ v.hash = job[q].hash
                          /\ v.inputs = job[q].inputs /\ v.since = job[q].since
                          /\ v.quiet = job[q].quiet
                          => AsRead(v)
    PROVE  Inv'
<1>1. PICK v \in Job : /\ Becomes(q, v) /\ v.pc = pc
                       /\ v.hash = job[q].hash /\ v.inputs = job[q].inputs
                       /\ v.since = job[q].since /\ v.quiet = job[q].quiet
                       /\ v.ranAt = job[q].ranAt
  BY DEF Moves
<1>2. /\ finished' \in Nat /\ finished' >= finished /\ v.ranAt <= finished'
      /\ summary' \in [Scenarios -> [run : Nat, overrides : Overrides]]
  BY <1>1 DEF Inv, TypeOK
<1>3. AsRead(v)
  BY <1>1
<1> QED BY <1>1, <1>2, <1>3, RequestKeeps DEF OutcomeHolds

----------------------------------------------------------------------------
(* The Run route, one lemma per action.                                    *)

\* Admission: nothing was read yet.
LEMMA BeginKeeps ==
    ASSUME Inv, NEW q \in Requests, NEW i \in Intents \union {NoIntent},
           NEW c \in Content, Begin(q, i, c)
    PROVE  Inv'
<1> DEFINE known == i # NoIntent /\ outcome[i] # "NONE"
           pc == IF known \/ project.archived THEN "done" ELSE "admitted"
           reply == IF known THEN "EXISTING"
                    ELSE IF project.archived THEN "REFUSED" ELSE "NONE"
           v == [NewJob EXCEPT !.intent = i, !.hash = c, !.epoch = project.version,
                               !.pc = pc, !.reply = reply]
<1>1. TypeOK /\ project.version \in Nat /\ finished \in Nat
  BY DEF Inv, TypeOK
<1>2. pc \in {"done", "admitted"} /\ reply \in {"EXISTING", "REFUSED", "NONE"}
  OBVIOUS
<1>3. job' = [job EXCEPT ![q] = v]
  BY DEF Begin
<1> HIDE DEF pc, reply
<1>4. v \in Job /\ v.pc \in {"done", "admitted"} /\ v.ranAt = 0
  BY <1>1, <1>2, NewJobIs DEF Job, JobPcs, Replies
<1> HIDE DEF v
<1>5. Becomes(q, v)
  BY <1>1, <1>3, <1>4, JobEffect
<1>6. AsRead(v) /\ v.pc # "committed" /\ ~Entered(job[q])
  BY <1>4 DEF AsRead, Reading, Begin, Entered
<1>7. OutcomeHolds
  BY <1>1, OutcomeEffect DEF Begin, ledger
<1>8. /\ UNCHANGED <<book, edits, last, history, project, bound, writer>>
      /\ summary' \in [Scenarios -> [run : Nat, overrides : Overrides]]
      /\ finished' \in Nat /\ finished' >= finished /\ v.ranAt <= finished'
  BY <1>1, <1>4 DEF Begin, ledger, TypeOK
<1> QED BY <1>4, <1>5, <1>6, <1>7, <1>8, RequestKeeps DEF OutcomeHolds

\* The first read: the draft and the scenario are those of now.
LEMMA LoadKeeps ==
    ASSUME Inv, NEW q \in Requests, Load(q)
    PROVE  Inv'
<1> DEFINE read == [job[q].inputs EXCEPT !.scalar = book.draft, !.scenario = book.active]
           v == [job[q] EXCEPT !.pc = "loaded", !.since = edits, !.inputs = read]
<1>1. TypeOK /\ book \in Book /\ edits \in Nat /\ finished \in Nat
  BY DEF Inv, TypeOK
<1>2. /\ read \in Content /\ read.scalar = book.draft /\ read.scenario = book.active
  BY <1>1, JobIs DEF Book, Content
<1>3. job' = [job EXCEPT ![q] = v]
  BY DEF Load
<1> HIDE DEF read
<1>4. /\ v \in Job /\ v.pc = "loaded" /\ v.since = edits /\ v.inputs = read
      /\ v.ranAt = job[q].ranAt
  BY <1>1, <1>2, JobIs DEF Job, JobPcs
<1> HIDE DEF v
<1>5. Becomes(q, v)
  BY <1>1, <1>3, <1>4, JobEffect
<1>6. AsRead(v) /\ v.pc # "committed" /\ ~Entered(job[q])
  BY <1>1, <1>2, <1>4 DEF AsRead, Reading, Load, Entered
<1>7. OutcomeHolds
  BY <1>1, JobIs, OutcomeEffect DEF Load, ledger
<1>8. /\ UNCHANGED <<book, edits, last, history, project, bound, writer>>
      /\ summary' \in [Scenarios -> [run : Nat, overrides : Overrides]]
      /\ finished' \in Nat /\ finished' >= finished /\ v.ranAt <= finished'
  BY <1>1, <1>4 DEF Load, ledger, TypeOK, Inv
<1> QED BY <1>4, <1>5, <1>6, <1>7, <1>8, RequestKeeps DEF OutcomeHolds

\* The check: what is current is what was submitted.
LEMMA CheckKeeps ==
    ASSUME Inv, NEW q \in Requests, CheckIdentity(q)
    PROVE  Inv'
<1>1. /\ TypeOK /\ AsRead(job[q]) /\ job[q].pc = "loaded"
      /\ UNCHANGED <<book, edits, last, history, summary, project, bound, writer,
                     finished>>
  BY DEF Inv, CheckIdentity, ledger
<1>2. OutcomeHolds /\ summary' \in [Scenarios -> [run : Nat, overrides : Overrides]]
  BY <1>1, JobIs, OutcomeEffect DEF CheckIdentity, ledger, TypeOK
<1>3. CASE Identity(book) = job[q].hash
  <2>1. Moves(q, "checked")
    BY <1>1, <1>3, GotoEffect DEF CheckIdentity, JobPcs
  <2>2. ASSUME NEW v \in Job, v.pc = "checked", v.hash = job[q].hash,
               v.inputs = job[q].inputs, v.since = job[q].since
        PROVE  AsRead(v)
    BY <1>1, <1>3, <2>2 DEF AsRead, Reading
  <2> QED BY <1>1, <1>2, <2>1, <2>2, MoveKeeps DEF JobPcs, Entered
<1>4. CASE Identity(book) # job[q].hash
  BY <1>1, <1>2, <1>4, AnswerEffect, DoneKeeps DEF CheckIdentity, Replies
<1> QED BY <1>3, <1>4

\* The overrides read are those of the scenario first read.
LEMMA ResolveKeeps ==
    ASSUME Inv, NEW q \in Requests, ResolveScenario(q)
    PROVE  Inv'
<1> DEFINE read == [job[q].inputs EXCEPT
                       !.overrides = book.overrides[job[q].inputs.scenario]]
           v == [job[q] EXCEPT !.pc = "resolved", !.inputs = read]
<1>1. /\ TypeOK /\ book \in Book /\ edits \in Nat /\ finished \in Nat
      /\ AsRead(job[q]) /\ job[q].pc = "checked"
  BY DEF Inv, TypeOK, ResolveScenario
<1>2. /\ read \in Content /\ read.scalar = job[q].inputs.scalar
      /\ read.scenario = job[q].inputs.scenario
      /\ read.overrides = book.overrides[job[q].inputs.scenario]
  BY <1>1, JobIs DEF Book, Content
<1>3. job' = [job EXCEPT ![q] = v]
  BY DEF ResolveScenario
<1> HIDE DEF read
<1>4. /\ v \in Job /\ v.pc = "resolved" /\ v.since = job[q].since /\ v.inputs = read
      /\ v.ranAt = job[q].ranAt /\ v.hash = job[q].hash
  BY <1>1, <1>2, JobIs DEF Job, JobPcs
<1> HIDE DEF v
<1>5. Becomes(q, v)
  BY <1>1, <1>3, <1>4, JobEffect
<1>6. AsRead(v) /\ v.pc # "committed" /\ ~Entered(job[q])
  BY <1>1, <1>2, <1>4 DEF AsRead, Reading, Entered
<1>7. OutcomeHolds
  BY <1>1, JobIs, OutcomeEffect DEF ResolveScenario, ledger
<1>8. /\ UNCHANGED <<book, edits, last, history, project, bound, writer>>
      /\ summary' \in [Scenarios -> [run : Nat, overrides : Overrides]]
      /\ finished' \in Nat /\ finished' >= finished /\ v.ranAt <= finished'
  BY <1>1, <1>4 DEF ResolveScenario, ledger, TypeOK, Inv
<1> QED BY <1>4, <1>5, <1>6, <1>7, <1>8, RequestKeeps DEF OutcomeHolds

\* With the rows a quiet request has read the whole identity.
LEMMA FoldKeeps ==
    ASSUME Inv, NEW q \in Requests, FoldRows(q)
    PROVE  Inv'
<1> DEFINE read == [job[q].inputs EXCEPT !.rows = book.rows]
           v == [job[q] EXCEPT !.pc = "folded", !.inputs = read,
                               !.quiet = (edits = job[q].since)]
<1>1. /\ TypeOK /\ book \in Book /\ edits \in Nat /\ finished \in Nat
      /\ AsRead(job[q]) /\ job[q].pc = "resolved"
  BY DEF Inv, TypeOK, FoldRows
<1>2. /\ read \in Content /\ read.rows = book.rows
      /\ read.scalar = job[q].inputs.scalar /\ read.scenario = job[q].inputs.scenario
      /\ read.overrides = job[q].inputs.overrides
  BY <1>1, JobIs DEF Book, Content
<1>3. job' = [job EXCEPT ![q] = v]
  BY DEF FoldRows
<1>4. v.inputs = read
  BY JobIs, <1>1 DEF Job
<1> HIDE DEF read
<1>5. /\ v \in Job /\ v.pc = "folded" /\ v.hash = job[q].hash
      /\ v.ranAt = job[q].ranAt /\ v.quiet = (edits = job[q].since)
  BY <1>1, <1>2, <1>4, JobIs DEF Job, JobPcs
<1> HIDE DEF v
<1>6. Becomes(q, v)
  BY <1>1, <1>3, <1>5, JobEffect
<1>7. ASSUME v.quiet
      PROVE  v.inputs = v.hash
  <2>1. edits = job[q].since
    BY <1>5, <1>7
  <2>2. /\ Identity(book) = v.hash
        /\ v.inputs.scalar = book.draft /\ v.inputs.scenario = book.active
        /\ v.inputs.overrides = book.overrides[book.active]
        /\ v.inputs.rows = book.rows
    BY <1>1, <1>2, <1>4, <1>5, <2>1 DEF AsRead, Reading
  <2>3. v.inputs \in Content
    BY <1>2, <1>4
  <2> QED BY <1>1, <2>2, <2>3, IdentityIs, ContentEqual
<1>8. AsRead(v) /\ v.pc # "committed" /\ ~Entered(job[q])
  BY <1>1, <1>5, <1>7 DEF AsRead, Reading, Entered
<1>9. OutcomeHolds
  BY <1>1, JobIs, OutcomeEffect DEF FoldRows, ledger
<1>10. /\ UNCHANGED <<book, edits, last, history, project, bound, writer>>
       /\ summary' \in [Scenarios -> [run : Nat, overrides : Overrides]]
       /\ finished' \in Nat /\ finished' >= finished /\ v.ranAt <= finished'
  BY <1>1, <1>5 DEF FoldRows, ledger, TypeOK, Inv
<1> QED BY <1>5, <1>6, <1>8, <1>9, <1>10, RequestKeeps DEF OutcomeHolds

\* A claim opens an intent that had no row.
LEMMA ClaimKeeps ==
    ASSUME Inv, NEW q \in Requests, Claim(q)
    PROVE  Inv'
<1>1. /\ TypeOK /\ AsRead(job[q]) /\ job[q].pc = "folded"
      /\ UNCHANGED <<book, edits, last, history, summary, project, bound, writer,
                     finished>>
      /\ summary' \in [Scenarios -> [run : Nat, overrides : Overrides]]
  BY DEF Inv, Claim, TypeOK
<1>2. OutcomeHolds
  <2>1. job[q].intent \in Intents \union {NoIntent}
    BY <1>1, JobIs
  <2>2. \/ UNCHANGED outcome
        \/ job[q].intent # NoIntent /\ Claimable(job[q].intent)
           /\ SetOutcome(job[q].intent, "OPEN")
    BY DEF Claim
  <2> QED BY <1>1, <2>1, <2>2, OutcomeEffect
<1>3. CASE Goto(q, "started")
  <2>1. Moves(q, "started")
    BY <1>1, <1>3, GotoEffect DEF JobPcs
  <2>2. ASSUME NEW v \in Job, v.pc = "started", v.hash = job[q].hash,
               v.inputs = job[q].inputs, v.quiet = job[q].quiet
        PROVE  AsRead(v)
    BY <1>1, <2>2 DEF AsRead, Reading
  <2> QED BY <1>1, <1>2, <2>1, <2>2, MoveKeeps DEF JobPcs, Entered
<1>4. CASE \E reply \in Replies : Answer(q, reply)
  BY <1>1, <1>2, <1>4, AnswerEffect, DoneKeeps
<1>5. Goto(q, "started") \/ \E reply \in Replies : Answer(q, reply)
  BY DEF Claim, Replies
<1> QED BY <1>3, <1>4, <1>5

\* The calculation is given a later instant than any before.
LEMMA ComputeKeeps ==
    ASSUME Inv, NEW q \in Requests, Compute(q)
    PROVE  Inv'
<1> DEFINE v == [job[q] EXCEPT !.pc = "computed", !.ranAt = finished + 1]
<1>1. /\ TypeOK /\ finished \in Nat /\ AsRead(job[q]) /\ job[q].pc = "started"
  BY DEF Inv, TypeOK, Compute
<1>2. job' = [job EXCEPT ![q] = v]
  BY DEF Compute
<1>3. /\ v \in Job /\ v.pc = "computed" /\ v.inputs = job[q].inputs
      /\ v.hash = job[q].hash /\ v.quiet = job[q].quiet /\ v.ranAt = finished + 1
  <2>1. finished + 1 \in Nat /\ "computed" \in JobPcs
    BY <1>1 DEF JobPcs
  <2>2. job[q] \in Job
    BY <1>1, JobIs
  <2> QED BY <2>1, <2>2 DEF Job
<1> HIDE DEF v
<1>4. Becomes(q, v)
  BY <1>1, <1>2, <1>3, JobEffect
<1>5. AsRead(v) /\ v.pc # "committed" /\ ~Entered(job[q])
  BY <1>1, <1>3 DEF AsRead, Reading, Entered
<1>6. OutcomeHolds
  BY <1>1, JobIs, OutcomeEffect DEF Compute, ledger
<1>7. /\ UNCHANGED <<book, edits, last, history, project, bound, writer>>
      /\ summary' \in [Scenarios -> [run : Nat, overrides : Overrides]]
      /\ finished' \in Nat /\ finished' >= finished /\ v.ranAt <= finished'
  BY <1>1, <1>3 DEF Compute, ledger, TypeOK
<1> QED BY <1>3, <1>4, <1>5, <1>6, <1>7, RequestKeeps DEF OutcomeHolds

\* A failure of the engine or of the commit ends the request.
LEMMA FailKeeps ==
    ASSUME Inv, NEW q \in Requests, EngineFails(q) \/ CommitFails(q)
    PROVE  Inv'
<1>1. /\ TypeOK /\ Moves(q, "done")
      /\ UNCHANGED <<book, edits, last, history, summary, project, bound, writer,
                     finished>>
      /\ summary' \in [Scenarios -> [run : Nat, overrides : Overrides]]
  <2>1. TypeOK /\ Answer(q, "FAILED")
    BY DEF Inv, EngineFails, CommitFails
  <2>2. Moves(q, "done")
    BY <2>1, AnswerEffect DEF Replies
  <2> QED BY <2>1, <2>2 DEF EngineFails, CommitFails, TypeOK
<1>2. OutcomeHolds
  <2>1. MarkFailed(job[q].intent) /\ job[q].intent \in Intents \union {NoIntent}
    BY <1>1, JobIs DEF EngineFails, CommitFails
  <2> QED BY <1>1, <2>1, OutcomeEffect
<1> QED BY <1>1, <1>2, DoneKeeps

\* A request that dies leaves what it wrote.
LEMMA CrashKeeps ==
    ASSUME Inv, NEW q \in Requests, Crash(q)
    PROVE  Inv'
<1>1. TypeOK /\ Answer(q, "NONE") /\ summary' = summary
  BY DEF Inv, Crash
<1>2. Moves(q, "done")
  BY <1>1, AnswerEffect DEF Replies
<1>3. OutcomeHolds
  BY <1>1, JobIs, OutcomeEffect DEF Crash, ledger
<1>4. summary' \in [Scenarios -> [run : Nat, overrides : Overrides]]
  BY <1>1 DEF TypeOK
<1> QED BY <1>1, <1>2, <1>3, <1>4, DoneKeeps DEF Crash, ledger

\* The summary names the run the request committed.
LEMMA SummariseKeeps ==
    ASSUME Inv, NEW q \in Requests, Summarise(q)
    PROVE  Inv'
<1> DEFINE sc == job[q].inputs.scenario
           run == CHOOSE r \in 1..Len(history) : history[r].by = q
<1>1. /\ TypeOK /\ Answer(q, "COMMITTED") /\ job[q].pc = "committed"
      /\ book \in Book /\ Len(history) \in Nat
  BY LenProperties DEF Inv, TypeOK, Summarise
<1>2. run \in 1..Len(history)
  BY <1>1 DEF Inv
<1>3. sc \in Scenarios
  BY <1>1, JobIs DEF Content
<1>4. \/ summary' = summary
      \/ summary' = [summary EXCEPT ![sc] = [run |-> run,
                                             overrides |-> book.overrides[sc]]]
  BY DEF Summarise
<1> HIDE DEF run, sc
<1>5. [run |-> run, overrides |-> book.overrides[sc]] \in [run : Nat, overrides : Overrides]
  BY <1>1, <1>2, <1>3 DEF Book
<1>6. summary' \in [Scenarios -> [run : Nat, overrides : Overrides]]
  BY <1>1, <1>3, <1>4, <1>5 DEF TypeOK
<1>7. Moves(q, "done")
  BY <1>1, AnswerEffect DEF Replies
<1>8. OutcomeHolds
  BY <1>1, JobIs, OutcomeEffect DEF Summarise, ledger
<1> QED BY <1>6, <1>7, <1>8, DoneKeeps DEF Summarise, ledger

\* The commit: the entry it appends is made by a request that is then past
\* its commit, and the intent it closes was OPEN, so no older entry has it.
LEMMA CommitKeeps ==
    ASSUME Inv, NEW q \in Requests, Commit(q)
    PROVE  Inv'
<1> DEFINE i == job[q].intent
           run == Len(history) + 1
           e == [by |-> q, hash |-> Identity(book), inputs |-> job[q].inputs,
                 ranAt |-> job[q].ranAt, quiet |-> job[q].quiet]
<1>1. /\ TypeOK /\ book \in Book /\ history \in Seq(Entry) /\ Len(history) \in Nat
      /\ edits \in Nat /\ finished \in Nat
      /\ AsRead(job[q]) /\ job[q].pc = "computed" /\ Identity(book) = job[q].hash
      /\ i \in Intents \union {NoIntent} /\ (i # NoIntent => outcome[i] = "OPEN")
  BY JobIs, LenProperties DEF Inv, TypeOK, Commit, CommitAccepts
<1>2. e \in Entry /\ e.by = q /\ e.ranAt <= finished /\ (e.quiet => e.inputs = e.hash)
  <2>1. Identity(book) \in Content
    BY <1>1, IdentityIs
  <2>2. job[q].quiet => job[q].inputs = job[q].hash
    BY <1>1 DEF AsRead
  <2> QED BY <1>1, <2>1, <2>2, JobIs DEF Inv, Entry
<1>3. history' = Append(history, e)
  BY DEF Commit
<1> HIDE DEF e
<1>4. /\ history' \in Seq(Entry) /\ Len(history') = run
      /\ \A r \in 1..Len(history) : history'[r] = history[r]
      /\ history'[run] = e
  BY <1>1, <1>2, <1>3, AppendProperties
<1>5. /\ book' \in Book /\ edits' \in Nat
      /\ \/ edits' = edits /\ Identity(book)' = Identity(book)
         \/ edits' > edits
  <2>1. book' = [book EXCEPT !.saved = book.draft, !.dirty = FALSE,
                             !.active = job[q].inputs.scenario]
    BY DEF Commit
  <2>2. job[q].inputs.scenario \in Scenarios
    BY <1>1, JobIs DEF Content
  <2>3. book' \in Book
    BY <1>1, <2>1, <2>2 DEF Book
  <2>4. edits' = edits + (IF Identity(book') = Identity(book) THEN 0 ELSE 1)
    BY DEF Commit
  <2>5. CASE Identity(book') = Identity(book)
    BY <1>1, <2>3, <2>4, <2>5
  <2>6. CASE Identity(book') # Identity(book)
    BY <1>1, <2>3, <2>4, <2>6
  <2> QED BY <2>5, <2>6
<1>6. PICK v \in Job : /\ Becomes(q, v) /\ v.pc \in {"committed", "done"}
                       /\ v.intent = i /\ v.ranAt = job[q].ranAt
  <2>1. CASE Goto(q, "committed")
    BY <1>1, <2>1, GotoEffect DEF JobPcs, Moves
  <2>2. CASE Answer(q, "FAILED")
    BY <1>1, <2>2, AnswerEffect DEF Replies, Moves
  <2> QED BY <2>1, <2>2 DEF Commit
<1>7. /\ job'[q] = v /\ \A p \in Requests : p # q => job'[p] = job[p]
      /\ job' \in [Requests -> Job]
  BY <1>6 DEF Becomes
<1>8. /\ outcome' \in [Intents -> {"NONE", "OPEN", "FAILED", "COMMITTED"}]
      /\ bound' \in [Intents -> Nat]
      /\ i # NoIntent => outcome'[i] = "COMMITTED" /\ bound'[i] = run
      /\ \A k \in Intents : k # i => outcome'[k] = outcome[k] /\ bound'[k] = bound[k]
      /\ \A k \in Intents : bound'[k] <= run
  <2>1. outcome \in [Intents -> {"NONE", "OPEN", "FAILED", "COMMITTED"}]
        /\ bound \in [Intents -> Nat] /\ \A k \in Intents : bound[k] <= Len(history)
    BY DEF Inv, TypeOK
  <2>2. CASE i = NoIntent
    <3>1. outcome' = outcome /\ bound' = bound
      BY <2>2 DEF Commit, ledger
    <3> QED BY <1>1, <2>1, <2>2, <3>1
  <2>3. CASE i # NoIntent
    <3>1. /\ outcome' = [outcome EXCEPT ![i] = "COMMITTED"]
          /\ bound' = [bound EXCEPT ![i] = run] /\ i \in Intents
      BY <1>1, <2>3 DEF Commit, SetOutcome
    <3> QED BY <1>1, <2>1, <3>1
  <2> QED BY <2>2, <2>3
<1>9. ASSUME NEW r \in 1..Len(history)
      PROVE  /\ history[r].by \in Requests /\ history[r].by # q
             /\ history[r].ranAt <= finished
  BY <1>1, EntryIs DEF Inv, Entered
<1>10. UNCHANGED <<summary, project, writer, finished>>
  BY DEF Commit
<1>11. TypeOK'
  <2>1. last' \in [run : 0..Len(history'), hash : Content]
    <3>1. last' = [run |-> run, hash |-> Identity(book)] /\ Identity(book) \in Content
      BY <1>1, IdentityIs DEF Commit
    <3> QED BY <1>1, <1>4, <3>1
  <2> QED BY <1>1, <1>4, <1>5, <1>7, <1>8, <1>10, <2>1 DEF TypeOK
<1>12. ASSUME NEW r \in 1..Len(history')
       PROVE  /\ Entered(job'[history'[r].by])
              /\ history'[r].ranAt <= finished
              /\ history'[r].quiet => history'[r].inputs = history'[r].hash
              /\ LET k == job'[history'[r].by].intent
                 IN  k # NoIntent => outcome'[k] = "COMMITTED" /\ bound'[k] = r
  <2>1. CASE r = run
    BY <1>2, <1>4, <1>6, <1>7, <1>8, <2>1 DEF Entered
  <2>2. CASE r \in 1..Len(history)
    <3>1. /\ history'[r] = history[r] /\ history[r].by # q
          /\ job'[history[r].by] = job[history[r].by]
          /\ job[history[r].by].intent \in Intents \union {NoIntent}
      BY <1>1, <1>4, <1>7, <1>9, <2>2, JobIs
    <3>2. /\ Entered(job[history[r].by]) /\ history[r].ranAt <= finished
          /\ history[r].quiet => history[r].inputs = history[r].hash
          /\ LET k == job[history[r].by].intent
             IN  k # NoIntent => outcome[k] = "COMMITTED" /\ bound[k] = r
      BY <2>2 DEF Inv, QuietRunIsHonest, IntentNamesItsRun
    <3>3. ASSUME job[history[r].by].intent # NoIntent
          PROVE  job[history[r].by].intent \in Intents /\ job[history[r].by].intent # i
      BY <1>1, <3>1, <3>2, <3>3
    <3> QED BY <1>8, <3>1, <3>2, <3>3
  <2> QED BY <1>1, <1>4, <2>1, <2>2
<1>13. ASSUME NEW p \in Requests
       PROVE  /\ AsRead(job[p])' /\ job'[p].ranAt <= finished
              /\ job'[p].pc = "committed" => \E r \in 1..Len(history') : history'[r].by = p
  <2>1. CASE p = q
    <3>1. AsRead(job[p])'
      BY <1>6, <1>7, <2>1 DEF AsRead, Reading
    <3>2. run \in 1..Len(history') /\ history'[run].by = q
      BY <1>1, <1>2, <1>4
    <3>3. job'[p].ranAt <= finished
      BY <1>6, <1>7, <2>1 DEF Inv
    <3> QED BY <2>1, <3>1, <3>2, <3>3
  <2>2. CASE p # q
    <3>1. job'[p] = job[p]
      BY <1>7, <2>2
    <3>2. /\ job[p] \in Job /\ AsRead(job[p]) /\ job[p].ranAt <= finished
          /\ job[p].pc = "committed" => \E r \in 1..Len(history) : history[r].by = p
      BY <1>1, JobIs DEF Inv
    <3>3. AsRead(job[p])'
      <4>1. PICK x \in Job : x = job[p]
        BY <3>2
      <4>2. AsRead(x)
        BY <3>2, <4>1
      <4>3. AsRead(x)'
        BY <1>1, <1>5, <4>2, AsReadKept
      <4> QED BY <3>1, <4>1, <4>3 DEF AsRead
    <3>4. \A r \in 1..Len(history) : r \in 1..Len(history') /\ history'[r].by = history[r].by
      BY <1>1, <1>4
    <3> QED BY <3>1, <3>2, <3>3, <3>4
  <2> QED BY <2>1, <2>2
<1>14. \A w \in Writers : writer'[w].run <= Len(history')
  <2>1. \A w \in Writers : writer[w].run \in Nat /\ writer[w].run <= Len(history)
    BY <1>1 DEF Inv, TypeOK, Writer
  <2> QED BY <1>1, <1>4, <1>10, <2>1
<1>15. QuietRunIsHonest' /\ IntentNamesItsRun'
  BY <1>12 DEF QuietRunIsHonest, IntentNamesItsRun
<1> QED BY <1>4, <1>8, <1>10, <1>11, <1>12, <1>13, <1>14, <1>15 DEF Inv

----------------------------------------------------------------------------
(* The other writers, one lemma per action.                                *)

\* An edit of the draft is a change of content.
LEMMA EditDraftKeeps ==
    ASSUME Inv, NEW s \in Scalars, EditDraft(s)
    PROVE  Inv'
<1>1. book \in Book /\ edits \in Nat
  BY DEF Inv, TypeOK
<1>2. book' \in Book
  BY <1>1 DEF EditDraft, Book
<1>3. /\ UNCHANGED <<history, summary, outcome, bound, job, finished, last,
                     project, writer>>
      /\ edits' \in Nat /\ edits' > edits
  BY <1>1 DEF EditDraft, Edit, ledger
<1>4. /\ last' \in [run : 0..Len(history), hash : Content]
      /\ project' \in [archived : BOOLEAN, version : Nat]
      /\ writer' \in [Writers -> Writer]
      /\ \A w \in Writers : writer'[w].run <= Len(history)
  BY <1>3 DEF Inv, TypeOK
<1> QED BY <1>2, <1>3, <1>4, WriterKeeps

\* So is one of the rows.
LEMMA EditRowsKeeps ==
    ASSUME Inv, NEW r \in RowSets, EditRows(r)
    PROVE  Inv'
<1>1. book \in Book /\ edits \in Nat
  BY DEF Inv, TypeOK
<1>2. book' \in Book
  BY <1>1 DEF EditRows, Book
<1>3. /\ UNCHANGED <<history, summary, outcome, bound, job, finished, last,
                     project, writer>>
      /\ edits' \in Nat /\ edits' > edits
  BY <1>1 DEF EditRows, Edit, ledger
<1>4. /\ last' \in [run : 0..Len(history), hash : Content]
      /\ project' \in [archived : BOOLEAN, version : Nat]
      /\ writer' \in [Writers -> Writer]
      /\ \A w \in Writers : writer'[w].run <= Len(history)
  BY <1>3 DEF Inv, TypeOK
<1> QED BY <1>2, <1>3, <1>4, WriterKeeps

\* So is one of a scenario's overrides, active or not.
LEMMA UpdateOverridesKeeps ==
    ASSUME Inv, NEW sc \in Scenarios, NEW o \in Overrides, UpdateOverrides(sc, o)
    PROVE  Inv'
<1>1. book \in Book /\ edits \in Nat
  BY DEF Inv, TypeOK
<1>2. book' \in Book
  BY <1>1 DEF UpdateOverrides, Book
<1>3. /\ UNCHANGED <<history, summary, outcome, bound, job, finished, last,
                     project, writer>>
      /\ edits' \in Nat /\ edits' > edits
  BY <1>1 DEF UpdateOverrides, Edit, ledger
<1>4. /\ last' \in [run : 0..Len(history), hash : Content]
      /\ project' \in [archived : BOOLEAN, version : Nat]
      /\ writer' \in [Writers -> Writer]
      /\ \A w \in Writers : writer'[w].run <= Len(history)
  BY <1>3 DEF Inv, TypeOK
<1> QED BY <1>2, <1>3, <1>4, WriterKeeps

\* What a restored or cleared Last Run is.
LEMMA SelectedLastIs ==
    ASSUME Inv, NEW sc \in Scenarios, SelectScenario(sc)
    PROVE  /\ last' \in [run : 0..Len(history), hash : Content]
           /\ last'.run # 0 => last'.hash = history[last'.run].hash
<1>1. /\ history \in Seq(Entry) /\ Len(history) \in Nat /\ finished \in Nat
      /\ last \in [run : 0..Len(history), hash : Content]
      /\ \A r \in 1..Len(history) : history[r].ranAt <= finished
  BY LenProperties DEF Inv, TypeOK
<1>2. CASE NewestRun(sc) = 0
  <2>1. last' = [last EXCEPT !.run = 0]
    BY <1>2 DEF SelectScenario
  <2> QED BY <1>1, <2>1
<1>3. CASE NewestRun(sc) # 0
  <2>1. PICK run \in 1..Len(history) : run = NewestRun(sc)
    BY <1>1, <1>3, NewestRunIs
  <2>2. last' = [run |-> run, hash |-> history[run].hash]
    BY <1>3, <2>1 DEF SelectScenario, Restored
  <2>3. history[run].hash \in Content
    BY <1>1, EntryIs
  <2> QED BY <1>1, <2>2, <2>3
<1> QED BY <1>2, <1>3

\* Selecting a scenario edits unless it was active.
LEMMA SelectScenarioKeeps ==
    ASSUME Inv, NEW sc \in Scenarios, SelectScenario(sc)
    PROVE  Inv'
<1>1. book \in Book /\ edits \in Nat
  BY DEF Inv, TypeOK
<1>2. \E d \in BOOLEAN : book' = [book EXCEPT !.active = sc, !.dirty = d]
  <2>1. CASE NewestRun(sc) = 0
    <3>1. book' = [[book EXCEPT !.active = sc] EXCEPT !.dirty = FALSE]
      BY <2>1 DEF SelectScenario
    <3> QED BY <1>1, <3>1 DEF Book
  <2>2. CASE NewestRun(sc) # 0
    <3> DEFINE d == Identity([book EXCEPT !.active = sc]) # history[NewestRun(sc)].hash
    <3>1. book' = [[book EXCEPT !.active = sc] EXCEPT !.dirty = d]
      BY <2>2 DEF SelectScenario
    <3>2. d \in BOOLEAN
      OBVIOUS
    <3> HIDE DEF d
    <3> QED BY <1>1, <3>1, <3>2 DEF Book
  <2> QED BY <2>1, <2>2
<1>3. book' \in Book
  BY <1>1, <1>2 DEF Book
<1>4. UNCHANGED <<history, summary, outcome, bound, job, finished, project, writer>>
  BY DEF SelectScenario, ledger
<1>5. /\ edits' \in Nat
      /\ \/ edits' = edits /\ Identity(book)' = Identity(book)
         \/ edits' > edits
  <2>1. CASE sc = book.active
    <3>1. edits' = edits
      BY <2>1 DEF SelectScenario
    <3>2. PICK d \in BOOLEAN : book' = [book EXCEPT !.active = sc, !.dirty = d]
      BY <1>2
    <3>3. /\ book'.draft = book.draft /\ book'.rows = book.rows
          /\ book'.active = book.active /\ book'.overrides = book.overrides
      BY <1>1, <2>1, <3>2 DEF Book
    <3> QED BY <1>1, <3>1, <3>3 DEF Identity
  <2>2. CASE sc # book.active
    <3>1. Edit
      BY <2>2 DEF SelectScenario
    <3> QED BY <1>1, <3>1 DEF Edit
  <2> QED BY <2>1, <2>2
<1>6. /\ project' \in [archived : BOOLEAN, version : Nat]
      /\ writer' \in [Writers -> Writer]
      /\ \A w \in Writers : writer'[w].run <= Len(history)
  BY <1>4 DEF Inv, TypeOK
<1> QED BY <1>3, <1>4, <1>5, <1>6, SelectedLastIs, WriterKeeps

\* Archive and restore leave the workbook alone.
LEMMA LifecycleKeeps ==
    ASSUME Inv, Archive \/ Unarchive
    PROVE  Inv'
<1>1. project.version \in Nat /\ book \in Book /\ edits \in Nat
  BY DEF Inv, TypeOK
<1>2. /\ UNCHANGED <<history, summary, outcome, bound, job, finished, last,
                     book, edits, writer>>
      /\ project' \in [archived : BOOLEAN, version : Nat]
  <2>1. CASE Archive
    BY <1>1, <2>1 DEF Archive, ledger
  <2>2. CASE Unarchive
    BY <1>1, <2>2 DEF Unarchive, ledger
  <2> QED BY <2>1, <2>2
<1>3. /\ last' \in [run : 0..Len(history), hash : Content]
      /\ writer' \in [Writers -> Writer]
      /\ \A w \in Writers : writer'[w].run <= Len(history)
  BY <1>2 DEF Inv, TypeOK
<1>4. Identity(book)' = Identity(book)
  BY <1>2 DEF Identity
<1> QED BY <1>1, <1>2, <1>3, <1>4, WriterKeeps

\* A legacy save that only reads keeps the invariant.
LEMMA SaveReadsKeep ==
    ASSUME Inv, NEW w \in Writers, NEW v \in Writer, v.run <= Len(history),
           writer' = [writer EXCEPT ![w] = v],
           UNCHANGED <<history, summary, outcome, bound, job, finished, last,
                       book, edits, project>>
    PROVE  Inv'
<1>1. book \in Book /\ edits \in Nat /\ writer \in [Writers -> Writer]
  BY DEF Inv, TypeOK
<1>2. /\ writer' \in [Writers -> Writer]
      /\ \A x \in Writers : writer'[x].run <= Len(history)
  BY <1>1 DEF Inv
<1>3. /\ last' \in [run : 0..Len(history), hash : Content]
      /\ project' \in [archived : BOOLEAN, version : Nat]
  BY DEF Inv, TypeOK
<1>4. Identity(book)' = Identity(book)
  BY DEF Identity
<1> QED BY <1>1, <1>2, <1>3, <1>4, WriterKeeps

\* The two reads of a legacy save name runs there are.
LEMMA LegacyReadsKeep ==
    ASSUME Inv, NEW w \in Writers,
           DiscardReads(w) \/ (\E s \in Scalars : DraftReads(w, s)) \/ LegacyMerges(w)
    PROVE  Inv'
<1>1. /\ book \in Book /\ edits \in Nat /\ writer \in [Writers -> Writer]
      /\ last.run \in 0..Len(history) /\ Len(history) \in Nat
      /\ project.version \in Nat /\ writer[w] \in Writer /\ writer[w].run \in Nat
      /\ writer[w].run <= Len(history)
  BY LenProperties DEF Inv, TypeOK, Writer
<1>2. UNCHANGED <<history, summary, outcome, bound, job, finished, last,
                  book, edits, project>>
  BY DEF DiscardReads, DraftReads, LegacyMerges, ledger
<1>3. CASE DiscardReads(w)
  <2> DEFINE v == [pc |-> "read", draft |-> book.saved, saved |-> book.saved,
                   active |-> book.active, run |-> last.run, epoch |-> project.version]
  <2>1. v \in Writer /\ v.run <= Len(history)
    BY <1>1 DEF Writer, WriterPcs, Book
  <2>2. writer' = [writer EXCEPT ![w] = v]
    BY <1>3 DEF DiscardReads
  <2> HIDE DEF v
  <2> QED BY <1>2, <2>1, <2>2, SaveReadsKeep
<1>4. CASE \E s \in Scalars : DraftReads(w, s)
  <2>1. PICK s \in Scalars : DraftReads(w, s)
    BY <1>4
  <2> DEFINE v == [pc |-> "read", draft |-> s, saved |-> book.saved,
                   active |-> book.active, run |-> 0, epoch |-> project.version]
  <2>2. v \in Writer /\ v.run <= Len(history)
    BY <1>1 DEF Writer, WriterPcs, Book
  <2>3. writer' = [writer EXCEPT ![w] = v]
    BY <2>1 DEF DraftReads
  <2> HIDE DEF v
  <2> QED BY <1>2, <2>2, <2>3, SaveReadsKeep
<1>5. CASE LegacyMerges(w)
  <2> DEFINE run == IF writer[w].run = 0 THEN last.run ELSE writer[w].run
             v == [writer[w] EXCEPT !.pc = "merged", !.run = run]
  <2>1. run \in Nat /\ run <= Len(history)
    BY <1>1
  <2>2. writer' = [writer EXCEPT ![w] = v]
    BY <1>5 DEF LegacyMerges
  <2> HIDE DEF run
  <2>3. v \in Writer /\ v.run <= Len(history)
    BY <1>1, <2>1 DEF Writer, WriterPcs
  <2> HIDE DEF v
  <2> QED BY <1>2, <2>2, <2>3, SaveReadsKeep
<1> QED BY <1>3, <1>4, <1>5

\* The write of a legacy save is an edit.
LEMMA LegacyWritesKeeps ==
    ASSUME Inv, NEW w \in Writers, LegacyWrites(w)
    PROVE  Inv'
<1>1. /\ book \in Book /\ edits \in Nat /\ writer \in [Writers -> Writer]
      /\ writer[w] \in Writer /\ writer[w].run \in 0..Len(history)
      /\ last \in [run : 0..Len(history), hash : Content]
  BY LenProperties DEF Inv, TypeOK, Writer
<1>2. UNCHANGED <<history, summary, outcome, bound, job, finished, project>>
  BY DEF LegacyWrites, ledger
<1>3. /\ writer' \in [Writers -> Writer]
      /\ \A x \in Writers : writer'[x].run <= Len(history)
  <2>1. writer' = [writer EXCEPT ![w].pc = "done"]
    BY DEF LegacyWrites
  <2>2. /\ [writer[w] EXCEPT !.pc = "done"] \in Writer
        /\ [writer[w] EXCEPT !.pc = "done"].run = writer[w].run
    BY <1>1 DEF Writer, WriterPcs
  <2> QED BY <1>1, <2>1, <2>2 DEF Inv
<1>4. project' \in [archived : BOOLEAN, version : Nat]
  BY <1>2 DEF Inv, TypeOK
<1>5. CASE MayWrite(writer[w].epoch)
  <2> DEFINE d == writer[w].draft # writer[w].saved
  <2>1. /\ Edit /\ last' = [last EXCEPT !.run = writer[w].run]
        /\ book' = [book EXCEPT !.draft = writer[w].draft, !.saved = writer[w].saved,
                                !.active = writer[w].active, !.dirty = d]
    BY <1>5 DEF LegacyWrites
  <2>2. edits' \in Nat /\ edits' > edits
    BY <1>1, <2>1 DEF Edit
  <2>3. last' \in [run : 0..Len(history), hash : Content]
    BY <1>1, <2>1
  <2>4. d \in BOOLEAN
    OBVIOUS
  <2> HIDE DEF d
  <2>5. book' \in Book
    BY <1>1, <2>1, <2>4 DEF Book, Writer
  <2> QED BY <1>2, <1>3, <1>4, <2>2, <2>3, <2>5, WriterKeeps
<1>6. CASE ~MayWrite(writer[w].epoch)
  <2>1. UNCHANGED <<book, last, edits>>
    BY <1>6 DEF LegacyWrites
  <2>2. Identity(book)' = Identity(book)
    BY <2>1 DEF Identity
  <2> QED BY <1>1, <1>2, <1>3, <1>4, <2>1, <2>2, WriterKeeps
<1> QED BY <1>5, <1>6

----------------------------------------------------------------------------
(* The theorems.                                                           *)

\* The invariant holds at first.
LEMMA InitInv == Init => Inv
<1> SUFFICES ASSUME Init
             PROVE  Inv
  OBVIOUS
<1>1. history = <<>> /\ Len(history) = 0 /\ edits = 0 /\ finished = 0
  BY EmptySeq DEF Init
<1>2. /\ book \in Book
      /\ \A q \in Requests : job[q] = NewJob
      /\ \A w \in Writers : writer[w] = NewWriter
      /\ \A i \in Intents : bound[i] = 0
  BY DEF Init, Book
<1>3. TypeOK
  <2>1. history \in Seq(Entry)
    BY <1>1, EmptySeq
  <2>2. last \in [run : 0..Len(history), hash : Content]
    BY <1>1, NoContentIs DEF Init
  <2>3. summary \in [Scenarios -> [run : Nat, overrides : Overrides]]
    BY NoContentIs DEF Init, Content
  <2>4. job \in [Requests -> Job] /\ writer \in [Writers -> Writer]
    BY NewJobIs, NewWriterIs DEF Init
  <2>5. /\ project \in [archived : BOOLEAN, version : Nat]
        /\ outcome \in [Intents -> {"NONE", "OPEN", "FAILED", "COMMITTED"}]
        /\ bound \in [Intents -> Nat]
    BY DEF Init
  <2> QED BY <1>1, <1>2, <2>1, <2>2, <2>3, <2>4, <2>5 DEF TypeOK
<1>4. ASSUME NEW q \in Requests
      PROVE  AsRead(job[q]) /\ job[q].ranAt <= finished /\ job[q].pc # "committed"
  BY <1>1, <1>2, NewJobIs DEF AsRead, Reading
<1>5. QuietRunIsHonest /\ IntentNamesItsRun
  BY <1>1 DEF QuietRunIsHonest, IntentNamesItsRun
<1> QED BY <1>1, <1>2, <1>3, <1>4, <1>5, NewWriterIs DEF Inv

\* Every step keeps the invariant.
LEMMA InvStep == Inv /\ [Next]_vars => Inv'
<1> SUFFICES ASSUME Inv, [Next]_vars
             PROVE  Inv'
  OBVIOUS
<1>1. CASE UNCHANGED vars
  <2>1. Identity(book)' = Identity(book)
    BY <1>1 DEF vars, Identity
  <2> QED BY <1>1, <2>1, WriterKeeps DEF vars, ledger, Inv, TypeOK
<1>2. ASSUME NEW q \in Requests, NEW i \in Intents \union {NoIntent}, NEW c \in Content,
             Begin(q, i, c)
      PROVE  Inv'
  BY <1>2, BeginKeeps
<1>3. ASSUME NEW q \in Requests, RunStep(q)
      PROVE  Inv'
  BY <1>3, LoadKeeps, CheckKeeps, ResolveKeeps, FoldKeeps, ClaimKeeps, ComputeKeeps,
     FailKeeps, CommitKeeps, SummariseKeeps DEF RunStep
<1>4. ASSUME NEW q \in Requests, Crash(q)
      PROVE  Inv'
  BY <1>4, CrashKeeps
<1>5. CASE \E s \in Scalars : EditDraft(s)
  BY <1>5, EditDraftKeeps
<1>6. CASE \E r \in RowSets : EditRows(r)
  BY <1>6, EditRowsKeeps
<1>7. CASE \E sc \in Scenarios, o \in Overrides : UpdateOverrides(sc, o)
  BY <1>7, UpdateOverridesKeeps
<1>8. CASE \E sc \in Scenarios : SelectScenario(sc)
  BY <1>8, SelectScenarioKeeps
<1>9. CASE Archive \/ Unarchive
  BY <1>9, LifecycleKeeps
<1>10. ASSUME NEW w \in Writers,
              \/ DiscardReads(w) \/ (\E s \in Scalars : DraftReads(w, s))
              \/ LegacyMerges(w)
       PROVE  Inv'
  BY <1>10, LegacyReadsKeep
<1>11. ASSUME NEW w \in Writers, LegacyWrites(w)
       PROVE  Inv'
  BY <1>11, LegacyWritesKeeps
<1> QED BY <1>1, <1>2, <1>3, <1>4, <1>5, <1>6, <1>7, <1>8, <1>9, <1>10, <1>11 DEF Next

\* The invariant always holds.
LEMMA Always == Spec => []Inv
BY InitInv, InvStep, PTL DEF Spec

\* Every reachable state is well-typed: the Last Run and the records the
\* route keeps across its transactions stay within what the code can store.
THEOREM TypeCorrect == Spec => []TypeOK
<1>1. Inv => TypeOK
  BY DEF Inv
<1> QED BY <1>1, Always, PTL

\* A Run whose inputs were read in four transactions, while nobody edited,
\* was calculated from the very content its history entry is hashed by.
THEOREM QuietRunsAreHonest == Spec => []QuietRunIsHonest
<1>1. Inv => QuietRunIsHonest
  BY DEF Inv
<1> QED BY <1>1, Always, PTL

\* Every entry committed under an intent is the one the ledger binds that
\* intent to, so that no two entries have the same intent.
THEOREM IntentsNameTheirRuns == Spec => []IntentNamesItsRun
<1>1. Inv => IntentNamesItsRun
  BY DEF Inv
<1> QED BY <1>1, Always, PTL

----------------------------------------------------------------------------
(* The Last Run.                                                           *)

\* A step that leaves the Last Run and the history alone keeps it whole.
LEMMA LastKept ==
    ASSUME LastRunIsWhole, UNCHANGED <<last, history>>
    PROVE  LastRunIsWhole'
BY DEF LastRunIsWhole

\* Every step but one kind keeps the Last Run whole.
LEMMA LastStep ==
    Inv /\ LastRunIsWhole /\ [Next]_vars
    => \/ LastRunIsWhole'
       \/ \E w \in Writers : LegacyWrites(w) /\ writer[w].run \notin {0, last.run}
<1> SUFFICES ASSUME Inv, LastRunIsWhole, [Next]_vars
             PROVE  \/ LastRunIsWhole'
                    \/ \E w \in Writers :
                          LegacyWrites(w) /\ writer[w].run \notin {0, last.run}
  OBVIOUS
<1>1. CASE UNCHANGED <<last, history>>
  BY <1>1, LastKept
<1>2. ASSUME NEW q \in Requests, Commit(q)
      PROVE  LastRunIsWhole'
  <2> DEFINE run == Len(history) + 1
             e == [by |-> q, hash |-> Identity(book), inputs |-> job[q].inputs,
                   ranAt |-> job[q].ranAt, quiet |-> job[q].quiet]
  <2>1. /\ last' = [run |-> run, hash |-> Identity(book)]
        /\ history' = Append(history, e) /\ e.hash = Identity(book)
    BY <1>2 DEF Commit
  <2> HIDE DEF e
  <2>2. history'[run] = e
    BY <2>1, AppendProperties DEF Inv, TypeOK
  <2> QED BY <2>1, <2>2 DEF LastRunIsWhole
<1>3. ASSUME NEW sc \in Scenarios, SelectScenario(sc)
      PROVE  LastRunIsWhole'
  <2>1. last'.run # 0 => last'.hash = history[last'.run].hash
    BY <1>3, SelectedLastIs
  <2>2. history' = history
    BY <1>3 DEF SelectScenario
  <2> QED BY <2>1, <2>2 DEF LastRunIsWhole
<1>4. ASSUME NEW w \in Writers, LegacyWrites(w), writer[w].run \in {0, last.run}
      PROVE  LastRunIsWhole'
  <2>1. history' = history /\ last \in [run : 0..Len(history), hash : Content]
    BY <1>4 DEF LegacyWrites, Inv, TypeOK
  <2>2. last' = last \/ last' = [last EXCEPT !.run = writer[w].run]
    BY <1>4 DEF LegacyWrites
  <2>3. last'.run # 0 => last' = last
    BY <1>4, <2>1, <2>2
  <2> QED BY <2>1, <2>3 DEF LastRunIsWhole
<1>5. ASSUME NEW q \in Requests,
             \/ \E i \in Intents \union {NoIntent}, c \in Content : Begin(q, i, c)
             \/ Load(q) \/ CheckIdentity(q) \/ ResolveScenario(q) \/ FoldRows(q)
             \/ Claim(q) \/ Compute(q) \/ EngineFails(q) \/ CommitFails(q)
             \/ Summarise(q) \/ Crash(q)
      PROVE  UNCHANGED <<last, history>>
  BY <1>5 DEF Begin, Load, CheckIdentity, ResolveScenario, FoldRows, Claim, Compute,
     EngineFails, CommitFails, Summarise, Crash
<1>6. CASE \/ \E s \in Scalars : EditDraft(s)
           \/ \E r \in RowSets : EditRows(r)
           \/ \E sc \in Scenarios, o \in Overrides : UpdateOverrides(sc, o)
           \/ Archive \/ Unarchive
           \/ \E w \in Writers, s \in Scalars : DraftReads(w, s)
           \/ \E w \in Writers : DiscardReads(w) \/ LegacyMerges(w)
  <2>1. UNCHANGED <<last, history>>
    BY <1>6 DEF EditDraft, EditRows, UpdateOverrides, Archive, Unarchive, DraftReads,
       DiscardReads, LegacyMerges
  <2> QED BY <2>1, <1>1
<1>7. CASE UNCHANGED vars
  BY <1>7, <1>1 DEF vars
<1> QED BY <1>1, <1>2, <1>3, <1>4, <1>5, <1>6, <1>7 DEF Next, RunStep

\* Whatever is committed, restored, edited or archived, a Last Run that is
\* one run stays one; only a legacy save that writes back another run than
\* the workspace's breaks it, since it leaves the hash as it is.
THEOREM OnlyALegacySaveSplitsTheLastRun ==
    Spec => [][LastRunIsWhole /\ ~LastRunIsWhole'
               => \E w \in Writers : LegacyWrites(w) /\ writer[w].run \notin {0, last.run}]_vars
<1>1. Inv /\ [Next]_vars
      => [LastRunIsWhole /\ ~LastRunIsWhole'
          => \E w \in Writers : LegacyWrites(w) /\ writer[w].run \notin {0, last.run}]_vars
  BY LastStep
<1> QED BY <1>1, Always, PTL DEF Spec

\* Without legacy saves the Last Run's figures and the identity it is judged
\* fresh by belong to the same history entry, whatever is edited, selected,
\* archived or committed in between.
THEOREM LastRunStaysWhole ==
    ASSUME Writers = {}
    PROVE  Spec => []LastRunIsWhole
<1>1. Init => LastRunIsWhole
  BY DEF Init, LastRunIsWhole
<1>2. Inv /\ LastRunIsWhole /\ [Next]_vars => LastRunIsWhole'
  BY LastStep
<1> QED BY <1>1, <1>2, Always, PTL DEF Spec

----------------------------------------------------------------------------
(* What a step may never do.                                               *)

\* No step of an archived project changes its workbook.
LEMMA FrozenStep ==
    [Next]_vars /\ project.archived => UNCHANGED <<book, last, history, summary>>
<1> SUFFICES ASSUME [Next]_vars, project.archived
             PROVE  UNCHANGED <<book, last, history, summary>>
  OBVIOUS
<1>1. CASE UNCHANGED vars
  BY <1>1 DEF vars
<1>2. ASSUME NEW q \in Requests, RunStep(q)
      PROVE  UNCHANGED <<book, last, history, summary>>
  <2>1. ~Commit(q)
    BY DEF Commit, CommitAccepts, MayWrite
  <2>2. CASE Summarise(q)
    BY <2>2 DEF Summarise, MayWrite
  <2> QED BY <1>2, <2>1, <2>2 DEF RunStep, Load, CheckIdentity, ResolveScenario, FoldRows,
        Claim, Compute, EngineFails, CommitFails
<1>3. ASSUME NEW q \in Requests,
             Crash(q) \/ \E i \in Intents \union {NoIntent}, c \in Content : Begin(q, i, c)
      PROVE  UNCHANGED <<book, last, history, summary>>
  BY <1>3 DEF Crash, Begin
<1>4. CASE \/ \E s \in Scalars : EditDraft(s)
           \/ \E r \in RowSets : EditRows(r)
           \/ \E sc \in Scenarios, o \in Overrides : UpdateOverrides(sc, o)
           \/ \E sc \in Scenarios : SelectScenario(sc)
           \/ Archive \/ Unarchive
  BY <1>4 DEF EditDraft, EditRows, UpdateOverrides, SelectScenario, Archive, Unarchive
<1>5. ASSUME NEW w \in Writers,
             \/ DiscardReads(w) \/ (\E s \in Scalars : DraftReads(w, s))
             \/ LegacyMerges(w) \/ LegacyWrites(w)
      PROVE  UNCHANGED <<book, last, history, summary>>
  BY <1>5 DEF DiscardReads, DraftReads, LegacyMerges, LegacyWrites, MayWrite
<1> QED BY <1>1, <1>2, <1>3, <1>4, <1>5 DEF Next

\* While the project is archived nothing of the workbook, the runs or the
\* summaries changes, whatever was read before it was archived.
THEOREM ArchivedProjectsAreFrozen == Spec => ArchivedIsFrozen
<1>1. [Next]_vars => [project.archived => UNCHANGED <<book, last, history, summary>>]_vars
  BY FrozenStep
<1> QED BY <1>1, PTL DEF Spec, ArchivedIsFrozen

\* Only a commit extends the history.
LEMMA OnlyCommitsAppend ==
    ASSUME [Next]_vars
    PROVE  history' = history \/ \E q \in Requests : Commit(q)
<1>1. CASE UNCHANGED vars
  BY <1>1 DEF vars
<1>2. ASSUME NEW q \in Requests, RunStep(q)
      PROVE  history' = history \/ Commit(q)
  BY <1>2 DEF RunStep, Load, CheckIdentity, ResolveScenario, FoldRows, Claim, Compute,
     EngineFails, CommitFails, Summarise
<1>3. ASSUME NEW q \in Requests,
             Crash(q) \/ \E i \in Intents \union {NoIntent}, c \in Content : Begin(q, i, c)
      PROVE  history' = history
  BY <1>3 DEF Crash, Begin
<1>4. CASE \/ \E s \in Scalars : EditDraft(s)
           \/ \E r \in RowSets : EditRows(r)
           \/ \E sc \in Scenarios, o \in Overrides : UpdateOverrides(sc, o)
           \/ \E sc \in Scenarios : SelectScenario(sc)
           \/ Archive \/ Unarchive
  BY <1>4 DEF EditDraft, EditRows, UpdateOverrides, SelectScenario, Archive, Unarchive
<1>5. ASSUME NEW w \in Writers,
             \/ DiscardReads(w) \/ (\E s \in Scalars : DraftReads(w, s))
             \/ LegacyMerges(w) \/ LegacyWrites(w)
      PROVE  history' = history
  BY <1>5 DEF DiscardReads, DraftReads, LegacyMerges, LegacyWrites
<1> QED BY <1>1, <1>2, <1>3, <1>4, <1>5 DEF Next

\* The action NoCommitAcrossLifecycle asserts of a step.
CommitsInItsEpoch ==
    \A r \in DOMAIN history' \ DOMAIN history :
        job[history'[r].by].epoch = project.version

\* What a step appends was admitted in the present epoch.
LEMMA EpochStep == Inv /\ [Next]_vars => CommitsInItsEpoch
<1> SUFFICES ASSUME Inv, [Next]_vars, NEW r \in DOMAIN history' \ DOMAIN history
             PROVE  job[history'[r].by].epoch = project.version
  BY DEF CommitsInItsEpoch
<1>1. PICK q \in Requests : Commit(q)
  BY OnlyCommitsAppend
<1> DEFINE e == [by |-> q, hash |-> Identity(book), inputs |-> job[q].inputs,
                 ranAt |-> job[q].ranAt, quiet |-> job[q].quiet]
<1>2. history' = Append(history, e) /\ e.by = q /\ job[q].epoch = project.version
  BY <1>1 DEF Commit, CommitAccepts, MayWrite
<1> HIDE DEF e
<1>3. history \in Seq(Entry) /\ DOMAIN history = 1..Len(history) /\ Len(history) \in Nat
  BY LenProperties DEF Inv, TypeOK
<1>4. DOMAIN history' = 1..(Len(history) + 1) /\ history'[Len(history) + 1] = e
  BY <1>2, <1>3
<1>5. r = Len(history) + 1
  BY <1>3, <1>4
<1> QED BY <1>2, <1>4, <1>5

\* A request admitted before the project was archived or restored never
\* commits after it, not even when it was archived and restored in between.
THEOREM NoCommitCrossesTheLifecycle == Spec => NoCommitAcrossLifecycle
<1>1. Inv /\ [Next]_vars => [CommitsInItsEpoch]_vars
  BY EpochStep
<1> QED BY <1>1, Always, PTL DEF Spec, NoCommitAcrossLifecycle, CommitsInItsEpoch

----------------------------------------------------------------------------
(* The route implements RunOnce.                                           *)

\* A failure recorded for an intent is RunOnce's Fail.
LEMMA MarkFailedIsFail ==
    ASSUME NEW i \in Intents \union {NoIntent}, MarkFailed(i), UNCHANGED bound
    PROVE  [Once!Next]_(Once!vars)
<1>1. CASE UNCHANGED outcome
  BY <1>1 DEF Once!vars
<1>2. CASE i # NoIntent /\ outcome[i] = "OPEN" /\ SetOutcome(i, "FAILED")
  <2>1. Once!Fail(i)
    BY <1>2 DEF SetOutcome, Once!Fail
  <2>2. i \in Intents
    BY <1>2
  <2> QED BY <2>1, <2>2 DEF Once!Next
<1> QED BY <1>1, <1>2 DEF MarkFailed

\* The claim of an intent is RunOnce's Open.
LEMMA ClaimIsOpen ==
    ASSUME TypeOK, NEW q \in Requests, Claim(q)
    PROVE  [Once!Next]_(Once!vars)
<1> DEFINE i == job[q].intent
<1>1. i \in Intents \union {NoIntent} /\ UNCHANGED bound
  BY JobIs DEF Claim
<1>2. CASE UNCHANGED outcome
  BY <1>1, <1>2 DEF Once!vars
<1>3. CASE i # NoIntent /\ Claimable(i) /\ SetOutcome(i, "OPEN")
  <2>1. Once!Open(i)
    BY <1>1, <1>3 DEF Claimable, SetOutcome, Once!Open
  <2>2. i \in Intents
    BY <1>1, <1>3
  <2> QED BY <2>1, <2>2 DEF Once!Next
<1> QED BY <1>2, <1>3 DEF Claim

\* A commit binds its intent to the entry it appends: nobody else's, since
\* every other intent is bound to an older entry or to none.
LEMMA CommitIsCommit ==
    ASSUME Inv, NEW q \in Requests, Commit(q)
    PROVE  [Once!Next]_(Once!vars)
<1> DEFINE i == job[q].intent
           run == Len(history) + 1
<1>1. /\ TypeOK /\ Len(history) \in Nat /\ i \in Intents \union {NoIntent}
      /\ bound \in [Intents -> Nat]
  BY JobIs, LenProperties DEF Inv, TypeOK
<1>2. CASE i = NoIntent
  BY <1>2 DEF Commit, ledger, Once!vars
<1>3. CASE i # NoIntent
  <2>1. /\ outcome[i] = "OPEN" /\ outcome' = [outcome EXCEPT ![i] = "COMMITTED"]
        /\ bound' = [bound EXCEPT ![i] = run] /\ i \in Intents
    BY <1>1, <1>3 DEF Commit, SetOutcome
  <2>2. bound'[i] = run /\ run \in Nat \ {0}
    BY <1>1, <2>1
  <2>3. \A k \in Intents : bound[k] # run
    BY <1>1 DEF Inv
  <2>4. Once!Commit(i)
    BY <2>1, <2>2, <2>3 DEF Once!Commit
  <2> QED BY <2>1, <2>4 DEF Once!Next
<1> QED BY <1>2, <1>3

\* Every step of the workbook is a step of RunOnce or none.
LEMMA RouteStep == Inv /\ [Next]_vars => [Once!Next]_(Once!vars)
<1> SUFFICES ASSUME Inv, [Next]_vars
             PROVE  [Once!Next]_(Once!vars)
  OBVIOUS
<1>1. CASE UNCHANGED vars
  BY <1>1 DEF vars, Once!vars
<1>2. ASSUME NEW q \in Requests, Claim(q)
      PROVE  [Once!Next]_(Once!vars)
  BY <1>2, ClaimIsOpen DEF Inv
<1>3. ASSUME NEW q \in Requests, Commit(q)
      PROVE  [Once!Next]_(Once!vars)
  BY <1>3, CommitIsCommit
<1>4. ASSUME NEW q \in Requests, EngineFails(q) \/ CommitFails(q)
      PROVE  [Once!Next]_(Once!vars)
  <2>1. /\ job[q].intent \in Intents \union {NoIntent}
        /\ MarkFailed(job[q].intent) /\ UNCHANGED bound
    BY <1>4, JobIs DEF EngineFails, CommitFails, Inv
  <2> QED BY <2>1, MarkFailedIsFail
<1>5. ASSUME NEW q \in Requests,
             \/ \E i \in Intents \union {NoIntent}, c \in Content : Begin(q, i, c)
             \/ Load(q) \/ CheckIdentity(q) \/ ResolveScenario(q) \/ FoldRows(q)
             \/ Compute(q) \/ Summarise(q) \/ Crash(q)
      PROVE  UNCHANGED Once!vars
  BY <1>5 DEF Begin, Load, CheckIdentity, ResolveScenario, FoldRows, Compute, Summarise,
     Crash, ledger, Once!vars
<1>6. CASE \/ \E s \in Scalars : EditDraft(s)
           \/ \E r \in RowSets : EditRows(r)
           \/ \E sc \in Scenarios, o \in Overrides : UpdateOverrides(sc, o)
           \/ \E sc \in Scenarios : SelectScenario(sc)
           \/ Archive \/ Unarchive
  BY <1>6 DEF EditDraft, EditRows, UpdateOverrides, SelectScenario, Archive, Unarchive,
     ledger, Once!vars
<1>7. ASSUME NEW w \in Writers,
             \/ DiscardReads(w) \/ (\E s \in Scalars : DraftReads(w, s))
             \/ LegacyMerges(w) \/ LegacyWrites(w)
      PROVE  UNCHANGED Once!vars
  BY <1>7 DEF DiscardReads, DraftReads, LegacyMerges, LegacyWrites, ledger, Once!vars
<1> QED BY <1>1, <1>2, <1>3, <1>4, <1>5, <1>6, <1>7 DEF Next, RunStep

\* The route, with its crashes, failures, refused claims and answers after
\* the commit, opens an intent once, gives it one outcome and keeps the run
\* the intent is bound to.
THEOREM RouteUsesTheLedgerOnce == Spec => RouteImplementsRunOnce
<1>1. Init => Once!Init
  BY DEF Init, Once!Init
<1> QED BY <1>1, RouteStep, Always, PTL DEF Spec, RouteImplementsRunOnce, Once!Spec

----------------------------------------------------------------------------
(* The route implements AtomicWorkbook.                                    *)

\* The runs and the answers AtomicWorkbook sees.
RunsNow == [r \in 1..Len(history) |-> RunOf(history[r])]
AnswersNow == [q \in Requests |-> Told(q)]

RecordedNow(q) == \E r \in 1..Len(history) : history[r].by = q

\* The history is seen entry by entry.
LEMMA RunsNowIs ==
    ASSUME TypeOK
    PROVE  /\ RunsNow \in Seq(Atomic!Runs) /\ Len(RunsNow) = Len(history)
           /\ \A r \in 1..Len(history) : RunsNow[r] = RunOf(history[r])
<1>1. history \in Seq(Entry) /\ Len(history) \in Nat
  BY LenProperties DEF TypeOK
<1>2. ASSUME NEW r \in 1..Len(history)
      PROVE  RunOf(history[r]) \in Atomic!Runs
  <2>1. history[r] \in Entry /\ history[r].by \in Requests
    BY <1>1, EntryIs
  <2>2. job[history[r].by].intent \in Intents \union {NoIntent}
    BY <2>1, JobIs
  <2> QED BY <2>1, <2>2 DEF RunOf, Entry, Atomic!Runs
<1>3. RunsNow \in [1..Len(history) -> Atomic!Runs]
  BY <1>2 DEF RunsNow
<1>4. RunsNow \in Seq(Atomic!Runs)
  BY <1>1, <1>3, SeqDef
<1>5. 1..Len(RunsNow) = 1..Len(history) /\ Len(RunsNow) \in Nat
  BY <1>3, <1>4, LenProperties
<1> QED BY <1>1, <1>4, <1>5 DEF RunsNow

\* While the history stays and nobody in it changes intent, so does what is
\* seen of it.
LEMMA RunsKept ==
    ASSUME Inv, NEW q \in Requests, NEW v \in Job, Becomes(q, v), history' = history,
           Entered(job[q]) => v.intent = job[q].intent
    PROVE  RunsNow' = RunsNow
<1>1. ASSUME NEW r \in 1..Len(history)
      PROVE  RunOf(history[r])' = RunOf(history[r])
  <2>1. history[r].by \in Requests /\ Entered(job[history[r].by])
    BY EntryIs DEF Inv, TypeOK
  <2>2. job'[history[r].by].intent = job[history[r].by].intent
    BY <2>1 DEF Becomes
  <2> QED BY <2>2 DEF RunOf
<1> QED BY <1>1 DEF RunsNow

\* A step of one request changes what that one was told.
LEMMA AnswersMove ==
    ASSUME NEW q \in Requests, NEW v \in Job, Becomes(q, v)
    PROVE  AnswersNow' = [AnswersNow EXCEPT ![q] = Told(q)']
<1>1. ASSUME NEW p \in Requests, p # q
      PROVE  Told(p)' = Told(p)
  <2>1. job'[p] = job[p]
    BY <1>1 DEF Becomes
  <2> QED BY <2>1 DEF Told
<1> QED BY <1>1 DEF AnswersNow

\* Being recorded is seen as it is.
LEMMA RecordedIs ==
    ASSUME TypeOK, NEW q \in Requests
    PROVE  Atomic!Recorded(q) <=> RecordedNow(q)
<1>1. \A r \in 1..Len(history) : RunsNow[r].by = history[r].by
  BY DEF RunsNow, RunOf
<1>2. Len(RunsNow) = Len(history)
  BY RunsNowIs
<1> QED BY <1>1, <1>2 DEF Atomic!Recorded, RecordedNow, RunsNow

\* A step that nobody sees.
LEMMA SeenUnchanged ==
    ASSUME UNCHANGED <<Identity(book), last, RunsNow, project, AnswersNow>>
    PROVE  UNCHANGED Atomic!vars
BY DEF Atomic!vars, RunsNow, AnswersNow

\* A step in which one request goes on, or is told something true.
LEMMA RequestIsAtomic ==
    ASSUME Inv, NEW q \in Requests, NEW v \in Job, Becomes(q, v),
           UNCHANGED <<book, last, history, project>>,
           Entered(job[q]) => v.intent = job[q].intent,
           \/ Told(q)' = Told(q)
           \/ Told(q) = "idle" /\ Told(q)' = "asked"
           \/ /\ Told(q) \in {"idle", "asked"}
              /\ Told(q)' \in {"saved", "unsaved", "lost"}
              /\ Told(q)' = "saved" => RecordedNow(q)
              /\ Told(q)' = "unsaved" => ~RecordedNow(q)
    PROVE  [Atomic!Next]_(Atomic!vars)
<1>1. RunsNow' = RunsNow
  BY RunsKept
<1>2. AnswersNow' = [AnswersNow EXCEPT ![q] = Told(q)']
  BY AnswersMove
<1>3. Identity(book)' = Identity(book) /\ last' = last /\ (~project.archived)' = (~project.archived)
  BY DEF Identity
<1>4. AnswersNow[q] = Told(q) /\ AnswersNow \in [Requests -> {Told(p) : p \in Requests}]
  BY DEF AnswersNow
<1>5. CASE Told(q)' = Told(q)
  <2>1. AnswersNow' = AnswersNow
    BY <1>2, <1>4, <1>5
  <2> QED BY <1>1, <1>3, <2>1, SeenUnchanged
<1>6. CASE Told(q) = "idle" /\ Told(q)' = "asked"
  <2>1. Atomic!Ask(q)
    BY <1>1, <1>2, <1>3, <1>4, <1>6 DEF Atomic!Ask, RunsNow, AnswersNow
  <2> QED BY <2>1 DEF Atomic!Next
<1>7. CASE /\ Told(q) \in {"idle", "asked"}
           /\ Told(q)' \in {"saved", "unsaved", "lost"}
           /\ Told(q)' = "saved" => RecordedNow(q)
           /\ Told(q)' = "unsaved" => ~RecordedNow(q)
  <2>1. PICK a \in {"saved", "unsaved", "lost"} : a = Told(q)'
    BY <1>7
  <2>2. Atomic!Recorded(q) <=> RecordedNow(q)
    BY RecordedIs DEF Inv
  <2>3. Atomic!Answer(q, a)
    BY <1>1, <1>2, <1>3, <1>4, <1>7, <2>1, <2>2 DEF Atomic!Answer, RunsNow, AnswersNow
  <2> QED BY <2>1, <2>3 DEF Atomic!Next
<1> QED BY <1>5, <1>6, <1>7

\* A request that goes on is still asking.
LEMMA GoingOnIsAtomic ==
    ASSUME Inv, NEW q \in Requests, NEW v \in Job, Becomes(q, v),
           UNCHANGED <<book, last, history, project>>,
           job[q].pc \notin {"idle", "done"}, v.pc \notin {"idle", "done"},
           v.intent = job[q].intent
    PROVE  [Atomic!Next]_(Atomic!vars)
<1>1. Told(q) = "asked" /\ Told(q)' = "asked"
  BY DEF Told, Becomes
<1> QED BY <1>1, RequestIsAtomic

\* Who is not past the commit is not in the history.
LEMMA NotRecorded ==
    ASSUME Inv, NEW q \in Requests, ~Entered(job[q])
    PROVE  ~RecordedNow(q)
BY DEF Inv, RecordedNow

\* What an answer tells.
LEMMA ToldBy ==
    ASSUME TypeOK, NEW q \in Requests, NEW reply \in Replies, Answer(q, reply)
    PROVE  /\ reply = "COMMITTED" => Told(q)' = "saved"
           /\ reply \in {"REFUSED", "EXISTING"} => Told(q)' = "unsaved"
           /\ reply = "FAILED" => Told(q)' = IF CommitMayFail THEN "lost" ELSE "unsaved"
           /\ reply = "NONE" => Told(q)' = "lost"
<1>1. job[q] \in Job /\ job \in [Requests -> Job]
  BY DEF TypeOK
<1>2. job'[q].pc = "done" /\ job'[q].reply = reply
  BY <1>1 DEF Answer, Job
<1> QED BY <1>2 DEF Told

\* An answer is atomic when what it tells is true.
LEMMA AnswerIsAtomic ==
    ASSUME Inv, NEW q \in Requests, NEW reply \in Replies, Answer(q, reply),
           UNCHANGED <<book, last, history, project>>,
           job[q].pc \notin {"idle", "done"},
           reply = "COMMITTED" => RecordedNow(q),
           reply \in {"REFUSED", "EXISTING", "FAILED"} => ~RecordedNow(q)
    PROVE  [Atomic!Next]_(Atomic!vars)
<1>1. PICK v \in Job : Becomes(q, v) /\ v.intent = job[q].intent
  BY AnswerEffect DEF Moves, Inv
<1>2. Told(q) = "asked"
  BY DEF Told
<1>3. /\ Told(q)' \in {"saved", "unsaved", "lost"}
      /\ Told(q)' = "saved" => RecordedNow(q)
      /\ Told(q)' = "unsaved" => ~RecordedNow(q)
  BY ToldBy DEF Inv, Replies
<1> QED BY <1>1, <1>2, <1>3, RequestIsAtomic

\* The request is asked for, or refused or answered at once.
LEMMA BeginIsAtomic ==
    ASSUME Inv, NEW q \in Requests, NEW i \in Intents \union {NoIntent},
           NEW c \in Content, Begin(q, i, c)
    PROVE  [Atomic!Next]_(Atomic!vars)
<1> DEFINE known == i # NoIntent /\ outcome[i] # "NONE"
           pc == IF known \/ project.archived THEN "done" ELSE "admitted"
           reply == IF known THEN "EXISTING"
                    ELSE IF project.archived THEN "REFUSED" ELSE "NONE"
           v == [NewJob EXCEPT !.intent = i, !.hash = c, !.epoch = project.version,
                               !.pc = pc, !.reply = reply]
<1>1. TypeOK /\ project.version \in Nat /\ job[q].pc = "idle"
      /\ UNCHANGED <<book, last, history, project>>
  BY DEF Inv, TypeOK, Begin
<1>2. \/ pc = "done" /\ reply \in {"EXISTING", "REFUSED"}
      \/ pc = "admitted" /\ reply = "NONE"
  OBVIOUS
<1>3. job' = [job EXCEPT ![q] = v]
  BY DEF Begin
<1> HIDE DEF pc, reply
<1>4. v \in Job /\ v.pc = pc /\ v.reply = reply
  BY <1>1, <1>2, NewJobIs DEF Job, JobPcs, Replies
<1> HIDE DEF v
<1>5. Becomes(q, v)
  BY <1>1, <1>3, <1>4, JobEffect
<1>6. /\ Told(q) = "idle"
      /\ \/ Told(q)' = "asked"
         \/ Told(q)' = "unsaved" /\ ~RecordedNow(q)
  <2>1. job'[q].pc = pc /\ job'[q].reply = reply
    BY <1>4, <1>5 DEF Becomes
  <2>2. ~RecordedNow(q)
    BY <1>1, NotRecorded DEF Entered
  <2> QED BY <1>1, <1>2, <2>1, <2>2 DEF Told
<1>7. ~Entered(job[q])
  BY <1>1 DEF Entered
<1> QED BY <1>1, <1>4, <1>5, <1>6, <1>7, RequestIsAtomic

\* Reading, claiming and calculating are seen by nobody; a refusal on the
\* way is true.
LEMMA ReadingIsAtomic ==
    ASSUME Inv, NEW q \in Requests,
           Load(q) \/ CheckIdentity(q) \/ ResolveScenario(q) \/ FoldRows(q)
           \/ Claim(q) \/ Compute(q)
    PROVE  [Atomic!Next]_(Atomic!vars)
<1>1. /\ UNCHANGED <<book, last, history, project>>
      /\ job[q].pc \in JobPcs \ {"idle", "done"} /\ ~Entered(job[q])
  BY DEF Load, CheckIdentity, ResolveScenario, FoldRows, Claim, Compute, JobPcs, Entered
<1>2. ~RecordedNow(q) /\ TypeOK /\ job \in [Requests -> Job] /\ job[q] \in Job
  BY <1>1, NotRecorded DEF Inv, TypeOK
<1>3. \/ \E reply \in {"REFUSED", "EXISTING", "NONE"} : Answer(q, reply)
      \/ \E v \in Job : /\ Becomes(q, v) /\ v.pc \notin {"idle", "done"}
                        /\ v.intent = job[q].intent
  <2>1. ASSUME NEW pc \in JobPcs \ {"idle", "done"}, Goto(q, pc)
        PROVE  \E v \in Job : /\ Becomes(q, v) /\ v.pc \notin {"idle", "done"}
                              /\ v.intent = job[q].intent
    BY <1>2, <2>1, GotoEffect DEF Moves
  <2>2. CASE CheckIdentity(q) \/ Claim(q)
    BY <2>1, <2>2 DEF CheckIdentity, Claim, JobPcs
  <2>3. CASE Load(q) \/ ResolveScenario(q) \/ FoldRows(q) \/ Compute(q)
    <3>1. job' \in [Requests -> Job]
      BY <2>3, LoadKeeps, ResolveKeeps, FoldKeeps, ComputeKeeps DEF Inv, TypeOK
    <3>2. \A p \in Requests : p # q => job'[p] = job[p]
      BY <1>2, <2>3 DEF Load, ResolveScenario, FoldRows, Compute
    <3>3. /\ job'[q].pc \in {"loaded", "resolved", "folded", "computed"}
          /\ job'[q].intent = job[q].intent
      <4>1. CASE Load(q)
        BY <1>2, <4>1 DEF Load, Job
      <4>2. CASE ResolveScenario(q)
        BY <1>2, <4>2 DEF ResolveScenario, Job
      <4>3. CASE FoldRows(q)
        BY <1>2, <4>3 DEF FoldRows, Job
      <4>4. CASE Compute(q)
        BY <1>2, <4>4 DEF Compute, Job
      <4> QED BY <2>3, <4>1, <4>2, <4>3, <4>4
    <3>4. Becomes(q, job'[q]) /\ job'[q] \in Job
      BY <3>1, <3>2 DEF Becomes
    <3> QED BY <3>3, <3>4
  <2> QED BY <2>2, <2>3
<1>4. CASE \E reply \in {"REFUSED", "EXISTING", "NONE"} : Answer(q, reply)
  BY <1>1, <1>2, <1>4, AnswerIsAtomic DEF Replies
<1>5. CASE \E v \in Job : /\ Becomes(q, v) /\ v.pc \notin {"idle", "done"}
                          /\ v.intent = job[q].intent
  BY <1>1, <1>5, GoingOnIsAtomic
<1> QED BY <1>3, <1>4, <1>5

\* A failure before the commit saved nothing, a request that dies tells
\* nothing, and the answer after the summary is true.
LEMMA EndIsAtomic ==
    ASSUME Inv, NEW q \in Requests,
           EngineFails(q) \/ CommitFails(q) \/ Summarise(q) \/ Crash(q)
    PROVE  [Atomic!Next]_(Atomic!vars)
<1>1. UNCHANGED <<book, last, history, project>> /\ job[q].pc \notin {"idle", "done"}
  BY DEF EngineFails, CommitFails, Summarise, Crash
<1>2. CASE EngineFails(q) \/ CommitFails(q)
  <2>1. Answer(q, "FAILED") /\ ~Entered(job[q])
    BY <1>2 DEF EngineFails, CommitFails, Entered
  <2> QED BY <1>1, <2>1, NotRecorded, AnswerIsAtomic DEF Replies
<1>3. CASE Summarise(q)
  <2>1. Answer(q, "COMMITTED") /\ RecordedNow(q)
    BY <1>3 DEF Summarise, Inv, RecordedNow
  <2> QED BY <1>1, <2>1, AnswerIsAtomic DEF Replies
<1>4. CASE Crash(q)
  <2>1. Answer(q, "NONE")
    BY <1>4 DEF Crash
  <2> QED BY <1>1, <2>1, AnswerIsAtomic DEF Replies
<1> QED BY <1>2, <1>3, <1>4

\* A sequence given entry by entry that extends another by one.
LEMMA OneMore ==
    ASSUME NEW S, NEW n \in Nat, NEW f \in [1..n -> S], NEW g \in [1..(n + 1) -> S],
           \A k \in 1..n : g[k] = f[k]
    PROVE  g = Append(f, g[n + 1]) /\ Len(f) = n
<1>1. f \in Seq(S) /\ g \in Seq(S)
  BY SeqDef
<1>2. Len(f) = n /\ Len(g) = n + 1
  <2>1. Len(f) \in Nat /\ 1..Len(f) = 1..n
    BY <1>1, LenProperties
  <2>2. Len(g) \in Nat /\ 1..Len(g) = 1..(n + 1)
    BY <1>1, LenProperties
  <2> QED BY <2>1, <2>2
<1> DEFINE e == g[n + 1]
           h == Append(f, e)
<1>3. e \in S
  OBVIOUS
<1>4. /\ h \in Seq(S) /\ Len(h) = n + 1
      /\ \A k \in 1..n : h[k] = f[k]
      /\ h[n + 1] = e
  BY <1>1, <1>2, <1>3, AppendProperties
<1>5. \A k \in 1..Len(g) : g[k] = h[k]
  BY <1>2, <1>4
<1> HIDE DEF h
<1>6. g = h
  BY <1>1, <1>2, <1>4, <1>5, SeqEqual
<1> QED BY <1>2, <1>6 DEF h

\* The commit is the instant a request has its Run.
LEMMA CommitIsAtomic ==
    ASSUME Inv, NEW q \in Requests, Commit(q)
    PROVE  [Atomic!Next]_(Atomic!vars)
<1> DEFINE i == job[q].intent
           n == Len(history)
           e == [by |-> q, hash |-> Identity(book), inputs |-> job[q].inputs,
                 ranAt |-> job[q].ranAt, quiet |-> job[q].quiet]
           run == [by |-> q, intent |-> i, hash |-> Identity(book),
                   inputs |-> job[q].inputs, quiet |-> job[q].quiet]
           c == Identity(book')
<1>1. /\ TypeOK /\ book \in Book /\ history \in Seq(Entry) /\ n \in Nat
      /\ AsRead(job[q]) /\ job[q].pc = "computed" /\ Identity(book) = job[q].hash
      /\ i \in Intents \union {NoIntent} /\ (i # NoIntent => outcome[i] = "OPEN")
      /\ ~project.archived /\ project' = project
  BY JobIs, LenProperties DEF Inv, TypeOK, Commit, CommitAccepts, MayWrite
<1>2. /\ book' = [book EXCEPT !.saved = book.draft, !.dirty = FALSE,
                              !.active = job[q].inputs.scenario]
      /\ last' = [run |-> n + 1, hash |-> Identity(book)]
      /\ history' = Append(history, e)
  BY DEF Commit
<1>3. Identity(book) \in Content /\ run \in Atomic!Runs /\ e \in Entry
  BY <1>1, IdentityIs, JobIs DEF Atomic!Runs, Entry
<1>4. /\ Len(history') = n + 1 /\ history'[n + 1] = e
      /\ \A r \in 1..n : history'[r] = history[r]
  BY <1>1, <1>2, <1>3, AppendProperties
<1>5. /\ book' \in Book /\ c \in Content /\ c.scenario = job[q].inputs.scenario
      /\ job[q].quiet => c = Identity(book) /\ job[q].inputs = Identity(book)
  <2>1. job[q].inputs.scenario \in Scenarios
    BY <1>1, JobIs DEF Content
  <2>2. /\ book' \in Book /\ book'.draft = book.draft /\ book'.rows = book.rows
        /\ book'.active = job[q].inputs.scenario /\ book'.overrides = book.overrides
    BY <1>1, <1>2, <2>1 DEF Book
  <2>3. c \in Content /\ c.scenario = job[q].inputs.scenario
    BY <2>2, IdentityIs
  <2>4. job[q].quiet => job[q].inputs = Identity(book)
    BY <1>1 DEF AsRead
  <2>5. job[q].quiet => book'.active = book.active
    BY <1>1, <2>2, <2>4, IdentityIs
  <2> QED BY <2>2, <2>3, <2>4, <2>5 DEF Identity
<1>6. PICK v \in Job : Becomes(q, v) /\ v.intent = i
  <2>1. CASE Goto(q, "committed")
    BY <1>1, <2>1, GotoEffect DEF JobPcs, Moves
  <2>2. CASE Answer(q, "FAILED")
    BY <1>1, <2>2, AnswerEffect DEF Replies, Moves
  <2> QED BY <2>1, <2>2 DEF Commit
<1>7. ~RecordedNow(q) /\ ~Atomic!Recorded(q)
  BY <1>1, NotRecorded, RecordedIs DEF Entered
<1>8. RunsNow' = Append(RunsNow, run) /\ Len(RunsNow) = n
  <2> DEFINE f == RunsNow
             g == [r \in 1..(n + 1) |-> RunOf(history[r])']
  <2>1. RunsNow' = g
    BY <1>4 DEF RunsNow, RunOf
  <2>2. g[n + 1] = run
    <3>1. job'[q].intent = i
      BY <1>6 DEF Becomes
    <3> QED BY <1>1, <1>4, <3>1 DEF RunOf
  <2>3. ASSUME NEW r \in 1..n
        PROVE  g[r] = f[r] /\ f[r] \in Atomic!Runs
    <3>1. history[r].by \in Requests /\ history[r].by # q
      BY <1>1, <1>7, EntryIs DEF RecordedNow
    <3>2. job'[history[r].by] = job[history[r].by]
      BY <1>6, <3>1 DEF Becomes
    <3>3. g[r] = RunOf(history[r])
      BY <1>1, <1>4, <3>2 DEF RunOf
    <3>4. f[r] = RunOf(history[r])
      BY DEF RunsNow
    <3>5. RunsNow[r] \in Atomic!Runs
      <4>1. RunsNow \in Seq(Atomic!Runs) /\ Len(RunsNow) = n
        BY <1>1, RunsNowIs
      <4> QED BY <4>1, ElementOfSeq
    <3> QED BY <3>3, <3>4, <3>5
  <2>4. f \in [1..n -> Atomic!Runs]
    BY <2>3 DEF RunsNow
  <2>5. g \in [1..(n + 1) -> Atomic!Runs]
    <3>1. ASSUME NEW r \in 1..(n + 1)
          PROVE  g[r] \in Atomic!Runs
      <4>1. CASE r = n + 1
        BY <1>3, <2>2, <4>1
      <4>2. CASE r \in 1..n
        BY <2>3, <4>2
      <4> QED BY <1>1, <4>1, <4>2
    <3> QED BY <3>1
  <2>6. \A r \in 1..n : g[r] = f[r]
    BY <2>3
  <2> HIDE DEF f, g
  <2>7. g = Append(f, g[n + 1]) /\ Len(f) = n
    BY <1>1, <2>4, <2>5, <2>6, OneMore
  <2> QED BY <2>1, <2>2, <2>7 DEF f
<1>9. /\ AnswersNow[q] = "asked"
      /\ \/ AnswersNow' = AnswersNow
         \/ AnswersNow' = [AnswersNow EXCEPT ![q] = "lost"]
  <2>1. Told(q) = "asked"
    BY <1>1 DEF Told
  <2>2. AnswersNow' = [AnswersNow EXCEPT ![q] = Told(q)']
    BY <1>6, AnswersMove
  <2>3. CASE Goto(q, "committed")
    <3>1. job'[q].pc = "committed"
      BY <1>1, <2>3, GotoEffect DEF JobPcs, Moves, Becomes
    <3>2. Told(q)' = Told(q)
      BY <2>1, <3>1 DEF Told
    <3> QED BY <2>1, <2>2, <3>2 DEF AnswersNow
  <2>4. CASE CommitMayFail /\ Answer(q, "FAILED")
    BY <1>1, <2>1, <2>2, <2>4, ToldBy DEF AnswersNow, Replies
  <2> QED BY <2>3, <2>4 DEF Commit
<1>10. ASSUME i # NoIntent, NEW r \in 1..n
       PROVE  RunsNow[r].intent # i
  <2>1. history[r].by \in Requests /\ RunsNow[r].intent = job[history[r].by].intent
    BY <1>1, EntryIs DEF RunsNow, RunOf
  <2>2. job[history[r].by].intent # NoIntent
        => outcome[job[history[r].by].intent] = "COMMITTED"
    BY DEF Inv, IntentNamesItsRun
  <2> QED BY <1>1, <1>10, <2>1, <2>2
<1>11. Atomic!Run(q, run, c)
  <2>1. /\ run.by = q /\ run.hash = Identity(book) /\ run.intent = i
        /\ run.inputs = job[q].inputs /\ run.quiet = job[q].quiet
    OBVIOUS
  <2> HIDE DEF run, c
  <2>2. c = Identity(book)'
    BY DEF c
  <2>3. ~project.archived /\ AnswersNow[q] = "asked" /\ ~Atomic!Recorded(q)
    BY <1>1, <1>7, <1>9
  <2>4. run.quiet => run.inputs = Identity(book) /\ c = Identity(book)
    BY <1>5, <2>1
  <2>5. run.intent # NoIntent => \A r \in 1..Len(RunsNow) : RunsNow[r].intent # run.intent
    BY <1>8, <1>10, <2>1
  <2>6. /\ RunsNow' = Append(RunsNow, run)
        /\ last' = [run |-> Len(RunsNow) + 1, hash |-> Identity(book)]
    BY <1>2, <1>8
  <2>7. c.scenario = run.inputs.scenario /\ Identity(book)' = c
    BY <1>5, <2>1, <2>2
  <2>8. (~project.archived)' = ~project.archived
    BY <1>1
  <2>9. \/ UNCHANGED AnswersNow
        \/ AnswersNow' = [AnswersNow EXCEPT ![q] = "lost"]
    BY <1>9
  <2> QED BY <2>1, <2>3, <2>4, <2>5, <2>6, <2>7, <2>8, <2>9
        DEF Atomic!Run, RunsNow, AnswersNow
<1>12. run \in Atomic!Runs /\ c \in Content
  BY <1>3, <1>5
<1> HIDE DEF run, c
<1> QED BY <1>11, <1>12 DEF Atomic!Next

\* The other writers leave the runs and the answers.
LEMMA WritersSeen ==
    ASSUME UNCHANGED <<history, job>>
    PROVE  RunsNow' = RunsNow /\ AnswersNow' = AnswersNow
BY DEF RunsNow, RunOf, AnswersNow, Told

\* An edit edits, or shows nothing.
LEMMA EditIsAtomic ==
    ASSUME Inv, \/ \E s \in Scalars : EditDraft(s)
                \/ \E r \in RowSets : EditRows(r)
                \/ \E sc \in Scenarios, o \in Overrides : UpdateOverrides(sc, o)
    PROVE  [Atomic!Next]_(Atomic!vars)
<1>1. ~project.archived /\ UNCHANGED <<history, job, last, project>>
  BY DEF EditDraft, EditRows, UpdateOverrides
<1>2. book \in Book /\ book' \in Book /\ book'.active = book.active
  <2>1. book \in Book
    BY DEF Inv, TypeOK
  <2>2. CASE \E s \in Scalars : EditDraft(s)
    BY <2>1, <2>2 DEF EditDraft, Book
  <2>3. CASE \E r \in RowSets : EditRows(r)
    BY <2>1, <2>3 DEF EditRows, Book
  <2>4. CASE \E sc \in Scenarios, o \in Overrides : UpdateOverrides(sc, o)
    BY <2>1, <2>4 DEF UpdateOverrides, Book
  <2> QED BY <2>1, <2>2, <2>3, <2>4
<1>3. PICK c \in Content : c = Identity(book)' /\ c.scenario = Identity(book).scenario
  BY <1>2, IdentityIs
<1>4. Atomic!Edit(c)
  BY <1>1, <1>3, WritersSeen DEF Atomic!Edit, RunsNow, AnswersNow
<1> QED BY <1>3, <1>4 DEF Atomic!Next

\* Selecting a scenario shows a run of it or none.
LEMMA SelectIsAtomic ==
    ASSUME Inv, NEW sc \in Scenarios, SelectScenario(sc)
    PROVE  [Atomic!Next]_(Atomic!vars)
<1> DEFINE run == NewestRun(sc)
<1>1. /\ ~project.archived /\ UNCHANGED <<history, job, project>>
      /\ TypeOK /\ Len(history) \in Nat /\ history \in Seq(Entry)
  BY LenProperties DEF SelectScenario, Inv, TypeOK
<1>2. \/ run = 0
      \/ run \in 1..Len(history) /\ history[run].inputs.scenario = sc
  BY NewestRunIs DEF Inv, TypeOK, RunsOf
<1>3. book' \in Book /\ book'.active = sc
  <2>1. book \in Book /\ book' \in Book
    BY SelectScenarioKeeps DEF Inv, TypeOK
  <2> QED BY <2>1 DEF SelectScenario, Book
<1>4. last' = IF run = 0 THEN [last EXCEPT !.run = 0]
              ELSE [run |-> run, hash |-> history[run].hash]
  BY DEF SelectScenario, Restored
<1> HIDE DEF run
<1>5. PICK c \in Content : c = Identity(book)' /\ c.scenario = sc
  BY <1>3, IdentityIs
<1>6. Len(RunsNow) = Len(history) /\ run \in 0..Len(RunsNow)
  BY <1>1, <1>2, RunsNowIs
<1>7. run # 0 => RunsNow[run].inputs.scenario = sc /\ RunsNow[run].hash = history[run].hash
  BY <1>2 DEF RunsNow, RunOf
<1>8. Atomic!Select(c, run)
  BY <1>1, <1>4, <1>5, <1>7, WritersSeen DEF Atomic!Select, RunsNow, AnswersNow
<1> QED BY <1>5, <1>6, <1>8 DEF Atomic!Next, RunsNow

\* A legacy save puts back a run there is.
LEMMA LegacyIsAtomic ==
    ASSUME Inv, NEW w \in Writers, LegacyWrites(w)
    PROVE  [Atomic!Next]_(Atomic!vars)
<1> DEFINE run == writer[w].run
<1>1. /\ UNCHANGED <<history, job, project>> /\ TypeOK /\ Len(history) \in Nat
      /\ run \in Nat /\ run <= Len(history) /\ book' \in Book
  <2>1. book' \in Book
    BY LegacyWritesKeeps DEF Inv, TypeOK
  <2> QED BY <2>1, LenProperties DEF LegacyWrites, Inv, TypeOK, Writer
<1>2. CASE MayWrite(writer[w].epoch)
  <2>1. ~project.archived /\ last' = [last EXCEPT !.run = run]
    BY <1>2 DEF LegacyWrites, MayWrite
  <2>2. PICK c \in Content : c = Identity(book)'
    BY <1>1, IdentityIs
  <2>3. run \in 0..Len(RunsNow)
    BY <1>1, RunsNowIs
  <2> HIDE DEF run
  <2>4. Atomic!PutBack(c, run)
    BY <1>1, <2>1, <2>2, WritersSeen DEF Atomic!PutBack, RunsNow, AnswersNow
  <2> QED BY <2>2, <2>3, <2>4 DEF Atomic!Next, RunsNow
<1>3. CASE ~MayWrite(writer[w].epoch)
  <2>1. UNCHANGED <<book, last>>
    BY <1>3 DEF LegacyWrites
  <2> QED BY <1>1, <2>1, WritersSeen, SeenUnchanged DEF Identity
<1> QED BY <1>2, <1>3

\* Every step of the workbook is a step of AtomicWorkbook or none.
LEMMA AtomicStep == Inv /\ [Next]_vars => [Atomic!Next]_(Atomic!vars)
<1> SUFFICES ASSUME Inv, [Next]_vars
             PROVE  [Atomic!Next]_(Atomic!vars)
  OBVIOUS
<1>1. CASE UNCHANGED <<book, last, history, job, project>>
  BY <1>1, WritersSeen, SeenUnchanged DEF Identity
<1>2. ASSUME NEW q \in Requests, NEW i \in Intents \union {NoIntent}, NEW c \in Content,
             Begin(q, i, c)
      PROVE  [Atomic!Next]_(Atomic!vars)
  BY <1>2, BeginIsAtomic
<1>3. ASSUME NEW q \in Requests, RunStep(q) \/ Crash(q)
      PROVE  [Atomic!Next]_(Atomic!vars)
  BY <1>3, ReadingIsAtomic, CommitIsAtomic, EndIsAtomic DEF RunStep
<1>4. CASE \/ \E s \in Scalars : EditDraft(s)
           \/ \E r \in RowSets : EditRows(r)
           \/ \E sc \in Scenarios, o \in Overrides : UpdateOverrides(sc, o)
  BY <1>4, EditIsAtomic
<1>5. CASE \E sc \in Scenarios : SelectScenario(sc)
  BY <1>5, SelectIsAtomic
<1>6. CASE Archive \/ Unarchive
  <2>1. /\ (~project.archived)' = ~(~project.archived)
        /\ UNCHANGED <<Identity(book), last, history, job>>
    BY <1>6 DEF Archive, Unarchive, Identity
  <2>2. Atomic!Archive
    BY <2>1, WritersSeen DEF Atomic!Archive, RunsNow, AnswersNow
  <2> QED BY <2>2 DEF Atomic!Next
<1>7. ASSUME NEW w \in Writers,
             \/ DiscardReads(w) \/ (\E s \in Scalars : DraftReads(w, s))
             \/ LegacyMerges(w)
      PROVE  [Atomic!Next]_(Atomic!vars)
  BY <1>7, <1>1 DEF DiscardReads, DraftReads, LegacyMerges
<1>8. ASSUME NEW w \in Writers, LegacyWrites(w)
      PROVE  [Atomic!Next]_(Atomic!vars)
  BY <1>8, LegacyIsAtomic
<1>9. CASE UNCHANGED vars
  BY <1>1, <1>9 DEF vars
<1> QED BY <1>2, <1>3, <1>4, <1>5, <1>6, <1>7, <1>8, <1>9 DEF Next

\* The project starts as an empty AtomicWorkbook.
LEMMA AtomicInit == Init => Atomic!Init
<1> SUFFICES ASSUME Init
             PROVE  Atomic!Init
  OBVIOUS
<1>1. book \in Book /\ Identity(book) \in Content
  <2>1. book \in Book
    BY DEF Init, Book
  <2> QED BY <2>1, IdentityIs
<1>2. Len(history) = 0 /\ RunsNow = <<>>
  BY EmptySeq DEF Init, RunsNow
<1>3. AnswersNow = [q \in Requests |-> "idle"]
  BY NewJobIs DEF Init, AnswersNow, Told
<1>4. last \in [run : {0}, hash : Content] /\ (~project.archived) = TRUE
  BY NoContentIs DEF Init
<1> QED BY <1>1, <1>2, <1>3, <1>4 DEF Atomic!Init, RunsNow, AnswersNow

\* For any number of Runs, intents and legacy saves, and whatever fails,
\* dies or edits between the route's four reads and its commit: a Run is
\* recorded in one instant or not at all, of the content the workbook has in
\* that instant, once per intent, and the answers are true.
THEOREM RouteBehavesAtomically == Spec => RouteIsAtomic
BY AtomicInit, AtomicStep, Always, PTL DEF Spec, RouteIsAtomic, Atomic!Spec
=============================================================================
