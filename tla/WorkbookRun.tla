---------------------------- MODULE WorkbookRun ----------------------------
(***************************************************************************)
(* One project's workbook and everything that writes it while Runs are     *)
(* under way: the Run route (app/v2/router.py, v2_workbook_run), the       *)
(* atomic commit (app/persistence/workspace_repository.py), the CAS edits, *)
(* scenario overrides and selection, the legacy draft and discard saves,   *)
(* and the project's archive and restore.                                  *)
(*                                                                         *)
(* The Run route reads the workspace, the composite identity, the scenario *)
(* and the cost rows in four transactions of their own, calculates for     *)
(* seconds, and commits in one more; each of them is an action, and every  *)
(* other writer may run in between.  An identity hash is modelled by the   *)
(* content it is a digest of, and the deterministic engine's result by the *)
(* inputs it was given.  The intent ledger is taken at the level of        *)
(* RunOnce, which RunIntent implements.                                    *)
(***************************************************************************)
EXTENDS Naturals, Sequences, FiniteSets

CONSTANTS
    Requests,       \* Run requests; each is made once
    Intents,        \* run_intent_id values clients use
    NoIntent,       \* a Run submitted without an intent id
    Writers,        \* legacy draft/discard requests; each is made once
    Scalars,        \* values of the draft snapshot
    RowSets,        \* values of the CAPEX and OPEX rows
    Scenarios,
    Overrides,      \* values of a scenario's overrides
    MaxEdits,       \* bound: changes of the workbook's content
    MaxVersion,     \* bound: lifecycle transitions of the project
    CommitMayFail   \* whether v2_atomic_run_commit may raise after COMMIT

ASSUME WorkbookAssumption ==
    /\ NoIntent \notin Intents
    /\ Scalars # {} /\ RowSets # {} /\ Scenarios # {} /\ Overrides # {}
    /\ MaxEdits \in Nat /\ MaxVersion \in Nat
    /\ CommitMayFail \in BOOLEAN

VARIABLES
    book,       \* workspace_states, the cost rows and the scenarios
    last,       \* the workspace's Last Run: [run, hash]
    history,    \* model_run_history
    summary,    \* scenarios.last_run_summary: scenario -> [run, overrides]
    project,    \* [archived, version]: projects.archived, lifecycle_version
    outcome,    \* the ledger: intent -> NONE, OPEN, FAILED or COMMITTED
    bound,      \* the ledger: intent -> history id, 0 for NULL
    job,        \* what each Run request has read and is doing
    writer,     \* what each legacy save has read and is doing
    edits,      \* how often the workbook's content was changed
    finished    \* how many calculations returned; orders ran_at

ledger == <<outcome, bound>>
vars == <<book, last, history, summary, project, outcome, bound, job, writer,
          edits, finished>>

----------------------------------------------------------------------------
(* The data.                                                               *)

Content == [scalar : Scalars, rows : RowSets, scenario : Scenarios,
            overrides : Overrides]

Book == [draft : Scalars, saved : Scalars, dirty : BOOLEAN, rows : RowSets,
         active : Scenarios, overrides : [Scenarios -> Overrides]]

\* assemble_transactional: the composite identity of a workbook.
Identity(b) == [scalar |-> b.draft, rows |-> b.rows, scenario |-> b.active,
                overrides |-> b.overrides[b.active]]

NoContent == CHOOSE c \in Content : TRUE

\* inputs: what the engine was given.  hash: what the entry says it was
\* given.  quiet: nothing was edited while the inputs were read.
Entry == [by : Requests, hash : Content, inputs : Content, ranAt : Nat,
          quiet : BOOLEAN]

JobPcs == {"idle", "admitted", "loaded", "checked", "resolved", "folded",
           "started", "computed", "committed", "done"}

Replies == {"NONE", "REFUSED", "EXISTING", "FAILED", "COMMITTED"}

\* hash: the content the user saw and submitted.  inputs: what was read so
\* far.  since: the edit counter when the first of it was read.
Job == [pc : JobPcs, intent : Intents \cup {NoIntent}, hash : Content,
        epoch : Nat, inputs : Content, since : Nat, quiet : BOOLEAN,
        ranAt : Nat, reply : Replies]

NewJob == [pc |-> "idle", intent |-> NoIntent, hash |-> NoContent,
           epoch |-> 0, inputs |-> NoContent, since |-> 0, quiet |-> TRUE,
           ranAt |-> 0, reply |-> "NONE"]

WriterPcs == {"idle", "read", "merged", "done"}

\* run is the Last Run the save will write, 0 while it has none.
Writer == [pc : WriterPcs, draft : Scalars, saved : Scalars,
           active : Scenarios, run : Nat, epoch : Nat]

NewWriter == [pc |-> "idle", draft |-> CHOOSE s \in Scalars : TRUE,
              saved |-> CHOOSE s \in Scalars : TRUE,
              active |-> CHOOSE s \in Scenarios : TRUE,
              run |-> 0, epoch |-> 0]

----------------------------------------------------------------------------
(* Helpers.                                                                *)

\* Faulty fences: none at all; one that forgets the lifecycle epoch.
Unfenced(epoch) == TRUE
FencedByStatus(epoch) == ~project.archived

\* The write fences and require_write_cursor: the project is not archived
\* and is in the lifecycle epoch the request was admitted in.
MayWrite(epoch) == ~project.archived /\ project.version = epoch

Edit == edits < MaxEdits /\ edits' = edits + 1

Goto(q, pc) == job' = [job EXCEPT ![q].pc = pc]

Answer(q, reply) ==
    job' = [job EXCEPT ![q].pc = "done", ![q].reply = reply]

SetOutcome(i, o) == outcome' = [outcome EXCEPT ![i] = o]

\* The runs of a scenario, and the newest of them by ran_at (0 for none).
RunsOf(sc) == {r \in 1..Len(history) : history[r].inputs.scenario = sc}

NewestRun(sc) ==
    IF RunsOf(sc) = {} THEN 0
    ELSE CHOOSE r \in RunsOf(sc) :
            \A s \in RunsOf(sc) : history[s].ranAt <= history[r].ranAt

\* Faulty: the run is restored, the hash it is judged by is not.
HalfRestored(run) == [run |-> run, hash |-> last.hash]

\* _restore_scenario_last_run: a run becomes the Last Run again.
Restored(run) == [run |-> run, hash |-> history[run].hash]

\* Faulty: the claim replaces a row of any state; one of a failed attempt.
AlwaysClaimable(i) == TRUE
RetryClaimable(i) == outcome[i] \in {"NONE", "FAILED"}

\* reserve(): the INSERT finds no row of the intent.
Claimable(i) == outcome[i] = "NONE"

----------------------------------------------------------------------------
Init ==
    /\ \E s \in Scalars, r \in RowSets, sc \in Scenarios, o \in Overrides :
         book = [draft |-> s, saved |-> s, dirty |-> FALSE, rows |-> r,
                 active |-> sc, overrides |-> [x \in Scenarios |-> o]]
    /\ last = [run |-> 0, hash |-> NoContent]
    /\ history = <<>>
    /\ summary = [sc \in Scenarios |-> [run |-> 0, overrides |-> NoContent.overrides]]
    /\ project = [archived |-> FALSE, version |-> 0]
    /\ outcome = [i \in Intents |-> "NONE"]
    /\ bound = [i \in Intents |-> 0]
    /\ job = [q \in Requests |-> NewJob]
    /\ writer = [w \in Writers |-> NewWriter]
    /\ edits = 0
    /\ finished = 0

----------------------------------------------------------------------------
(* The Run route.                                                          *)

(* Steps 1-2: the project is resolved (which admits its epoch), a known    *)
(* intent is answered from the ledger, an archived project is refused.     *)
(* c is the content of the page the user submits, however old it is.       *)
Begin(q, i, c) ==
    /\ job[q].pc = "idle"
    /\ job' = [job EXCEPT ![q] =
          [NewJob EXCEPT !.intent = i, !.hash = c, !.epoch = project.version,
             !.pc = IF \/ i # NoIntent /\ outcome[i] # "NONE"
                       \/ project.archived THEN "done" ELSE "admitted",
             !.reply = IF i # NoIntent /\ outcome[i] # "NONE" THEN "EXISTING"
                       ELSE IF project.archived THEN "REFUSED" ELSE "NONE"]]
    /\ UNCHANGED <<book, last, history, summary, project, ledger, writer,
                   edits, finished>>

(* Step 2: ws = get_workspace_state(...): the draft and active scenario.   *)
Load(q) ==
    /\ job[q].pc = "admitted"
    /\ job' = [job EXCEPT ![q] =
          [@ EXCEPT !.pc = "loaded", !.since = edits,
             !.inputs.scalar = book.draft, !.inputs.scenario = book.active]]
    /\ UNCHANGED <<book, last, history, summary, project, ledger, writer,
                   edits, finished>>

(* Step 5: the identity of the workbook as it is now must be the submitted *)
(* one; it is assembled by a transaction of its own, not from ws.          *)
CheckIdentity(q) ==
    /\ job[q].pc = "loaded"
    /\ IF Identity(book) = job[q].hash
       THEN Goto(q, "checked") ELSE Answer(q, "REFUSED")
    /\ UNCHANGED <<book, last, history, summary, project, ledger, writer,
                   edits, finished>>

(* Step 8: the overrides of the scenario that was active at Load.          *)
ResolveScenario(q) ==
    /\ job[q].pc = "checked"
    /\ job' = [job EXCEPT ![q] =
          [@ EXCEPT !.pc = "resolved",
             !.inputs.overrides = book.overrides[job[q].inputs.scenario]]]
    /\ UNCHANGED <<book, last, history, summary, project, ledger, writer,
                   edits, finished>>

(* Steps 9-10: the cost rows are folded in; the inputs are complete.       *)
FoldRows(q) ==
    /\ job[q].pc = "resolved"
    /\ job' = [job EXCEPT ![q] =
          [@ EXCEPT !.pc = "folded", !.inputs.rows = book.rows,
                    !.quiet = (edits = job[q].since)]]
    /\ UNCHANGED <<book, last, history, summary, project, ledger, writer,
                   edits, finished>>

(* reserve_and_start: claim the intent.  The write fences abort the claim  *)
(* of an archived or re-admitted project; the request then dies.  A claim  *)
(* whose lease ran out before start() is left behind.                      *)
Claim(q) ==
    LET i == job[q].intent
    IN  /\ job[q].pc = "folded"
        /\ \/ /\ i = NoIntent
              /\ Goto(q, "started")
              /\ UNCHANGED outcome
           \/ /\ i # NoIntent
              /\ Claimable(i)
              /\ MayWrite(job[q].epoch)
              /\ SetOutcome(i, "OPEN")
              /\ \/ Goto(q, "started")
                 \/ Answer(q, "REFUSED")
           \/ /\ i # NoIntent
              /\ Claimable(i)
              /\ ~MayWrite(job[q].epoch)
              /\ Answer(q, "NONE")
              /\ UNCHANGED outcome
           \/ /\ i # NoIntent
              /\ ~Claimable(i)
              /\ Answer(q, "EXISTING")
              /\ UNCHANGED outcome
        /\ UNCHANGED <<book, last, history, summary, project, bound, writer,
                       edits, finished>>

(* Step 11: the engine returned.                                           *)
Compute(q) ==
    /\ job[q].pc = "started"
    /\ finished' = finished + 1
    /\ job' = [job EXCEPT ![q].pc = "computed", ![q].ranAt = finished + 1]
    /\ UNCHANGED <<book, last, history, summary, project, ledger, writer, edits>>

\* mark_failed: record FAILED, unless the lease was lost (then nothing is
\* recorded) or the row is already terminal (the trigger refuses).
MarkFailed(i) ==
    \/ UNCHANGED outcome
    \/ i # NoIntent /\ outcome[i] = "OPEN" /\ SetOutcome(i, "FAILED")

(* The executor was busy, or failed, or timed out, or the model refused.   *)
EngineFails(q) ==
    /\ job[q].pc = "started"
    /\ MarkFailed(job[q].intent)
    /\ Answer(q, "FAILED")
    /\ UNCHANGED <<book, last, history, summary, project, bound, writer,
                   edits, finished>>

(* Step 12: v2_atomic_run_commit.  One exclusive transaction: lifecycle    *)
(* fence, final CAS, owner fence, promotion, history entry, intent.        *)
\* Faulty: without the final CAS.
CommitUncompared(q) == MayWrite(job[q].epoch)

CommitAccepts(q) ==
    /\ MayWrite(job[q].epoch)
    /\ Identity(book) = job[q].hash

Commit(q) ==
    LET i == job[q].intent
        run == Len(history) + 1
    IN  /\ job[q].pc = "computed"
        /\ CommitAccepts(q)
        /\ i # NoIntent => outcome[i] = "OPEN"
        /\ book' = [book EXCEPT !.saved = book.draft, !.dirty = FALSE,
                                !.active = job[q].inputs.scenario]
        /\ last' = [run |-> run, hash |-> Identity(book)]
        /\ history' = Append(history,
              [by |-> q, hash |-> Identity(book), inputs |-> job[q].inputs,
               ranAt |-> job[q].ranAt, quiet |-> job[q].quiet])
        /\ IF i = NoIntent THEN UNCHANGED ledger
           ELSE /\ SetOutcome(i, "COMMITTED")
                /\ bound' = [bound EXCEPT ![i] = run]
        \* A failure after COMMIT is answered like one before it; mark_failed
        \* then finds the intent COMMITTED and changes nothing.
        /\ \/ Goto(q, "committed")
           \/ CommitMayFail /\ Answer(q, "FAILED")
        \* The scenario read at Load is written back: one more way to edit.
        /\ edits' = edits + (IF Identity(book') = Identity(book) THEN 0 ELSE 1)
        /\ UNCHANGED <<summary, project, writer, finished>>

\* A conflict, a lost lease or a database error rolls everything back.
CommitFails(q) ==
    /\ job[q].pc = "computed"
    /\ MarkFailed(job[q].intent)
    /\ Answer(q, "FAILED")
    /\ UNCHANGED <<book, last, history, summary, project, bound, writer,
                   edits, finished>>

(* Step 12b: the scenario's own summary, with the scenario record as it is *)
(* read now; an error (such as the write fence) is swallowed.              *)
Summarise(q) ==
    LET sc == job[q].inputs.scenario
        run == CHOOSE r \in 1..Len(history) : history[r].by = q
    IN  /\ job[q].pc = "committed"
        /\ IF MayWrite(job[q].epoch)
           THEN summary' = [summary EXCEPT ![sc] =
                              [run |-> run, overrides |-> book.overrides[sc]]]
           ELSE UNCHANGED summary
        /\ Answer(q, "COMMITTED")
        /\ UNCHANGED <<book, last, history, project, ledger, writer, edits,
                       finished>>

(* The task dies or is cancelled (CancelledError is no Exception).         *)
Crash(q) ==
    /\ job[q].pc \notin {"idle", "done"}
    /\ Answer(q, "NONE")
    /\ UNCHANGED <<book, last, history, summary, project, ledger, writer,
                   edits, finished>>

----------------------------------------------------------------------------
(* The other writers.                                                      *)

(* v2_atomic_draft_update: a compare-and-swap of the draft.                *)
EditDraft(s) ==
    /\ ~project.archived
    /\ s # book.draft
    /\ Edit
    /\ book' = [book EXCEPT !.draft = s, !.dirty = TRUE]
    /\ UNCHANGED <<last, history, summary, project, ledger, job, writer, finished>>

(* The CAPEX and OPEX commands: a compare-and-swap of the rows.            *)
EditRows(r) ==
    /\ ~project.archived
    /\ r # book.rows
    /\ Edit
    /\ book' = [book EXCEPT !.rows = r, !.dirty = TRUE]
    /\ UNCHANGED <<last, history, summary, project, ledger, job, writer, finished>>

(* update_scenario_overrides: no compare-and-swap, dirty stays as it is.   *)
UpdateOverrides(sc, o) ==
    /\ ~project.archived
    /\ o # book.overrides[sc]
    /\ Edit
    /\ book' = [book EXCEPT !.overrides[sc] = o]
    /\ UNCHANGED <<last, history, summary, project, ledger, job, writer, finished>>

(* select_scenario: the scenario's newest Run becomes the Last Run again,  *)
(* or the Last Run is cleared (its recorded hash is left).  Selecting the  *)
(* active scenario once more does the same.                                *)
SelectScenario(sc) ==
    LET run == NewestRun(sc)
        chosen == [book EXCEPT !.active = sc]
    IN  /\ ~project.archived
        /\ IF sc = book.active THEN UNCHANGED edits ELSE Edit
        /\ IF run = 0
           THEN /\ last' = [last EXCEPT !.run = 0]
                /\ book' = [chosen EXCEPT !.dirty = FALSE]
           ELSE /\ last' = Restored(run)
                /\ book' = [chosen EXCEPT !.dirty = Identity(chosen) # history[run].hash]
        /\ UNCHANGED <<history, summary, project, ledger, job, writer, finished>>

(* transition: archive or restore, one exclusive transaction.              *)
Archive ==
    /\ ~project.archived
    /\ project.version < MaxVersion
    /\ project' = [archived |-> TRUE, version |-> project.version + 1]
    /\ UNCHANGED <<book, last, history, summary, ledger, job, writer, edits, finished>>

Unarchive ==
    /\ project.archived
    /\ project.version < MaxVersion
    /\ project' = [archived |-> FALSE, version |-> project.version + 1]
    /\ UNCHANGED <<book, last, history, summary, ledger, job, writer, edits, finished>>

(* The legacy saves read the workspace twice and then write the whole row. *)
(* discard: draft and saved become the saved snapshot first read.          *)
DiscardReads(w) ==
    /\ writer[w].pc = "idle"
    /\ ~project.archived
    /\ writer' = [writer EXCEPT ![w] =
          [pc |-> "read", draft |-> book.saved, saved |-> book.saved,
           active |-> book.active, run |-> last.run,
           epoch |-> project.version]]
    /\ UNCHANGED <<book, last, history, summary, project, ledger, job, edits, finished>>

\* draft: a form snapshot is saved beside the saved snapshot first read; the
\* Last Run fields are not given and come from the second read.
DraftReads(w, s) ==
    /\ writer[w].pc = "idle"
    /\ ~project.archived
    /\ writer' = [writer EXCEPT ![w] =
          [pc |-> "read", draft |-> s, saved |-> book.saved,
           active |-> book.active, run |-> 0, epoch |-> project.version]]
    /\ UNCHANGED <<book, last, history, summary, project, ledger, job, edits, finished>>

\* save_workspace_state: existing = get_workspace_state(...) outside the
\* transaction; a Last Run field not given is taken from it.
LegacyMerges(w) ==
    /\ writer[w].pc = "read"
    /\ writer' = [writer EXCEPT ![w].pc = "merged",
          ![w].run = IF writer[w].run = 0 THEN last.run ELSE writer[w].run]
    /\ UNCHANGED <<book, last, history, summary, project, ledger, job, edits, finished>>

\* save_workspace_state: BEGIN IMMEDIATE ... UPDATE ... COMMIT.  It writes
\* the Last Run's fields but not last_runtime_composite_hash.
LegacyWrites(w) ==
    LET save == writer[w]
    IN  /\ save.pc = "merged"
        /\ IF MayWrite(save.epoch)
           THEN /\ Edit
                /\ book' = [book EXCEPT !.draft = save.draft,
                              !.saved = save.saved, !.active = save.active,
                              !.dirty = save.draft # save.saved]
                /\ last' = [last EXCEPT !.run = save.run]
           ELSE UNCHANGED <<book, last, edits>>
        /\ writer' = [writer EXCEPT ![w].pc = "done"]
        /\ UNCHANGED <<history, summary, project, ledger, job, finished>>

----------------------------------------------------------------------------
RunStep(q) ==
    \/ Load(q) \/ CheckIdentity(q) \/ ResolveScenario(q) \/ FoldRows(q)
    \/ Claim(q) \/ Compute(q) \/ EngineFails(q)
    \/ Commit(q) \/ CommitFails(q) \/ Summarise(q)

Next ==
    \/ \E q \in Requests, i \in Intents \cup {NoIntent}, c \in Content : Begin(q, i, c)
    \/ \E q \in Requests : RunStep(q)
    \/ \E q \in Requests : Crash(q)
    \/ \E s \in Scalars : EditDraft(s)
    \/ \E r \in RowSets : EditRows(r)
    \/ \E sc \in Scenarios, o \in Overrides : UpdateOverrides(sc, o)
    \/ \E sc \in Scenarios : SelectScenario(sc)
    \/ Archive
    \/ Unarchive
    \/ \E w \in Writers : DiscardReads(w)
    \/ \E w \in Writers, s \in Scalars : DraftReads(w, s)
    \/ \E w \in Writers : LegacyMerges(w) \/ LegacyWrites(w)

Spec == Init /\ [][Next]_vars

----------------------------------------------------------------------------
(* Properties.                                                             *)

TypeOK ==
    /\ book \in Book
    /\ last \in [run : 0..Len(history), hash : Content]
    /\ history \in Seq(Entry)
    /\ summary \in [Scenarios -> [run : Nat, overrides : Overrides]]
    /\ project \in [archived : BOOLEAN, version : Nat]
    /\ outcome \in [Intents -> {"NONE", "OPEN", "FAILED", "COMMITTED"}]
    /\ bound \in [Intents -> Nat]
    /\ job \in [Requests -> Job]
    /\ writer \in [Writers -> Writer]
    /\ edits \in Nat /\ finished \in Nat

\* The Last Run is one run: its figures (last.run) and the identity it is
\* judged fresh by (last.hash, "SHA-256 of the full composite workbook
\* identity at run time") belong to the same history entry, through commits,
\* restores and every save in between.
LastRunIsWhole ==
    last.run # 0 => history[last.run].hash = last.hash

\* A run whose inputs were read while nobody edited was calculated from the
\* content its hash names: the pre-engine check and the final CAS together
\* leave no other way in.
QuietRunIsHonest ==
    \A r \in 1..Len(history) :
        history[r].quiet => history[r].inputs = history[r].hash

\* A committed run's intent is COMMITTED and bound to that very run, so no
\* intent is ever spent on two runs, however many requests submit it.
IntentNamesItsRun ==
    \A r \in 1..Len(history) :
        LET i == job[history[r].by].intent
        IN  i # NoIntent => outcome[i] = "COMMITTED" /\ bound[i] = r

\* While a project is archived nothing of its workbook, runs or scenario
\* summaries changes, whoever read what before it was archived.
ArchivedIsFrozen ==
    [][project.archived => UNCHANGED <<book, last, history, summary>>]_vars

\* A request admitted before a lifecycle transition never commits after it,
\* not even when the project was restored in between.
NoCommitAcrossLifecycle ==
    [][\A r \in DOMAIN history' \ DOMAIN history :
         job[history'[r].by].epoch = project.version]_vars

\* The route uses the ledger as RunOnce promises it to be used: an intent is
\* opened once, gets one outcome and keeps the run it is bound to.
Once == INSTANCE RunOnce WITH Keys <- Intents, Unbound <- 0

RouteImplementsRunOnce == Once!Spec

(* The route behaves as if every Run that is recorded were one step of the *)
(* workbook, taken between its request and its answer, whatever four       *)
(* separate reads, seconds of calculation and other writers lie in         *)
(* between.  A failure after COMMIT is told as "nothing was saved", so     *)
(* where one may happen a FAILED answer says nothing.                      *)
Told(q) ==
    CASE job[q].pc = "idle" -> "idle"
      [] job[q].pc \notin {"idle", "done"} -> "asked"
      [] OTHER ->
         CASE job[q].reply = "COMMITTED" -> "saved"
           [] job[q].reply \in {"REFUSED", "EXISTING"} -> "unsaved"
           [] job[q].reply = "FAILED" -> IF CommitMayFail THEN "lost" ELSE "unsaved"
           [] OTHER -> "lost"

RunOf(entry) ==
    [by |-> entry.by, intent |-> job[entry.by].intent, hash |-> entry.hash,
     inputs |-> entry.inputs, quiet |-> entry.quiet]

Atomic == INSTANCE AtomicWorkbook WITH
    Contents <- Content,
    LegacySaves <- (Writers # {}),
    content <- Identity(book),
    runs <- [r \in 1..Len(history) |-> RunOf(history[r])],
    open <- ~project.archived,
    answer <- [q \in Requests |-> Told(q)]

RouteIsAtomic == Atomic!Spec
=============================================================================
