-------------------------- MODULE ProjectCreation --------------------------
(***************************************************************************)
(* The keyed creation of a project                                         *)
(* (app/services/reference_seed_service.py, project_library_service.py,    *)
(* app/persistence/projects_repository.py): a client submits a request id  *)
(* and its inputs, loses answers and submits again; every submission is an *)
(* attempt that runs beside the others.                                    *)
(*                                                                         *)
(* An attempt observes the request, plans a free project code, INSERTs the *)
(* row with the request id in it, writes workspace, scenario, record and   *)
(* workspace again in transactions of their own, and seeds the cost lines  *)
(* together with the COMPLETE flag.  An attempt that finds the row older   *)
(* than the lease abandons it, whether its creator died or is only slow.   *)
(*                                                                         *)
(* One user, one requested name.  lifecycle_version moves only with        *)
(* archived here, and is left out.                                         *)
(***************************************************************************)
EXTENDS Naturals, Sequences, FiniteSets

CONSTANTS
    Attempts,   \* server-side attempts, each used again and again
    Ids,        \* request ids
    Digests,    \* digests of the inputs
    MaxTries,   \* how often one attempt plans a code
    MaxCrashes  \* bound: attempts that die or are refused by the database

ASSUME CreationAssumption ==
    /\ IsFiniteSet(Attempts) /\ IsFiniteSet(Ids)
    /\ Ids # {} /\ Digests # {}
    /\ MaxTries \in Nat \ {0} /\ MaxCrashes \in Nat

VARIABLES
    projects,   \* the rows of projects that carry a create_request
    attempt,    \* what each attempt is doing
    crashes

vars == <<projects, attempt, crashes>>

----------------------------------------------------------------------------
Parts == {"workspace", "scenario", "record", "reworkspace", "lines"}

Codes == 1..Cardinality(Ids)

\* stale: created_at is before the lease.
Project == [id : Ids, digest : Digests, code : Codes,
            state : {"CREATING", "COMPLETE", "ABANDONED"},
            archived : BOOLEAN, stale : BOOLEAN, parts : SUBSET Parts]

Pcs == {"idle", "observe", "sweep", "plan", "insert", "workspace", "scenario",
        "record", "rewrite", "reworkspace", "lines", "finish"}

\* created: also "replayed".  unknown: nothing was heard, the create is in
\* progress, or it failed somewhere ("result unknown").
Replies == {"created", "abandoned", "conflict", "unknown"}

\* row: the project the attempt knows of, 0 for none.  copy: the state and
\* the archived flag that update_project_record read.
Attempt == [pc : Pcs, id : Ids, digest : Digests, tries : 0..MaxTries,
            code : Codes, row : 0..Cardinality(Ids),
            copy : [state : {"CREATING", "COMPLETE", "ABANDONED"},
                    archived : BOOLEAN],
            reply : Replies]

NewAttempt(id, digest) ==
    [pc |-> "observe", id |-> id, digest |-> digest, tries |-> 0, code |-> 1,
     row |-> 0, copy |-> [state |-> "CREATING", archived |-> FALSE],
     reply |-> "unknown"]

Rows == DOMAIN projects

\* find_project_by_create_request.
RowsOf(id) == {p \in Rows : projects[p].id = id}

CodesTaken == {projects[p].code : p \in Rows}

Answer(a, reply) ==
    attempt' = [attempt EXCEPT
        ![a] = [NewAttempt(@.id, @.digest) EXCEPT !.pc = "idle", !.reply = reply]]

Goto(a, pc) == attempt' = [attempt EXCEPT ![a].pc = pc]

\* Faulty: the write fences are not installed.
Unfenced(p) == TRUE

\* The triggers wf03_*: a write into an archived project aborts.
MayWrite(p) == ~projects[p].archived

----------------------------------------------------------------------------
Init ==
    /\ projects = <<>>
    /\ attempt = [a \in Attempts |->
          [NewAttempt(CHOOSE id \in Ids : TRUE, CHOOSE d \in Digests : TRUE)
             EXCEPT !.pc = "idle"]]
    /\ crashes = 0

(* A client submits a request, for the first time or again.                *)
Submit(a, id, digest) ==
    /\ attempt[a].pc = "idle"
    /\ attempt' = [attempt EXCEPT ![a] = NewAttempt(id, digest)]
    /\ UNCHANGED <<projects, crashes>>

(* _observe_create_request, before the first plan and after each collision.*)
Observe(a) ==
    /\ attempt[a].pc = "observe"
    /\ \/ /\ RowsOf(attempt[a].id) = {}
          /\ IF attempt[a].tries = MaxTries THEN Answer(a, "unknown")
             ELSE Goto(a, "plan")
       \/ \E p \in RowsOf(attempt[a].id) :
          CASE projects[p].digest # attempt[a].digest -> Answer(a, "conflict")
            [] projects[p].state = "COMPLETE" -> Answer(a, "created")
            [] projects[p].state = "ABANDONED" -> Answer(a, "abandoned")
            [] OTHER -> attempt' = [attempt EXCEPT ![a].pc = "sweep", ![a].row = p]
    /\ UNCHANGED <<projects, crashes>>

\* The compare-and-set of abandon_stale_create.
MayAbandon(p) == projects[p].state = "CREATING" /\ projects[p].stale

(* abandon_stale_create.                                                   *)
Sweep(a) ==
    LET p == attempt[a].row IN
    /\ attempt[a].pc = "sweep"
    /\ IF MayAbandon(p)
       THEN /\ projects' = [projects EXCEPT ![p].state = "ABANDONED",
                                            ![p].archived = TRUE]
            /\ Answer(a, "abandoned")
       ELSE Answer(a, "unknown") /\ UNCHANGED projects
    /\ UNCHANGED crashes

(* _unique_project_name: the first code that no project has.               *)
Plan(a) ==
    /\ attempt[a].pc = "plan"
    /\ \E code \in Codes \ CodesTaken :
          /\ \A c \in 1..code - 1 : c \in CodesTaken
          /\ attempt' = [attempt EXCEPT ![a].pc = "insert", ![a].code = code]
    /\ UNCHANGED <<projects, crashes>>

\* Faulty: only the project code is unique.
InsertsByCode(a) == attempt[a].code \notin CodesTaken

\* The unique indexes of projects, and the look before the INSERT.
MayInsert(a) ==
    /\ attempt[a].code \notin CodesTaken
    /\ RowsOf(attempt[a].id) = {}

(* save_project with insert_only: a refusal is looked into.                *)
Insert(a) ==
    /\ attempt[a].pc = "insert"
    /\ IF MayInsert(a)
       THEN /\ projects' = Append(projects,
                 [id |-> attempt[a].id, digest |-> attempt[a].digest,
                  code |-> attempt[a].code, state |-> "CREATING",
                  archived |-> FALSE, stale |-> FALSE, parts |-> {}])
            /\ attempt' = [attempt EXCEPT ![a].pc = "workspace",
                                          ![a].row = Len(projects) + 1]
       ELSE /\ attempt' = [attempt EXCEPT ![a].pc = "observe", ![a].tries = @ + 1]
            /\ UNCHANGED projects
    /\ UNCHANGED crashes

\* A write of the creator into its project: the part lands, or the fence
\* raises and the client is told that the outcome is unknown.
Write(a, part, next) ==
    LET p == attempt[a].row IN
    /\ attempt[a].pc = part
    /\ IF MayWrite(p)
       THEN /\ projects' = [projects EXCEPT ![p].parts = @ \union {part}]
            /\ Goto(a, next)
       ELSE Answer(a, "unknown") /\ UNCHANGED projects
    /\ UNCHANGED crashes

(* save_workspace_state of the working copy, get_or_create_base_case_scenario *)
(* and save_workspace_state of the scaled snapshot.                        *)
WriteWorkspace(a) == Write(a, "workspace", "scenario")
WriteScenario(a) == Write(a, "scenario", "record")
RewriteWorkspace(a) == Write(a, "reworkspace", "lines")

(* update_project_record: the whole row is read ...                        *)
ReadRecord(a) ==
    /\ attempt[a].pc = "record"
    /\ attempt' = [attempt EXCEPT ![a].pc = "rewrite",
          ![a].copy = [state |-> projects[attempt[a].row].state,
                       archived |-> projects[attempt[a].row].archived]]
    /\ UNCHANGED <<projects, crashes>>

(* ... and written back, its request state and archived flag included.     *)
WriteRecord(a) ==
    LET p == attempt[a].row IN
    /\ attempt[a].pc = "rewrite"
    /\ IF MayWrite(p)
       THEN /\ projects' = [projects EXCEPT
                 ![p].state = attempt[a].copy.state,
                 ![p].archived = attempt[a].copy.archived,
                 ![p].parts = @ \union {"record"}]
            /\ Goto(a, "reworkspace")
       ELSE Answer(a, "unknown") /\ UNCHANGED projects
    /\ UNCHANGED crashes

\* Faulty: the flag is set by a statement of its own, before the lines.
FlagOnly(p) == [projects[p] EXCEPT !.state = "COMPLETE"]

\* The row once its seed transaction committed.
Seeded(p) == [projects[p] EXCEPT !.state = "COMPLETE",
                                 !.parts = @ \union {"lines"}]

(* The seed transaction: the lines and the flag, or neither.               *)
Seed(a) ==
    LET p == attempt[a].row IN
    /\ attempt[a].pc = "lines"
    /\ IF MayWrite(p) /\ projects[p].state = "CREATING"
       THEN /\ projects' = [projects EXCEPT ![p] = Seeded(p)]
            /\ Goto(a, "finish")
       ELSE Answer(a, "unknown") /\ UNCHANGED projects
    /\ UNCHANGED crashes

(* The record is read once more and returned.                              *)
Finish(a) ==
    /\ attempt[a].pc = "finish"
    /\ Answer(a, "created")
    /\ UNCHANGED <<projects, crashes>>

(* The process dies, or a statement fails: the client hears nothing, or    *)
(* that the outcome is unknown.                                            *)
Crash(a) ==
    /\ attempt[a].pc # "idle" /\ crashes < MaxCrashes
    /\ crashes' = crashes + 1
    /\ Answer(a, "unknown")
    /\ UNCHANGED projects

\* Faulty: a lease never passes.
NeverStale(p) == FALSE

\* CREATE_INCOMPLETE_LEASE_SECONDS are counted for this row.
MayGetStale(p) == projects[p].state = "CREATING" /\ ~projects[p].stale

(* CREATE_INCOMPLETE_LEASE_SECONDS pass.                                   *)
LeasePasses(p) ==
    /\ MayGetStale(p)
    /\ projects' = [projects EXCEPT ![p].stale = TRUE]
    /\ UNCHANGED <<attempt, crashes>>

----------------------------------------------------------------------------
Create(a) ==
    \/ Observe(a) \/ Sweep(a) \/ Plan(a) \/ Insert(a)
    \/ WriteWorkspace(a) \/ WriteScenario(a) \/ ReadRecord(a) \/ WriteRecord(a)
    \/ RewriteWorkspace(a) \/ Seed(a) \/ Finish(a)

Next ==
    \/ \E a \in Attempts, id \in Ids, digest \in Digests : Submit(a, id, digest)
    \/ \E a \in Attempts : Create(a) \/ Crash(a)
    \/ \E p \in Rows : LeasePasses(p)

Spec == Init /\ [][Next]_vars

\* Attempts go on and time passes.  That a client submits again is its own
\* choice, and an assumption of RetriedIsResolved alone.
FairSpec ==
    /\ Spec
    /\ \A a \in Attempts : WF_vars(Create(a))
    /\ \A p \in 1..Cardinality(Ids) : WF_vars(p \in Rows /\ LeasePasses(p))

----------------------------------------------------------------------------
(* Types of all variables.                                                 *)
TypeOK ==
    /\ projects \in Seq(Project) /\ Len(projects) <= Cardinality(Ids)
    /\ attempt \in [Attempts -> Attempt]
    /\ crashes \in 0..MaxCrashes

(* "A finished request is never a partially seeded project": COMPLETE      *)
(* projects have every part and are not archived by a sweep, and abandoned *)
(* ones are archived and have no cost line, whatever the creator, a sweep  *)
(* and the write-back of the whole record did in which order.              *)
CompleteIsWhole ==
    \A p \in Rows :
        /\ projects[p].state = "COMPLETE" =>
              projects[p].parts = Parts /\ ~projects[p].archived
        /\ projects[p].state = "ABANDONED" =>
              projects[p].archived /\ "lines" \notin projects[p].parts

(* A creator that was only slow writes nothing into its project once a     *)
(* sweep abandoned it.                                                     *)
AbandonedIsFrozen ==
    [][\A p \in Rows : projects[p].state = "ABANDONED" =>
          projects'[p] = projects[p]]_vars

\* The outcome of a request, and the project it names.  RunOnce knows no
\* outcome of a request with two projects.
OutcomeOf(id) ==
    IF RowsOf(id) = {} THEN "NONE"
    ELSE IF \E p, q \in RowsOf(id) : p # q THEN "TWICE"
    ELSE LET p == CHOOSE p \in RowsOf(id) : TRUE IN
         CASE projects[p].state = "CREATING" -> "OPEN"
           [] projects[p].state = "COMPLETE" -> "COMMITTED"
           [] OTHER -> "FAILED"

ProjectOf(id) ==
    IF OutcomeOf(id) = "COMMITTED" THEN CHOOSE p \in RowsOf(id) : TRUE ELSE 0

\* A creation request is, like a run intent, answered by one outcome that
\* never changes, and "one request id creates at most one project across any
\* number of workers".
Once == INSTANCE RunOnce WITH
    Keys <- Ids, Unbound <- 0,
    outcome <- [id \in Ids |-> OutcomeOf(id)],
    bound <- [id \in Ids |-> ProjectOf(id)]

ImplementsRunOnce == Once!Spec

\* The clients of a request submit it again and again with the same inputs.
KeepsAsking(id) ==
    []<>(\E a \in Attempts :
            /\ attempt[a].pc = "observe" /\ attempt[a].id = id
            /\ \A p \in RowsOf(id) : projects[p].digest = attempt[a].digest)

(* A request whose client keeps asking is resolved, whatever died on the   *)
(* way: it becomes COMPLETE or ABANDONED, and is not in progress for ever. *)
RetriedIsResolved ==
    \A id \in Ids :
        KeepsAsking(id) => <>(OutcomeOf(id) \in {"FAILED", "COMMITTED"})
=============================================================================
