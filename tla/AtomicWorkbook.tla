--------------------------- MODULE AtomicWorkbook ---------------------------
(***************************************************************************)
(* What a workbook promises to those who run it, as if a Run took no time: *)
(* a Run that is asked for is recorded in one instant or not at all, in an *)
(* open project, as a run of the content the workbook has in that instant, *)
(* and that run is the Last Run.  Unless somebody edited while its inputs  *)
(* were read, it was also calculated from that content.  An intent is      *)
(* spent on one run, and nobody is told that a run was saved that was not, *)
(* or that none was saved when one was.  (app/v2/router.py, v2_workbook_   *)
(* run; app/persistence/workspace_repository.py, v2_atomic_run_commit.)    *)
(*                                                                         *)
(* The Last Run is a run of the active scenario, or none, except that a    *)
(* legacy save, where one is used, may put any earlier run in its place.   *)
(***************************************************************************)
EXTENDS Naturals, Sequences

CONSTANTS
    Requests,     \* to run the workbook; each is made once
    Intents,
    NoIntent,
    Contents,     \* what a workbook can hold: records with its active scenario
    LegacySaves   \* whether legacy saves are used

VARIABLES
    content,   \* of the workbook
    last,      \* [run, hash]: the Last Run, 0 for none, and its identity
    runs,      \* the runs recorded, in order
    open,      \* the project is not archived
    answer     \* what each request was told

vars == <<content, last, runs, open, answer>>

\* hash: the content it is a run of.  inputs: what it was calculated from.
\* quiet: nobody edited while these were read.
Runs == [by : Requests, intent : Intents \union {NoIntent},
         hash : Contents, inputs : Contents, quiet : BOOLEAN]

\* "lost": the request died, or failed without knowing what was saved.
Answers == {"idle", "asked", "saved", "unsaved", "lost"}

Init ==
    /\ content \in Contents
    /\ last \in [run : {0}, hash : Contents]
    /\ runs = <<>>
    /\ open = TRUE
    /\ answer = [q \in Requests |-> "idle"]

Recorded(q) == \E r \in 1..Len(runs) : runs[r].by = q

Edit(c) ==
    /\ open
    /\ c.scenario = content.scenario
    /\ content' = c
    /\ UNCHANGED <<last, runs, open, answer>>

\* Another scenario is shown, with a run of it as the Last Run or none.
Select(c, r) ==
    /\ open
    /\ r # 0 => runs[r].inputs.scenario = c.scenario
    /\ content' = c
    /\ last' = IF r = 0 THEN [last EXCEPT !.run = 0]
               ELSE [run |-> r, hash |-> runs[r].hash]
    /\ UNCHANGED <<runs, open, answer>>

\* A legacy save brings back a Last Run it read earlier, not its identity.
PutBack(c, r) ==
    /\ LegacySaves
    /\ open
    /\ content' = c
    /\ last' = [last EXCEPT !.run = r]
    /\ UNCHANGED <<runs, open, answer>>

Archive ==
    /\ open' = ~open
    /\ UNCHANGED <<content, last, runs, answer>>

Ask(q) ==
    /\ answer[q] = "idle"
    /\ answer' = [answer EXCEPT ![q] = "asked"]
    /\ UNCHANGED <<content, last, runs, open>>

\* The instant in which a request has its Run.  What is shown afterwards is
\* the scenario it was calculated for.
Run(q, run, c) ==
    /\ open
    /\ answer[q] = "asked" /\ ~Recorded(q)
    /\ run.by = q /\ run.hash = content
    /\ run.quiet => run.inputs = content /\ c = content
    /\ run.intent # NoIntent => \A r \in 1..Len(runs) : runs[r].intent # run.intent
    /\ runs' = Append(runs, run)
    /\ last' = [run |-> Len(runs) + 1, hash |-> content]
    /\ c.scenario = run.inputs.scenario /\ content' = c
    /\ \/ UNCHANGED answer
       \/ answer' = [answer EXCEPT ![q] = "lost"]
    /\ UNCHANGED open

Answer(q, a) ==
    /\ answer[q] \in {"idle", "asked"}
    /\ a = "saved" => Recorded(q)
    /\ a = "unsaved" => ~Recorded(q)
    /\ answer' = [answer EXCEPT ![q] = a]
    /\ UNCHANGED <<content, last, runs, open>>

Next ==
    \/ \E c \in Contents : Edit(c)
    \/ \E c \in Contents, r \in 0..Len(runs) : Select(c, r) \/ PutBack(c, r)
    \/ Archive
    \/ \E q \in Requests :
          \/ Ask(q)
          \/ \E a \in {"saved", "unsaved", "lost"} : Answer(q, a)
          \/ \E run \in Runs, c \in Contents : Run(q, run, c)

Spec == Init /\ [][Next]_vars
=============================================================================
