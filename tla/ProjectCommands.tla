-------------------------- MODULE ProjectCommands --------------------------
(***************************************************************************)
(* The two commands on a project that are sent with a request id and can   *)
(* be sent again: Save All (app/v2/save_all_commands.py) and the archive   *)
(* and restore of app/persistence/project_lifecycle_repository.py, beside  *)
(* the single edits of other tabs.                                         *)
(*                                                                         *)
(* A command is composed on a page that shows the project as it then was,  *)
(* and is delivered any number of times, at any time.  Each delivery is a  *)
(* handler: it looks the project up, which admits it to the lifecycle      *)
(* version it finds, and later runs its exclusive transaction.             *)
(*                                                                         *)
(* One project of one user, complete and with its workspace.               *)
(***************************************************************************)
EXTENDS Naturals, Sequences, FiniteSets

CONSTANTS
    Keys,         \* request ids
    Contents,     \* of the workbook, as its composite hash tells them apart
    Handlers,     \* requests in the server at once
    MaxCommands,  \* bound: commands composed
    MaxVersion,   \* bound: of lifecycle_version
    MaxRows,      \* bound: writes of the cost lines
    MaxServed     \* bound: deployments that change the workbook's version

ASSUME CommandsAssumption ==
    /\ IsFiniteSet(Keys) /\ IsFiniteSet(Handlers)
    /\ Contents # {}
    /\ {MaxCommands, MaxVersion, MaxRows, MaxServed} \subseteq Nat

VARIABLES
    project,    \* the row of projects, the workspace and the lines
    served,     \* the workbook version (WORKBOOK.version) of the server
    sent,       \* the commands composed so far
    receipts,   \* save_all_requests and project_lifecycle_events, in order
    handler     \* what each handler is doing

vars == <<project, served, sent, receipts, handler>>

----------------------------------------------------------------------------
\* rows: the row_version of the cost lines, new with every write of them.
Project == [archived : BOOLEAN, version : 0..MaxVersion,
            content : Contents, rows : 0..MaxRows]

\* A Save All: the workbook version, the content hash and the row version of
\* its page, what the sections it carries make of the content, and whether
\* lines are among them.
Saves == [kind : {"save"}, key : Keys, served : 0..MaxServed, content : Contents,
          rows : 0..MaxRows, new : Contents, lines : BOOLEAN]

\* An archive or restore: the flag and the lifecycle version of its page.
Transitions == [kind : {"transition"}, key : Keys, archived : BOOLEAN,
                version : 0..MaxVersion]

Commands == Saves \union Transitions

\* at: the project the command was applied to; epoch: of its admission.
Receipt == [cmd : Commands, at : Project, epoch : 0..MaxVersion]

Replies == {"free", "applied", "replayed", "reused", "refused"}

\* A handler that has admitted a command, and one that answered its last.
Pending == [cmd : Commands, epoch : 0..MaxVersion, reply : {"none"}]
Answered == [reply : Replies]

Free == [reply |-> "free"]

TypeOK ==
    /\ project \in Project
    /\ served \in 0..MaxServed
    /\ sent \subseteq Commands /\ Cardinality(sent) <= MaxCommands
    /\ receipts \in Seq(Receipt)
    /\ handler \in [Handlers -> Pending \union Answered]

Init ==
    /\ project \in [archived : {FALSE}, version : {0}, content : Contents, rows : {0}]
    /\ served = 0
    /\ sent = {}
    /\ receipts = <<>>
    /\ handler = [h \in Handlers |-> Free]

----------------------------------------------------------------------------
(* A page composes a command, under a new request id or one used before.   *)
Compose(cmd) ==
    /\ Cardinality(sent) < MaxCommands /\ cmd \notin sent
    /\ sent' = sent \union {cmd}
    /\ UNCHANGED <<project, served, receipts, handler>>

ComposeSave(key, new, lines) ==
    Compose([kind |-> "save", key |-> key, served |-> served,
             content |-> project.content,
             rows |-> IF lines THEN project.rows ELSE 0,
             new |-> new, lines |-> lines])

ComposeTransition(key) ==
    Compose([kind |-> "transition", key |-> key,
             archived |-> project.archived, version |-> project.version])

(* A command reaches the server, for the first time or again.  The project *)
(* is looked up, archived or not: admit() binds its lifecycle version.     *)
Admit(h, cmd) ==
    /\ handler[h].reply # "none"
    /\ cmd \in sent
    /\ handler' = [handler EXCEPT ![h] = [cmd |-> cmd, epoch |-> project.version,
                                          reply |-> "none"]]
    /\ UNCHANGED <<project, served, sent, receipts>>

\* The project with another content, lines being written or not.
Written(new, lines) ==
    [project EXCEPT !.content = new, !.rows = IF lines THEN @ + 1 ELSE @]

(* Another tab's single edit commits, in an admission of its own.          *)
Edit(new, lines) ==
    /\ ~project.archived /\ new # project.content
    /\ project' = Written(new, lines)
    /\ project'.rows <= MaxRows
    /\ UNCHANGED <<served, sent, receipts, handler>>

(* The server is replaced by one of another workbook version; the requests *)
(* in it are lost.                                                         *)
Deploy ==
    /\ served < MaxServed
    /\ served' = served + 1
    /\ handler' = [h \in Handlers |-> Free]
    /\ UNCHANGED <<project, sent, receipts>>

----------------------------------------------------------------------------
Reply(h, reply) ==
    handler' = [handler EXCEPT ![h] = [reply |-> reply]]

\* Faulty: a request id is looked up together with its body.
PriorByBody(cmd) == {i \in 1..Len(receipts) : receipts[i].cmd = cmd}

\* The receipts of a request id.
Prior(cmd) ==
    {i \in 1..Len(receipts) : /\ receipts[i].cmd.kind = cmd.kind
                              /\ receipts[i].cmd.key = cmd.key}

SameBody(i, cmd) == receipts[i].cmd = cmd

(* _check_workbook_version: the page is of another version.  Of Save All   *)
(* only, and before its transaction is begun; a deployment that switches   *)
(* the saving of profiles off refuses those that carry one just so.        *)
Outdated(cmd) == cmd.kind = "save" /\ cmd.served # served

(* A request id that was used is answered from its receipt, whatever has   *)
(* become of the project since; with another body it is refused.           *)
Replay(h) ==
    LET cmd == handler[h].cmd IN
    /\ handler[h].reply = "none"
    /\ ~Outdated(cmd)
    /\ \E i \in Prior(cmd) :
          Reply(h, IF SameBody(i, cmd) THEN "replayed" ELSE "reused")
    /\ UNCHANGED <<project, served, sent, receipts>>

\* Faulty: a write is fenced by the archived flag alone.
FencedByFlag(h) == ~project.archived

\* The write fences of the connection: lifecycle_version as at admission.
MayWrite(h) == ~project.archived /\ handler[h].epoch = project.version

\* The composite identity, and the row versions of the lines it writes.
SameContent(cmd) ==
    /\ cmd.content = project.content
    /\ cmd.lines => cmd.rows = project.rows

\* The flag and the lifecycle version of the page.
SameVersion(cmd) ==
    cmd.archived = project.archived /\ cmd.version = project.version

Accepted(h) ==
    LET cmd == handler[h].cmd IN
    IF cmd.kind = "save" THEN MayWrite(h) /\ SameContent(cmd) ELSE SameVersion(cmd)

\* What an accepted command makes of the project.
Applied(cmd) ==
    IF cmd.kind = "transition"
    THEN [project EXCEPT !.archived = ~@, !.version = @ + 1]
    ELSE Written(cmd.new, cmd.lines)

Fits(p) == p.version <= MaxVersion /\ p.rows <= MaxRows

(* The command and its receipt, in one exclusive transaction; the answer   *)
(* may be lost, which is a later delivery of the same command.             *)
Execute(h) ==
    LET cmd == handler[h].cmd IN
    /\ handler[h].reply = "none"
    /\ ~Outdated(cmd)
    /\ Prior(cmd) = {} /\ Accepted(h) /\ Fits(Applied(cmd))
    /\ project' = Applied(cmd)
    /\ receipts' = Append(receipts, [cmd |-> cmd, at |-> project,
                                     epoch |-> handler[h].epoch])
    /\ Reply(h, "applied")
    /\ UNCHANGED <<served, sent>>

\* Faulty: stale commands are refused before the request id is looked up.
RefusesFirst(h) == Outdated(handler[h].cmd) \/ ~Accepted(h)

MayRefuse(h) ==
    \/ Outdated(handler[h].cmd)
    \/ Prior(handler[h].cmd) = {} /\ ~Accepted(h)

(* From an outdated page, whatever has become of the request id; stale, in *)
(* conflict or archived, and not applied before: "nothing was saved".      *)
Refuse(h) ==
    /\ handler[h].reply = "none"
    /\ MayRefuse(h)
    /\ Reply(h, "refused")
    /\ UNCHANGED <<project, served, sent, receipts>>

Next ==
    \/ \E key \in Keys : \/ ComposeTransition(key)
                         \/ \E new \in Contents, lines \in BOOLEAN :
                               ComposeSave(key, new, lines)
    \/ \E new \in Contents, lines \in BOOLEAN : Edit(new, lines)
    \/ Deploy
    \/ \E h \in Handlers : \/ \E cmd \in sent : Admit(h, cmd)
                           \/ Replay(h) \/ Execute(h) \/ Refuse(h)

Spec == Init /\ [][Next]_vars

----------------------------------------------------------------------------
(* However often a command is delivered, a request id is applied at most   *)
(* once, and never with two bodies (save_all_commands.py:28-29,            *)
(* project_lifecycle_repository.py:277-283).                               *)
AppliedOnce ==
    \A i, j \in 1..Len(receipts) :
        /\ receipts[i].cmd.kind = receipts[j].cmd.kind
        /\ receipts[i].cmd.key = receipts[j].cmd.key
        => i = j

(* A command is applied to the project its page showed: a transition to    *)
(* that very lifecycle version; a Save All in the lifecycle epoch it was   *)
(* admitted to, although an archive and restore in between leave the       *)
(* content as it was, to the content of its page, and with lines never     *)
(* over a write of them that the page did not show, though the content be  *)
(* the same again (project_lifecycle_repository.py:146-175, 290,           *)
(* save_all_commands.py:185, cost_batch_commands.py:149-160).              *)
AppliedAsSeen ==
    \A i \in 1..Len(receipts) :
        LET cmd == receipts[i].cmd  at == receipts[i].at IN
        IF cmd.kind = "transition"
        THEN cmd.version = at.version /\ cmd.archived = at.archived
        ELSE /\ ~at.archived /\ receipts[i].epoch = at.version
             /\ cmd.content = at.content
             /\ cmd.lines => cmd.rows = at.rows

(* A client that is told its command is done, now or earlier, is told of   *)
(* the very command it sent (save_all_commands.py:176-182).                *)
DoneIsDone ==
    [][\A h \in Handlers :
          handler'[h] # handler[h] /\ handler'[h].reply \in {"applied", "replayed"}
          => \E i \in 1..Len(receipts') : receipts'[i].cmd = handler[h].cmd]_vars

(* A client that is told nothing was saved is told the truth, also of the  *)
(* earlier deliveries of its command whose answers it lost: a retry of a   *)
(* command that was applied is not refused for what has happened to the    *)
(* project since (save_all_commands.py:174-182,                            *)
(* project_lifecycle_repository.py:277-283, main_web.py:201-202).  It says *)
(* nothing of a Save All from an outdated page, whose retry is refused     *)
(* before its receipt is looked up (save_all_commands.py:162), be it       *)
(* applied or not.                                                         *)
RefusedWasNotDone ==
    [][\A h \in Handlers :
          /\ handler'[h] # handler[h] /\ handler'[h].reply = "refused"
          /\ ~Outdated(handler[h].cmd)
          => \A i \in 1..Len(receipts) : receipts[i].cmd # handler[h].cmd]_vars

----------------------------------------------------------------------------
(* A request id, of either kind, is what RunOnce calls a key: open once a  *)
(* command was composed under it, and bound for ever to the one receipt it *)
(* was applied with, which is no other id's.  Its newest receipt is shown, *)
(* so that a second one would be seen.                                     *)
Ids == [kind : {"save", "transition"}, key : Keys]

Outcome(id) ==
    IF Prior(id) # {} THEN "COMMITTED"
    ELSE IF \E cmd \in sent : cmd.kind = id.kind /\ cmd.key = id.key THEN "OPEN"
    ELSE "NONE"

NewestReceipt(id) ==
    IF Prior(id) = {} THEN 0
    ELSE CHOOSE i \in Prior(id) : \A j \in Prior(id) : j <= i

Once == INSTANCE RunOnce WITH
    Keys <- Ids,
    Unbound <- 0,
    outcome <- [id \in Ids |-> Outcome(id)],
    bound <- [id \in Ids |-> NewestReceipt(id)]

(* However often, in whatever order and with whatever bodies commands are  *)
(* delivered, the request ids are used as RunOnce says keys are used.      *)
CommandsImplementOnce == Once!Spec
=============================================================================
