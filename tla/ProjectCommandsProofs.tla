----------------------- MODULE ProjectCommandsProofs -----------------------
(***************************************************************************)
(* Theorems about ProjectCommands for any number of request ids, handlers, *)
(* contents and deliveries.                                                *)
(*                                                                         *)
(* Every property follows from what one transaction does to the list of    *)
(* receipts: it appends at most one, of a request id that has none, and    *)
(* only for a command that is accepted at that very project.               *)
(***************************************************************************)
EXTENDS ProjectCommands, FiniteSetTheorems, TLAPS

----------------------------------------------------------------------------
(* Types.                                                                  *)

\* Composed commands are commands, and composing one keeps the types.
LEMMA ComposeType ==
    ASSUME TypeOK, IsFiniteSet(sent), NEW cmd \in Commands, Compose(cmd)
    PROVE  TypeOK' /\ IsFiniteSet(sent')
<1>1. /\ sent' = sent \union {cmd} /\ cmd \notin sent
      /\ Cardinality(sent) < MaxCommands
      /\ UNCHANGED <<project, served, receipts, handler>>
  BY DEF Compose
<1>2. IsFiniteSet(sent') /\ Cardinality(sent') = Cardinality(sent) + 1
  BY <1>1, FS_AddElement DEF TypeOK
<1>3. Cardinality(sent) \in Nat /\ Cardinality(sent') <= MaxCommands
  BY <1>1, <1>2, FS_CardinalityType, CommandsAssumption DEF TypeOK, CommandsAssumption
<1> QED BY <1>1, <1>2, <1>3 DEF TypeOK

\* A write of the content is a project when the rows stay within their bound.
LEMMA WrittenType ==
    ASSUME TypeOK, NEW new \in Contents, NEW lines \in BOOLEAN,
           Written(new, lines).rows <= MaxRows
    PROVE  Written(new, lines) \in Project
<1> DEFINE rows == IF lines THEN project.rows + 1 ELSE project.rows
           p == [project EXCEPT !.content = new, !.rows = rows]
<1>1. project \in Project /\ project.rows \in Nat /\ MaxRows \in Nat
  BY CommandsAssumption DEF TypeOK, Project, CommandsAssumption
<1>2. rows \in Nat
  BY <1>1
<1>3. Written(new, lines) = p
  BY DEF Written
<1> HIDE DEF rows
<1>4. p.rows = rows
  BY <1>1 DEF Project
<1>5. rows \in 0..MaxRows
  BY <1>1, <1>2, <1>3, <1>4
<1>6. p \in Project
  BY <1>1, <1>5 DEF Project
<1> QED BY <1>3, <1>6

\* So is what an accepted command makes of the project.
LEMMA AppliedType ==
    ASSUME TypeOK, NEW cmd \in Commands, Fits(Applied(cmd))
    PROVE  Applied(cmd) \in Project
<1>1. CASE cmd.kind = "transition"
  <2> DEFINE p == [project EXCEPT !.archived = ~@, !.version = @ + 1]
  <2>1. project \in Project /\ MaxVersion \in Nat
    BY CommandsAssumption DEF TypeOK, CommandsAssumption
  <2>2. p = Applied(cmd) /\ p.version = project.version + 1
    BY <1>1, <2>1 DEF Applied, Project
  <2>3. p.version <= MaxVersion
    BY <2>2 DEF Fits
  <2>4. p.version \in 0..MaxVersion
    BY <2>1, <2>2, <2>3 DEF Project
  <2>5. p \in Project
    BY <2>1, <2>4 DEF Project
  <2> QED BY <2>2, <2>5
<1>2. CASE cmd.kind # "transition"
  <2>1. cmd \in Saves /\ cmd.new \in Contents /\ cmd.lines \in BOOLEAN
    BY <1>2 DEF Commands, Saves, Transitions
  <2> QED BY <1>2, <2>1, WrittenType DEF Applied, Fits
<1> QED BY <1>1, <1>2

\* A handler that has not answered carries a command it was sent.
LEMMA PendingType ==
    ASSUME TypeOK, NEW h \in Handlers, handler[h].reply = "none"
    PROVE  /\ handler[h] \in Pending /\ handler[h].cmd \in Commands
           /\ handler[h].epoch \in 0..MaxVersion
BY DEF TypeOK, Pending, Answered, Replies

\* Answering keeps the handlers' types, and touches no other handler.
LEMMA ReplyType ==
    ASSUME TypeOK, NEW h \in Handlers, NEW reply \in Replies, Reply(h, reply)
    PROVE  /\ handler' \in [Handlers -> Pending \union Answered]
           /\ handler'[h].reply = reply /\ reply # "none"
           /\ \A g \in Handlers : g # h => handler'[g] = handler[g]
<1> DEFINE v == [reply |-> reply]
<1>1. v \in Answered /\ v.reply = reply
  BY DEF Answered
<1>2. handler' = [handler EXCEPT ![h] = v]
  BY DEF Reply
<1> HIDE DEF v
<1> QED BY <1>1, <1>2 DEF TypeOK, Replies

Typed == TypeOK /\ IsFiniteSet(sent)

\* Every step keeps the types, and finitely many commands composed.
LEMMA TypeStep == Typed /\ [Next]_vars => Typed'
<1> SUFFICES ASSUME TypeOK, IsFiniteSet(sent), [Next]_vars
             PROVE  TypeOK' /\ IsFiniteSet(sent')
  BY DEF Typed
<1>1. ASSUME NEW key \in Keys, ComposeTransition(key)
      PROVE  TypeOK' /\ IsFiniteSet(sent')
  <2> DEFINE cmd == [kind |-> "transition", key |-> key,
                     archived |-> project.archived, version |-> project.version]
  <2>1. cmd \in Commands
    BY DEF TypeOK, Project, Commands, Transitions
  <2>2. Compose(cmd)
    BY <1>1 DEF ComposeTransition
  <2> HIDE DEF cmd
  <2> QED BY <2>1, <2>2, ComposeType
<1>2. ASSUME NEW key \in Keys, NEW new \in Contents, NEW lines \in BOOLEAN,
             ComposeSave(key, new, lines)
      PROVE  TypeOK' /\ IsFiniteSet(sent')
  <2> DEFINE cmd == [kind |-> "save", key |-> key, served |-> served,
                     content |-> project.content,
                     rows |-> IF lines THEN project.rows ELSE 0,
                     new |-> new, lines |-> lines]
  <2>1. cmd \in Commands
    BY CommandsAssumption DEF TypeOK, Project, Commands, Saves, CommandsAssumption
  <2>2. Compose(cmd)
    BY <1>2 DEF ComposeSave
  <2> HIDE DEF cmd
  <2> QED BY <2>1, <2>2, ComposeType
<1>3. ASSUME NEW new \in Contents, NEW lines \in BOOLEAN, Edit(new, lines)
      PROVE  TypeOK' /\ IsFiniteSet(sent')
  BY <1>3, WrittenType DEF Edit, TypeOK
<1>4. ASSUME NEW h \in Handlers, NEW cmd \in sent, Admit(h, cmd)
      PROVE  TypeOK' /\ IsFiniteSet(sent')
  <2> DEFINE v == [cmd |-> cmd, epoch |-> project.version, reply |-> "none"]
  <2>1. v \in Pending
    BY DEF TypeOK, Project, Pending
  <2>2. handler' = [handler EXCEPT ![h] = v] /\ UNCHANGED <<project, served, sent, receipts>>
    BY <1>4 DEF Admit
  <2> HIDE DEF v
  <2> QED BY <2>1, <2>2 DEF TypeOK
<1>5. ASSUME NEW h \in Handlers, Replay(h) \/ Refuse(h)
      PROVE  TypeOK' /\ IsFiniteSet(sent')
  <2>1. PICK reply \in Replies : Reply(h, reply)
    BY <1>5 DEF Replay, Refuse, Replies
  <2>2. UNCHANGED <<project, served, sent, receipts>>
    BY <1>5 DEF Replay, Refuse
  <2> QED BY <2>1, <2>2, ReplyType DEF TypeOK
<1>6. ASSUME NEW h \in Handlers, Execute(h)
      PROVE  TypeOK' /\ IsFiniteSet(sent')
  <2> DEFINE cmd == handler[h].cmd
             r == [cmd |-> cmd, at |-> project, epoch |-> handler[h].epoch]
  <2>1. /\ handler[h].reply = "none" /\ project' = Applied(cmd) /\ Fits(Applied(cmd))
        /\ receipts' = Append(receipts, r) /\ Reply(h, "applied")
        /\ sent' = sent /\ served' = served
    BY <1>6 DEF Execute
  <2>2. r \in Receipt
    BY <2>1, PendingType DEF Receipt, TypeOK
  <2>3. receipts' \in Seq(Receipt)
    <3> HIDE DEF r
    <3> QED BY <2>1, <2>2 DEF TypeOK
  <2>4. project' \in Project
    BY <2>1, PendingType, AppliedType
  <2>5. handler' \in [Handlers -> Pending \union Answered]
    BY <2>1, ReplyType DEF Replies
  <2> QED BY <2>1, <2>3, <2>4, <2>5 DEF TypeOK
<1>7. CASE UNCHANGED vars
  BY <1>7 DEF vars, TypeOK
<1>8. CASE Deploy
  <2>1. Free \in Answered
    BY DEF Free, Answered, Replies
  <2>2. handler' \in [Handlers -> Pending \union Answered]
    BY <1>8, <2>1 DEF Deploy
  <2>3. served' \in 0..MaxServed
    BY <1>8, CommandsAssumption DEF Deploy, TypeOK, CommandsAssumption
  <2> QED BY <1>8, <2>2, <2>3 DEF Deploy, TypeOK
<1> QED BY <1>1, <1>2, <1>3, <1>4, <1>5, <1>6, <1>7, <1>8 DEF Next

\* Only Execute adds a receipt, and it adds one.
LEMMA ReceiptStep ==
    ASSUME TypeOK, [Next]_vars
    PROVE  \/ receipts' = receipts
           \/ \E h \in Handlers :
                /\ Execute(h)
                /\ receipts' \in Seq(Receipt) /\ Len(receipts') = Len(receipts) + 1
                /\ \A i \in 1..Len(receipts) : receipts'[i] = receipts[i]
                /\ receipts'[Len(receipts')] = [cmd |-> handler[h].cmd, at |-> project,
                                               epoch |-> handler[h].epoch]
<1>1. ASSUME NEW h \in Handlers, Execute(h)
      PROVE  /\ receipts' \in Seq(Receipt) /\ Len(receipts') = Len(receipts) + 1
             /\ \A i \in 1..Len(receipts) : receipts'[i] = receipts[i]
             /\ receipts'[Len(receipts')] = [cmd |-> handler[h].cmd, at |-> project,
                                            epoch |-> handler[h].epoch]
  <2> DEFINE r == [cmd |-> handler[h].cmd, at |-> project, epoch |-> handler[h].epoch]
  <2>1. receipts' = Append(receipts, r) /\ handler[h].reply = "none"
    BY <1>1 DEF Execute
  <2>2. r \in Receipt /\ receipts \in Seq(Receipt)
    BY <2>1, PendingType DEF Receipt, TypeOK
  <2> HIDE DEF r
  <2>3. /\ receipts' \in Seq(Receipt) /\ Len(receipts') = Len(receipts) + 1
        /\ \A i \in 1..Len(receipts) : receipts'[i] = receipts[i]
        /\ receipts'[Len(receipts')] = r
    BY <2>1, <2>2
  <2> QED BY <2>3 DEF r
<1>2. receipts' = receipts \/ \E h \in Handlers : Execute(h)
  BY DEF Next, vars, Compose, ComposeSave, ComposeTransition, Edit, Deploy,
     Admit, Replay, Refuse
<1> QED BY <1>1, <1>2

----------------------------------------------------------------------------
(* Properties.                                                             *)

\* Every reachable state is well-typed: versions and rows within their
\* bounds, receipts of composed kinds of commands.
THEOREM TypeCorrect == Spec => []TypeOK
<1>1. Init => Typed
  <2> SUFFICES ASSUME Init PROVE TypeOK /\ IsFiniteSet(sent)
    BY DEF Typed
  <2>1. project \in Project
    <3>1. 0 \in 0..MaxVersion /\ 0 \in 0..MaxRows
      BY CommandsAssumption DEF CommandsAssumption
    <3>2. PICK c \in Contents :
             project = [archived |-> FALSE, version |-> 0, content |-> c, rows |-> 0]
      BY DEF Init
    <3> QED BY <3>1, <3>2 DEF Project
  <2>2. IsFiniteSet(sent) /\ Cardinality(sent) = 0
    BY FS_EmptySet DEF Init
  <2>3. /\ sent = {} /\ receipts = <<>> /\ served \in 0..MaxServed
        /\ handler \in [Handlers -> Pending \union Answered]
    BY CommandsAssumption DEF Init, Free, Answered, Replies, CommandsAssumption
  <2>4. receipts \in Seq(Receipt) /\ MaxCommands \in Nat /\ sent \subseteq Commands
    BY <2>3, CommandsAssumption DEF CommandsAssumption
  <2> QED BY <2>1, <2>2, <2>3, <2>4 DEF TypeOK
<1>2. Typed => TypeOK
  BY DEF Typed
<1> QED BY <1>1, <1>2, TypeStep, PTL DEF Spec

\* At first nothing was applied.
LEMMA NoReceipts == Init => 1..Len(receipts) = {}
<1> SUFFICES ASSUME Init PROVE 1..Len(receipts) = {}
  OBVIOUS
<1>1. receipts = <<>>
  BY DEF Init
<1>2. Len(receipts) = 0
  BY <1>1
<1> QED BY <1>2

\* A request id is applied at most once, and never with two bodies.
THEOREM AppliedAtMostOnce == Spec => []AppliedOnce
<1>1. Init => AppliedOnce
  BY NoReceipts DEF AppliedOnce
<1>2. TypeOK /\ AppliedOnce /\ [Next]_vars => AppliedOnce'
  <2> SUFFICES ASSUME TypeOK, AppliedOnce, [Next]_vars PROVE AppliedOnce'
    OBVIOUS
  <2>1. CASE receipts' = receipts
    BY <2>1 DEF AppliedOnce
  <2>2. ASSUME NEW h \in Handlers, Execute(h),
               receipts' \in Seq(Receipt), Len(receipts') = Len(receipts) + 1,
               \A i \in 1..Len(receipts) : receipts'[i] = receipts[i],
               receipts'[Len(receipts')] = [cmd |-> handler[h].cmd, at |-> project,
                                            epoch |-> handler[h].epoch]
        PROVE  AppliedOnce'
    <3>1. \A i \in 1..Len(receipts) :
             ~(/\ receipts[i].cmd.kind = handler[h].cmd.kind
               /\ receipts[i].cmd.key = handler[h].cmd.key)
      BY <2>2 DEF Execute, Prior
    <3>2. Len(receipts) \in Nat
      BY DEF TypeOK
    <3> QED BY <2>2, <3>1, <3>2 DEF AppliedOnce
  <2> QED BY <2>1, <2>2, ReceiptStep
<1> QED BY <1>1, <1>2, TypeCorrect, PTL DEF Spec

\* A command is applied only to the project that its page showed.
THEOREM AppliedToWhatWasSeen == Spec => []AppliedAsSeen
<1> DEFINE AsSeen(r) ==
        IF r.cmd.kind = "transition"
        THEN r.cmd.version = r.at.version /\ r.cmd.archived = r.at.archived
        ELSE /\ ~r.at.archived /\ r.epoch = r.at.version
             /\ r.cmd.content = r.at.content
             /\ r.cmd.lines => r.cmd.rows = r.at.rows
<1>0. AppliedAsSeen <=> \A i \in 1..Len(receipts) : AsSeen(receipts[i])
  BY DEF AppliedAsSeen
<1>1. Init => AppliedAsSeen
  BY NoReceipts DEF AppliedAsSeen
<1>2. TypeOK /\ AppliedAsSeen /\ [Next]_vars => AppliedAsSeen'
  <2> SUFFICES ASSUME TypeOK, AppliedAsSeen, [Next]_vars PROVE AppliedAsSeen'
    OBVIOUS
  <2>1. CASE receipts' = receipts
    BY <2>1 DEF AppliedAsSeen
  <2>2. ASSUME NEW h \in Handlers, Execute(h),
               receipts' \in Seq(Receipt), Len(receipts') = Len(receipts) + 1,
               \A i \in 1..Len(receipts) : receipts'[i] = receipts[i],
               receipts'[Len(receipts')] = [cmd |-> handler[h].cmd, at |-> project,
                                            epoch |-> handler[h].epoch]
        PROVE  AppliedAsSeen'
    <3> DEFINE r == [cmd |-> handler[h].cmd, at |-> project, epoch |-> handler[h].epoch]
    <3>1. AsSeen(r)
      <4>1. Accepted(h) /\ handler[h].reply = "none"
        BY <2>2 DEF Execute
      <4>2. handler[h].cmd.kind \in {"save", "transition"}
        BY <4>1, PendingType DEF Commands, Saves, Transitions
      <4>3. CASE handler[h].cmd.kind = "save"
        BY <4>1, <4>3 DEF Accepted, MayWrite, SameContent
      <4>4. CASE handler[h].cmd.kind = "transition"
        BY <4>1, <4>4 DEF Accepted, SameVersion
      <4> QED BY <4>2, <4>3, <4>4
    <3>2. Len(receipts) \in Nat
      BY DEF TypeOK
    <3>3. \A i \in 1..Len(receipts') : AsSeen(receipts'[i])
      <4> SUFFICES ASSUME NEW i \in 1..Len(receipts') PROVE AsSeen(receipts'[i])
        OBVIOUS
      <4>1. CASE i \in 1..Len(receipts)
        BY <1>0, <2>2, <4>1
      <4>2. CASE i = Len(receipts')
        BY <2>2, <3>1, <4>2
      <4> QED BY <2>2, <3>2, <4>1, <4>2
    <3> QED BY <3>3 DEF AppliedAsSeen
  <2> QED BY <2>1, <2>2, ReceiptStep
<1> QED BY <1>1, <1>2, TypeCorrect, PTL DEF Spec

\* Only a handler's own answer makes a change that is no admission of it.
LEMMA AnswerStep ==
    ASSUME TypeOK, Next, NEW g \in Handlers,
           handler'[g] # handler[g], handler'[g].reply \notin {"none", "free"}
    PROVE  Replay(g) \/ Execute(g) \/ Refuse(g)
<1>1. ASSUME NEW h \in Handlers, NEW cmd \in sent, Admit(h, cmd) PROVE FALSE
  BY <1>1 DEF Admit, TypeOK
<1>2. ASSUME NEW h \in Handlers, h # g, Replay(h) \/ Execute(h) \/ Refuse(h)
      PROVE  FALSE
  BY <1>2 DEF Replay, Execute, Refuse, Reply, TypeOK
<1>3. ASSUME Deploy PROVE FALSE
  BY <1>3 DEF Deploy, Free
<1> QED BY <1>1, <1>2, <1>3 DEF Next, ComposeSave, ComposeTransition, Compose, Edit

\* A command that is reported done has a receipt.
THEOREM DoneHasReceipt == Spec => DoneIsDone
<1> DEFINE Told(h) == handler'[h] # handler[h] /\ handler'[h].reply \in {"applied", "replayed"}
           Recorded(h) == \E i \in 1..Len(receipts') : receipts'[i].cmd = handler[h].cmd
<1>1. TypeOK /\ [Next]_vars => [\A h \in Handlers : Told(h) => Recorded(h)]_vars
  <2> SUFFICES ASSUME TypeOK, Next, NEW g \in Handlers, Told(g) PROVE Recorded(g)
    OBVIOUS
  <2>1. Replay(g) \/ Execute(g) \/ Refuse(g)
    BY AnswerStep
  <2>2. CASE Replay(g)
    <3> DEFINE cmd == handler[g].cmd
    <3>1. PICK i \in Prior(cmd) : Reply(g, IF SameBody(i, cmd) THEN "replayed" ELSE "reused")
      BY <2>2 DEF Replay
    <3>2. SameBody(i, cmd)
      BY <3>1, ReplyType DEF Replies
    <3> QED BY <2>2, <3>1, <3>2 DEF Replay, Prior, SameBody
  <2>3. CASE Execute(g)
    <3>1. PICK rec \in Receipt : rec.cmd = handler[g].cmd /\ receipts' = Append(receipts, rec)
      <4> DEFINE r == [cmd |-> handler[g].cmd, at |-> project, epoch |-> handler[g].epoch]
      <4>1. handler[g].reply = "none"
        BY <2>3 DEF Execute
      <4>2. r \in Receipt
        BY <4>1, PendingType DEF Receipt, TypeOK
      <4> QED BY <2>3, <4>2 DEF Execute
    <3>2. Len(receipts') = Len(receipts) + 1 /\ receipts'[Len(receipts) + 1] = rec
      BY <3>1 DEF TypeOK
    <3>3. Len(receipts) \in Nat
      BY DEF TypeOK
    <3> QED BY <3>1, <3>2, <3>3
  <2>4. CASE Refuse(g)
    BY <2>4, ReplyType DEF Refuse, Replies
  <2> QED BY <2>1, <2>2, <2>3, <2>4
<1> QED BY <1>1, TypeCorrect, PTL DEF Spec, DoneIsDone

\* "Nothing was saved" is true of every delivery of the command so far, unless
\* it is said to a page of another workbook version.
THEOREM RefusalIsTrue == Spec => RefusedWasNotDone
<1> DEFINE Told(h) == /\ handler'[h] # handler[h] /\ handler'[h].reply = "refused"
                      /\ ~Outdated(handler[h].cmd)
           Undone(h) == \A i \in 1..Len(receipts) : receipts[i].cmd # handler[h].cmd
<1>1. TypeOK /\ [Next]_vars => [\A h \in Handlers : Told(h) => Undone(h)]_vars
  <2> SUFFICES ASSUME TypeOK, Next, NEW g \in Handlers, Told(g) PROVE Undone(g)
    OBVIOUS
  <2>1. Replay(g) \/ Execute(g) \/ Refuse(g)
    BY AnswerStep
  <2>2. ASSUME Replay(g) \/ Execute(g) PROVE FALSE
    <3>1. PICK reply \in {"applied", "replayed", "reused"} : Reply(g, reply)
      BY <2>2 DEF Replay, Execute
    <3> QED BY <3>1, ReplyType DEF Replies
  <2> QED BY <2>1, <2>2 DEF Refuse, MayRefuse, Prior
<1> QED BY <1>1, TypeCorrect, PTL DEF Spec, RefusedWasNotDone

----------------------------------------------------------------------------
(* The commands implement RunOnce.                                         *)

\* What RunOnce sees.
OutcomeNow == [id \in Ids |-> Outcome(id)]
BoundNow == [id \in Ids |-> NewestReceipt(id)]

\* A pending command is one that was composed.
PendingWasSent ==
    \A h \in Handlers : handler[h].reply = "none" => handler[h].cmd \in sent

OnceInv == TypeOK /\ AppliedOnce /\ PendingWasSent

\* The id of a command.
IdOf(cmd) == [kind |-> cmd.kind, key |-> cmd.key]

\* A command has the id it bears.
LEMMA IdIs ==
    ASSUME NEW cmd \in Commands
    PROVE  IdOf(cmd) \in Ids /\ cmd.kind \in {"save", "transition"} /\ cmd.key \in Keys
BY DEF Commands, Saves, Transitions, Ids, IdOf

\* Commands handlers carry were composed, whoever answers or is admitted.
LEMMA SentStep == TypeOK /\ PendingWasSent /\ [Next]_vars => PendingWasSent'
<1> SUFFICES ASSUME TypeOK, PendingWasSent, [Next]_vars,
                    NEW g \in Handlers, handler'[g].reply = "none"
             PROVE  handler'[g].cmd \in sent'
  BY DEF PendingWasSent
<1>1. sent \subseteq sent'
  BY DEF Next, vars, ComposeSave, ComposeTransition, Compose, Edit, Deploy, Admit, Replay,
     Execute, Refuse
<1>2. CASE handler'[g] = handler[g]
  BY <1>1, <1>2 DEF PendingWasSent
<1>3. ASSUME NEW h \in Handlers, NEW cmd \in sent, Admit(h, cmd), handler'[g] # handler[g]
      PROVE  handler'[g].cmd \in sent
  <2>1. h = g
    BY <1>3 DEF Admit, TypeOK
  <2> QED BY <1>3, <2>1 DEF Admit, TypeOK
<1>4. ASSUME NEW h \in Handlers, Replay(h) \/ Execute(h) \/ Refuse(h)
      PROVE  handler'[g] = handler[g]
  <2>1. PICK reply \in Replies : Reply(h, reply)
    BY <1>4 DEF Replay, Execute, Refuse, Replies
  <2> QED BY <2>1, ReplyType
<1>5. ASSUME Deploy PROVE FALSE
  BY <1>5 DEF Deploy, Free
<1> QED BY <1>1, <1>2, <1>3, <1>4, <1>5
        DEF Next, vars, ComposeSave, ComposeTransition, Compose, Edit

\* While there is one receipt of an id at most, it is the newest.
LEMMA NewestIs ==
    ASSUME AppliedOnce, NEW id \in Ids, NEW i \in Prior(id)
    PROVE  NewestReceipt(id) = i
<1>1. \A j \in Prior(id) : j = i
  BY DEF Prior, AppliedOnce
<1>2. i \in Nat
  BY DEF Prior
<1>3. \A j \in Prior(id) : j <= i
  BY <1>1, <1>2
<1>4. NewestReceipt(id) \in Prior(id)
  BY <1>3 DEF NewestReceipt
<1> QED BY <1>1, <1>4

\* Composing a command opens its id, unless it was used before.
LEMMA ComposeIsOpen ==
    ASSUME TypeOK, NEW cmd \in Commands, Compose(cmd)
    PROVE  [Once!Next]_(Once!vars)
<1> DEFINE k == IdOf(cmd)
<1>1. k \in Ids /\ k.kind = cmd.kind /\ k.key = cmd.key
  BY IdIs DEF IdOf
<1> HIDE DEF k
<1>2. sent' = sent \union {cmd} /\ receipts' = receipts
  BY DEF Compose
<1>3. \A id \in Ids : Prior(id)' = Prior(id) /\ NewestReceipt(id)' = NewestReceipt(id)
  BY <1>2 DEF Prior, NewestReceipt
<1>4. BoundNow' = BoundNow
  BY <1>3 DEF BoundNow
<1>5. ASSUME NEW id \in Ids, id # k
      PROVE  Outcome(id)' = Outcome(id)
  <2>1. ~(cmd.kind = id.kind /\ cmd.key = id.key)
    BY <1>1, <1>5 DEF Ids
  <2> QED BY <1>2, <1>3, <2>1 DEF Outcome
<1>6. CASE Outcome(k) = "NONE"
  <2>1. Outcome(k)' = "OPEN"
    BY <1>1, <1>2, <1>3, <1>6 DEF Outcome
  <2>2. OutcomeNow' = [OutcomeNow EXCEPT ![k] = "OPEN"] /\ OutcomeNow[k] = "NONE"
    BY <1>1, <1>5, <1>6, <2>1 DEF OutcomeNow
  <2>3. Once!Open(k)
    BY <1>4, <2>2 DEF Once!Open, OutcomeNow, BoundNow
  <2> QED BY <1>1, <2>3 DEF Once!Next
<1>7. CASE Outcome(k) # "NONE"
  <2>1. Outcome(k)' = Outcome(k)
    BY <1>1, <1>2, <1>3, <1>7 DEF Outcome
  <2>2. OutcomeNow' = OutcomeNow
    BY <1>5, <2>1 DEF OutcomeNow
  <2> QED BY <1>4, <2>2 DEF Once!vars, OutcomeNow, BoundNow
<1> QED BY <1>6, <1>7

\* Applying a command binds its id to the receipt that is appended.
LEMMA ExecuteIsCommit ==
    ASSUME OnceInv, AppliedOnce', NEW h \in Handlers, Execute(h),
           receipts' \in Seq(Receipt), Len(receipts') = Len(receipts) + 1,
           \A i \in 1..Len(receipts) : receipts'[i] = receipts[i],
           receipts'[Len(receipts')] = [cmd |-> handler[h].cmd, at |-> project,
                                        epoch |-> handler[h].epoch]
    PROVE  [Once!Next]_(Once!vars)
<1>0. PICK cmd \in Commands, n \in Nat \ {0} : cmd = handler[h].cmd /\ n = Len(receipts) + 1
  BY PendingType DEF OnceInv, TypeOK, Execute
<1>1. /\ TypeOK /\ Len(receipts) \in Nat /\ n = Len(receipts) + 1
      /\ cmd \in sent /\ sent' = sent /\ Prior(cmd) = {}
  BY <1>0 DEF OnceInv, TypeOK, Execute, PendingWasSent
<1>2. PICK k \in Ids : k.kind = cmd.kind /\ k.key = cmd.key
  BY IdIs DEF IdOf
<1>3. Len(receipts') = n /\ receipts'[n].cmd = cmd
  BY <1>0
<1>4. Prior(k) = {} /\ Prior(k)' = {n}
  <2>1. Prior(k) = {}
    BY <1>1, <1>2 DEF Prior
  <2>2. \A i \in 1..Len(receipts) :
           ~(receipts[i].cmd.kind = k.kind /\ receipts[i].cmd.key = k.key)
    BY <2>1 DEF Prior
  <2> QED BY <1>1, <1>2, <1>3, <2>1, <2>2 DEF Prior
<1>5. ASSUME NEW id \in Ids, id # k
      PROVE  Prior(id)' = Prior(id)
  <2>1. ~(receipts'[n].cmd.kind = id.kind /\ receipts'[n].cmd.key = id.key)
    BY <1>2, <1>3, <1>5 DEF Ids
  <2> QED BY <1>1, <2>1 DEF Prior
<1>6. Outcome(k) = "OPEN" /\ Outcome(k)' = "COMMITTED"
  BY <1>1, <1>2, <1>4 DEF Outcome
<1>7. NewestReceipt(k) = 0 /\ NewestReceipt(k)' = n
  <2>1. NewestReceipt(k) = 0
    BY <1>4 DEF NewestReceipt
  <2>2. NewestReceipt(k)' = CHOOSE i \in {n} : \A j \in {n} : j <= i
    BY <1>4 DEF NewestReceipt
  <2>3. \A j \in {n} : j <= n
    BY <1>1
  <2> QED BY <2>1, <2>2, <2>3
<1>8. \A id \in Ids : id # k => /\ Outcome(id)' = Outcome(id)
                                /\ NewestReceipt(id)' = NewestReceipt(id)
  <2>1. ASSUME NEW id \in Ids, id # k
        PROVE  /\ Outcome(id)' = Outcome(id)
               /\ NewestReceipt(id)' = NewestReceipt(id)
    <3>1. Prior(id)' = Prior(id)
      BY <1>5, <2>1
    <3>2. Outcome(id)' = Outcome(id)
      BY <1>1, <3>1 DEF Outcome
    <3>3. NewestReceipt(id)' = NewestReceipt(id)
      BY <3>1 DEF NewestReceipt
    <3> QED BY <3>2, <3>3
  <2> QED BY <2>1
<1>9. \A id \in Ids : NewestReceipt(id) # n
  <2>1. ASSUME NEW id \in Ids, NEW i \in Prior(id)
        PROVE  NewestReceipt(id) # n
    <3>1. NewestReceipt(id) = i /\ i \in 1..Len(receipts)
      BY <2>1, NewestIs DEF OnceInv, Prior
    <3> QED BY <1>1, <3>1
  <2>2. ASSUME NEW id \in Ids, Prior(id) = {}
        PROVE  NewestReceipt(id) # n
    BY <1>1, <2>2 DEF NewestReceipt
  <2> QED BY <2>1, <2>2
<1>10. /\ OutcomeNow[k] = "OPEN" /\ OutcomeNow' = [OutcomeNow EXCEPT ![k] = "COMMITTED"]
       /\ BoundNow' = [BoundNow EXCEPT ![k] = n] /\ BoundNow'[k] = n
       /\ \A id \in Ids : BoundNow[id] # n
  BY <1>6, <1>7, <1>8, <1>9 DEF OutcomeNow, BoundNow
<1>11. Once!Commit(k)
  BY <1>10 DEF Once!Commit, OutcomeNow, BoundNow
<1> QED BY <1>11 DEF Once!Next

\* Every step of the project is a step of RunOnce or none.
LEMMA OnceStep ==
    OnceInv /\ OnceInv' /\ [Next]_vars => [Once!Next]_(Once!vars)
<1> SUFFICES ASSUME OnceInv, OnceInv', [Next]_vars
             PROVE  [Once!Next]_(Once!vars)
  OBVIOUS
<1>1. CASE UNCHANGED <<sent, receipts>>
  BY <1>1 DEF Once!vars, Outcome, NewestReceipt, Prior
<1>2. ASSUME NEW key \in Keys,
             \/ ComposeTransition(key)
             \/ \E new \in Contents, lines \in BOOLEAN : ComposeSave(key, new, lines)
      PROVE  [Once!Next]_(Once!vars)
  <2>1. PICK cmd : Compose(cmd)
    BY <1>2 DEF ComposeSave, ComposeTransition
  <2>2. cmd \in Commands
    BY <2>1 DEF OnceInv, TypeOK, Compose
  <2> QED BY <2>1, <2>2, ComposeIsOpen DEF OnceInv
<1>3. ASSUME NEW h \in Handlers, Execute(h)
      PROVE  [Once!Next]_(Once!vars)
  <2>1. CASE receipts' = receipts
    BY <1>1, <1>3, <2>1 DEF Execute
  <2>2. CASE receipts' # receipts
    <3>1. PICK g \in Handlers :
                /\ Execute(g)
                /\ receipts' \in Seq(Receipt) /\ Len(receipts') = Len(receipts) + 1
                /\ \A i \in 1..Len(receipts) : receipts'[i] = receipts[i]
                /\ receipts'[Len(receipts')] = [cmd |-> handler[g].cmd, at |-> project,
                                               epoch |-> handler[g].epoch]
      BY <2>2, ReceiptStep DEF OnceInv
    <3> QED BY <3>1, ExecuteIsCommit DEF OnceInv
  <2> QED BY <2>1, <2>2
<1>4. CASE \/ \E new \in Contents, lines \in BOOLEAN : Edit(new, lines)
           \/ \E h \in Handlers : \/ \E cmd \in sent : Admit(h, cmd)
                                  \/ Replay(h) \/ Refuse(h)
           \/ Deploy
  BY <1>1, <1>4 DEF Edit, Deploy, Admit, Replay, Refuse
<1>5. CASE UNCHANGED vars
  BY <1>1, <1>5 DEF vars
<1> QED BY <1>2, <1>3, <1>4, <1>5 DEF Next

\* However often and with whatever bodies the commands of a request id are
\* delivered, the id gets one receipt, which is no other id's and stays.
THEOREM CommandsRunOnce == Spec => CommandsImplementOnce
<1>1. Init => PendingWasSent
  BY DEF Init, PendingWasSent, Free
<1>2. Init => Once!Init
  <2> SUFFICES ASSUME Init PROVE Once!Init
    OBVIOUS
  <2>1. ASSUME NEW id \in Ids
        PROVE  Outcome(id) = "NONE" /\ NewestReceipt(id) = 0
    <3>1. Prior(id) = {}
      BY NoReceipts DEF Prior
    <3> QED BY <3>1 DEF Init, Outcome, NewestReceipt
  <2> QED BY <2>1 DEF Once!Init
<1>3. OnceInv <=> TypeOK /\ AppliedOnce /\ PendingWasSent
  BY DEF OnceInv
<1> QED BY <1>1, <1>2, <1>3, SentStep, OnceStep, TypeCorrect, AppliedAtMostOnce, PTL
        DEF Spec, CommandsImplementOnce, Once!Spec
=============================================================================
