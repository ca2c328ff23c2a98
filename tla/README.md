# FINCO Protocol: specifications and proofs

TLA+ specifications of the parts of FINCO Protocol in which several requests,
threads, processes or crashes meet: how a workbook is run and its result
committed exactly once, how commands and creations are retried, how
calculations and data collections are admitted and survive dying workers, how
alerts keep their checkpoint. One pure algorithm, the carrying forward of tax
losses, is compared with its two other implementations and with every rival
order of using the losses. TLC checks every specification on small instances;
TLAPS proves their safety properties and refinements for every value of the
constants.

Paths such as `app/...` are relative to the repository's source tree.

## 1. The system

FINCO is a web application over one SQLite database. A user edits a *workbook*
(a draft snapshot, CAPEX/OPEX rows, scenarios with overrides), and *runs* it:
the deterministic financial engine calculates for seconds in a worker process,
and the result is committed as the project's *Last Run* and as one row of the
append-only *run history*. Around it are market data collectors, alerts and
access control.

### Inventory

| Component (source) | State | Operations | What is hard | What makes it correct |
|---|---|---|---|---|
| **Run intent ledger** (`app/persistence/run_intent_repository.py`, `app/services/run_intent_service.py`) | `model_run_intents`: state, binding, fingerprint, generation, owner nonce, lease, history id | lookup/decide, reserve, start, finalize_cursor, fail, recover, committed_decision | retries of a lost answer, death of the owner, lease expiry against the wall clock, takeover racing the old owner | one owner; outcome immutable and fenced; answers are of the original run; no claim busy for ever |
| **Run route and commit** (`v2_workbook_run` in `app/v2/router.py`, `app/persistence/workspace_repository.py`, `run_history_repository.py`) | `workspace_states` (draft, saved, dirty, Last Run and its identity), `model_run_history` | load, identity check, materialise, fold, claim, run, commit, summarise; draft CAS; legacy save and discard | four read transactions, seconds of calculation, one commit, every other writer in between | a result is recorded only for the content it was calculated from; Last Run is one run; all or nothing |
| **Workbook identity** (`app/workbook/workbook_identity.py`) | none (a digest of the state) | assemble | must cover whatever the engine reads | equal identity iff equal content |
| **Scenarios** (`app/persistence/scenarios_repository.py`, `app/v2/scenario_presentation.py`) | scenarios, overrides, last-run summary, active scenario | select (restores a Last Run), update overrides, present CURRENT/STALE | restored columns, summary written after the commit, lost updates | a CURRENT card is true; Last Run is one run |
| **Project lifecycle** (`app/persistence/project_lifecycle_repository.py`) | archived, lifecycle_version, events | admit, write fences, transition, receipts | requests admitted before a transition; archive-restore A-B-A; retried transitions | nothing written while archived or across a transition; each request applied once |
| **Legacy saves** (`app/services/scenario_state_route_service.py`) | none | draft, discard | whole-row read-modify-write outside the transaction | no committed run is torn or lost |
| **Line commands, Save All** (`app/v2/capex_commands.py`, `opex_commands.py`, `save_all_commands.py`, `cost_batch_commands.py`) | cost lines, `save_all_requests` | CAS transactions with request-id replay | lost answers, retries after the workbook moved on, content that returned to what it was | applied once, to what the page showed; a refusal is the truth |
| **Project creation** (`app/services/reference_seed_service.py`, `project_library_service.py`, `app/persistence/projects_repository.py`) | `projects` with `create_request_id/state`, their workspace, scenario, lines | observe, plan a code, insert, fill, seed + COMPLETE, sweep | five transactions; slow creators against the sweep; whole-record write-back; two deliveries at once | one project per request; COMPLETE is whole; abandoned stays abandoned; every request is resolved |
| **Model executor** (`app/runtime/model_execution.py`) | gate, pools and generations, retirements, warm evidence | admit, submit, await, finish, retire, warm_up, shutdown | callers leave, workers die, late failures of replaced pools | slots conserved, computation bounded, healthy pools kept, everyone answered |
| **Radar acquisition** (`app/radar_runtime/`) | cache, snapshot store, single-flight map, provider slots | acquire, close | waiters, two deadlines, late answers, failing stores, closing | slots conserved; late answers never count; the cache moves forward; every call answered |
| **RWA snapshot warming** (`app/radar_rwa/r_live_*.py`) | cross-process lease, snapshots, loop, heartbeat and cleanup threads | acquire, renew, collect, publish, shutdown, start | collection outlives its lease; partial shutdowns; restarts; dead holders | an overtaken batch is never published; shutdown leaves nothing; a dead holder is replaced |
| **Yield alerts** (`finco_yield/alerts_*.py`, `evaluate_alerts.py`, `watchlist.py`, `history.py`) | observations, watch list, alerts, checkpoints | list, read, baseline, transitions, state-only alerts | overlap of the batch and a Refresh, crash between transitions, unwatch and watch again | no alert lost behind the checkpoint; nothing unwatched replayed; checkpoints settle |
| **Financial engine** (`financial_engine/`, `finco_core/`, `domain/`) | none | pure calculation | three implementations of one loss rule; otherwise floating point | the loss schedules agree and tax least; the rest is covered by the reference corpora |
| **Native shadow, background services** (`app/runtime/native_shadow.py`, `app/background_lifecycle.py`) | owned threads | start, replace, stop by a deadline | incomplete shutdown | never two; never an orphan |
| **Backup/restore** (`app/persistence/backup_restore.py`) | files | copy, restore, prune | copies of a live WAL database | a backup is one state |
| **Usage ledger, wallet auth, certificates, limiters** | small tables, counters | single statements | little | unique keys, single-use nonces |

Interactions: a Run passes the lifecycle's admission, the intent ledger, the
executor, and the commit transaction, in which the lifecycle fence, the final
identity comparison, the owner fence, the Last Run, the history row and the
intent's outcome stand or fall together. Selection restores the Last Run from
the history; the card of a scenario compares its summary with its overrides.
Save All, archive and restore act on the same project row and are fenced by the
same lifecycle version. Creation rows become such projects. Warming, acquisition
and alerts share no state with the workbook, nor with each other.

## 2. The modules

    RunOnce            the promise: one immutable outcome per key
      ^ implemented by RunIntent, by ProjectCreation and by the Run route in
        WorkbookRun (each checked and proved), and by ProjectCommands (proved)
    AtomicWorkbook     the promise: a Run is recorded in one instant or not at all
      ^ implemented by WorkbookRun (checked and proved)

    RunIntent          leases, generations, requests
    WorkbookRun        the Run route, the commit, the other writers, lifecycle
    ProjectCommands    Save All, archive and restore under request ids
    ProjectCreation    keyed creation of a project and the sweep
    ModelExecutor      gate, pools, callers
    Acquisition        cache, single flight, provider pool, deadlines
    SnapshotWarmer     lease, loop, heartbeat, fence, shutdown, restart
    YieldAlerts        overlapping evaluators of one watched opportunity
    LossLedger         three schedules of loss carryforward, side by side

    MC<module>         instances for TLC: the sets a .cfg names
    <module>Proofs     theorems: RunIntent, SnapshotWarmer, ProjectCommands,
                       ProjectCreation, Acquisition, WorkbookRun, YieldAlerts
    EngineProofs       theorems: ModelExecutor and LossLedger

A write transaction (`BEGIN IMMEDIATE`/`EXCLUSIVE`) is one action; so is what a
lock makes atomic. Between two transactions of a request everything else may
happen, the request's death included.

**RunIntent.** `ledger[k]` is the row of a key, `req[q].row` the `Reservation`
a request decoded and keeps. `Owns` is `require_owner_cursor`, `Update` is
`_write` under the identity trigger (`TriggerAllows` is a guard: an update the
trigger refuses does not happen; no action of the model is ever held up by it).
`Lookup`/`DecideExisting` are the two transactions of `decide` (row, then clock);
`Reserve`, `Start`, `FailAttempt`, `Commit`, `ReadBack` and `Recover` follow the
functions of the same names. `Crash` is a killed process or a cancelled task.
A digest is modelled by what it is a digest of: `Bindings` are submitted
(version, content) pairs, `Fingerprints` effective inputs. `RecoveryWired` says
whether an operator calls `recover()`; nothing under `app/` does today.

**WorkbookRun.** `book` is the editable content, `Identity(book)` the composite
identity (a hash is its content), `last` the Last Run with `run` (its figures)
and `hash` (`last_runtime_composite_hash`) separate because the code writes them
separately. One action per step of `v2_workbook_run`: `Begin`, `Load`,
`CheckIdentity`, `ResolveScenario`, `FoldRows`, `Claim`, `Compute` or
`EngineFails`, `Commit` or `CommitFails`, `Summarise`. The other writers are the
CAS edits, overrides, selection, the legacy draft and discard saves (two reads
and a write, each an action) and archive/restore. Three fields only observe:
`inputs` of a history entry (what the engine was really given), `quiet` (no edit
happened while the inputs were read) and `job[q].since`. `finished` orders
`ran_at`. The ledger appears as the variables of RunOnce; a lost lease is a
choice in `MarkFailed` and `CommitFails`.

**AtomicWorkbook.** What the Run route, the other writers and the lifecycle
amount to for somebody who sees the content, the Last Run, the runs recorded and
the answers. Its `Run` is one step: the run appended is of the content of that
instant, is the Last Run, spends its intent, and, if nobody edited while the
inputs were read, was calculated from that very content. `WorkbookRun` maps to it
with `content` the identity of `book`, the lifecycle's archived flag as `open`,
and `Told(q)` as the answer: a reply FAILED maps to "unsaved" where a commit
cannot fail after COMMIT, and to "lost" where it can. `PutBack` is the one thing
a legacy save can do to a Last Run; without legacy savers it is disabled.

**ProjectCommands.** A command is composed on a page, which fixes what it
expects (`ComposeSave`: content hash and row version; `ComposeTransition`:
lifecycle version), and is delivered to handlers any number of times. `Admit` is
the lookup of the project before the transaction; `Replay`, `Execute` and
`Refuse` are the ways `save_all` and `transition` end, in the order the code
tries them: for a Save All the workbook version of its page (`Outdated`), before
any transaction; then a receipt of the request id, then the lifecycle fence, then
content and row versions. `Deploy` replaces the server by one of another workbook
version and loses the requests in it. `Edit` is every other tab. A receipt keeps the project
it was applied to, only for the properties. An answer may be lost because a
handler's answer is never remembered.

**ProjectCreation.** `projects` are the rows that carry a create request, with
the `parts` written so far; an attempt (`attempt[a]`) runs through `Observe`,
`Sweep`, `Plan`, `Insert`, the four transactions that fill the project and
`Seed`, which writes the cost lines and COMPLETE together. `ReadRecord` and
`WriteRecord` are the two halves of `update_project_record`, which writes back
the state and the archived flag it read. `LeasePasses` makes a row old enough
for the sweep; its creator may be dead or slow. With two request ids no attempt
ever plans a third time, so the error for want of a free code is not reached.

**ModelExecutor.** A caller (`call[q]`) makes one call after another by one of
the four ways in; its record carries the caller's wait, the future and the slot,
which end at different times. Pools are generation numbers; `broken` holds those
a worker of which died. `Take`, `Finish`, `Break` and `FailFuture` are the
standard library's pool as the executor uses it. Inline work is done by the
caller itself. The ways in which `_submit` fails are four actions: a broken pool
refuses before it queues anything (`SubmitRefused`, ended by `GiveUp`), no pool
can be made (`NoPoolMade`), or the pool queues the call and then cannot spawn the
process or thread for it (`SpawnFails`); the last two end in `GiveUpAnyway`, the
branch `except BaseException`, which frees the slot whatever was queued. A call
that stays queued so is a *stray*: it may run, no slot counts it, nobody waits.
`Init` has every outcome of `warm_up`: all workers warm or some, a retired pool
that is broken or only slow, and no pool at all. A new call of the same caller begins when its last calculation
gave its slot back, so the number of callers bounds the calculations a caller
may abandon.

**Acquisition.** Callers and provider workers are threads. `Lookup`, `Join`,
`Lead`, `Wake` are the cache and the single-flight map; `Start`, `Dispatch`,
`Admit`, `Collect` the acquisition; `Persist`, `CachePut`, `Settle`, `Signal` its
end. A worker's `Return` takes the completion time, `Publish` sets the marker,
`Release` gives the slot back: three steps, because the code takes the time
outside the lock. `threads` are those of the pool, which are started as work
comes; where one cannot be started `Admit` leaves a *stray*: its work is queued,
its slot was given back, its caller is told that the service is closed
(`except RuntimeError`). The semaphore is bounded, so a release too many raises
in the worker (`Release`). Left out: a pool that refuses because the interpreter
exits, and a row missing from the store, from which nothing deletes; that the
store raises is in `Lookup`. Every source is configured, and an answer or exception in time
is "done": classification changes no shared state. A snapshot has its flight's
number. A second acquisition of a request after a cache miss is possible, as in
the code: the miss and the single-flight map are two critical sections.

**SnapshotWarmer.** `row` is the lease row with its remaining ticks; `warmer[p]`
the object of a process with its loop, heartbeat and cleanup threads and the
progress of a call of `shutdown()`. Every transaction may be refused by SQLite
(`MaxFaults`), every join may time out, a process may die. `behind` and
`overtaken` only observe: a snapshot collected later than this collector's was
published. The collector's health record is written outside the fence and is
not modelled.

**YieldAlerts.** One user and one watched opportunity. An evaluator `List`s the
watch list, reads history and checkpoint, and commits transitions one by one
(`Baseline`, `Transition`, `StateOnly`), each with its alerts and the checkpoint
together. The watch list entry may be removed and made again (`stamps` are its
`saved_at`), the registry changes, evidence grows old. An alert is its identity,
so that two equal alerts are one, as under the table's key. `born` and
`baseline` only observe.

**LossLedger.** One step is one tax year of `run_annual_fifo_ledger`, of its
numeric twin in the debt solver and of the rolling schedule in `finco_core`, on
the same whole amounts; a rival uses the same losses in any order. A pool is a
sequence of vintages in which an expired or exhausted vintage keeps its place
with amount 0, where the code takes it off the list: what is used, kept and
taxed is the same, and the three pools stay comparable place by place.
`Carried(p)[i]` is what the first `i` vintages hold. The opening vintages are
put in order by `Orders`, the stable sort of `_opening_states_from_inputs`.

**Faulty variants.** Each module holds variants of some definitions, marked
*Faulty* in their comments (`OwnsForEver`, `HalfRestored`, `RetireCurrent`, ...).
No specification uses them. Put in the place of the definition they follow, each
makes TLC report the property that it is there to show sensitive.

## 3. What TLC checks

| Run | Instance | States | Properties | Shows |
|---|---|---|---|---|
| `Ledger` | 3 requests, 1 key, 2 bindings, lease 1, time 3, one clock setback | 415,668 | `SingleOwner`, `HistoryMatchesLedger`, `AnswersAreOriginal`, `FencedOutcome`, `EventuallySettled`, `ImplementsRunOnce` | takeover is fenced; retries get the original run; the ledger implements RunOnce |
| `Executor` | 2 callers, 1 slot, 3 pools, breaker at 2, failing spawns | 186,165 | `SlotsAddUp`, `BoundedCalculation`, `RefusedMeansNotRun`, `HealthyPoolKept`, `EveryoneAnswered`, `OnlyRunningKeepsSlot` | slots, pools and strays; nobody waits for ever |
| `RunCommit` | 2 Runs, 1 intent id, 2 scenarios, 2 edits | 887,410 | `LastRunIsWhole`, `IntentNamesItsRun`, `RouteImplementsRunOnce`, `RouteIsAtomic` | the route implements AtomicWorkbook: the two identity checks suffice when nobody edits during the reads; an intent is spent once |
| `RunWithLegacySaves` | 1 Run, 1 legacy save, overrides, 2 transitions, 2 edits, a failing commit | 1,325,424 | `ArchivedIsFrozen`, `NoCommitAcrossLifecycle` | the fences hold for every writer |
| `Commands` | 2 request ids, 2 handlers, 3 commands, 2 contents, 3 lifecycle versions, 3 row versions, 1 deployment | 5,376,235 | `AppliedOnce`, `AppliedAsSeen`, `RefusedWasNotDone` | retried commands, also after a deployment |
| `Creation` | 2 attempts, 2 request ids, 2 inputs, 1 death | 1,058,866 | `CompleteIsWhole`, `AbandonedIsFrozen`, `ImplementsRunOnce`, `RetriedIsResolved` | creation against the sweep |
| `Acquisition` | 2 callers, 1 request, 2 providers, 1 slot, time 2, 2 flights, 1 stray | 1,269,994 | `SlotsConserved`, `LateNeverCounts`, `CacheMovesForward`, `EveryCallAnswered` | single flight, deadlines, close |
| `SnapshotWarmer` | 2 processes, lease 1, 1 fault, 1 crash | 317,518 | `OvertakenIsFenced`, `ShutdownIsComplete`, `StartsClean`, `AbandonedIsTakenOver` | the fence and the staged shutdown |
| `YieldWatch` | 2 evaluators, 4 events of the world, 1 crash | 1,565,324 | `NeverPastAlerts`, `UnwatchedNotReplayed`, `StateChangesAlerted`, `CaughtUp` | overlapping evaluation |
| `LossLedger` | 7 tax years, 3 openings, windows of 0 to 3 years | 133,227 | `OldestFirstIsBest`, `TwinAgrees`, `SchedulesAgree` | loss carryforward |
| `RunDiscarded`, `LateMarker` | | | `LastRunIsWhole`, `OnTimeNeverTimedOut` | violated: section 4 |

**Bounds.** *Ledger*: a takeover needs an owner and a successor; the third
request reads or submits other inputs in between. Keys do not interact, so one
suffices. One lease unit with three clock units lets a lease run out twice; the
setback revives one. *WorkbookRun*: two edits are an edit and its reversal, the
least that deceives a comparison; one legacy save and two transitions allow a
save to be admitted before an archive and to write after the restore.
*Executor*: three pool generations with a breaker at two let a late failure of
the first meet the third, and let the breaker trip; two callers on one slot let
an abandoned calculation, or a stray, stand beside a new one. *Commands*: three commands are a Save
All, an archive and a restore, or a Save All between two others; two handlers are
two deliveries of one command at once; two contents and two writes of the lines are
an edit and its reversal; one deployment comes between two deliveries. *Creation*: two attempts are a creator and the sweep, or
two deliveries; they are used again for new submissions without bound.
*Acquisition*: two flights of one request are what the cache can put in the
wrong order; one slot for two providers makes the second find none. One thread that cannot be started leaves a stray beside the
work of the other flight. `Call` and
`Tick` are limited so that an undispatched call keeps the time for its deadline;
without that the clock's end, not the code, would decide. `Close` happens when a
provider is about to be admitted (`Admitting`), the only moment when it is looked
at. *SnapshotWarmer*: a
lease of one tick runs out during any step; start, shutdown and restart are not
bounded. *YieldWatch*: four events are an observation, unwatch and watch again,
and one more. *LossLedger*: seven years exceed the longest window twice.
`CHECK_DEADLOCK FALSE` is set where requests are one-shot, where the
environment's events run out, or where the clock does.

**Fairness.** `RunIntent` assumes only that time passes (`WF(Tick)`): no request
needs to take another step. Its `MaxTime` stops new claims whose lease would end
beyond the bound, so the bound never cuts a lease short. `ModelExecutor` assumes
that threads, callbacks and timers are scheduled (weak fairness of each of their
steps per caller): a calculation need never return, a worker need never die. While
there is a stray no worker need take a call, because the pool may lack the worker,
or the thread that serves it.
`Acquisition` assumes that callers are scheduled and time passes, and of the
workers nothing: no queued provider need start, none that started need answer. `YieldAlerts` assumes that an
evaluator goes on (the batch runner is periodic); `SnapshotWarmer` that the loop
thread and time go on, and of heartbeats, shutdowns and starts nothing.
`ProjectCreation` assumes that attempts go on and rows grow old; that the client
asks again is an assumption of `RetriedIsResolved`, stated in it.

## 4. Disagreements between the code and its documentation

Two runs are expected to fail; each counterexample is a behavior of the code
that a comment excludes.

| Run | Violated | What happens |
|---|---|---|
| `RunDiscarded` | `LastRunIsWhole` | A discard reads, a Run commits, the discard writes: figures of the old run, identity hash of the new. `workspace_repository.py:1317`, `db.py:408`. `LastRunIsWhole` therefore passes only without legacy saves (`RunCommit`). |
| `LateMarker` | `OnTimeNeverTimedOut` | The worker's time is taken before the lock under which it is published. A coordinator that looks in between records a timeout for an answer in time. `service.py:572-579`. |

Others were met while modelling. The actions of the modules include them, and
no run is spent on them:

- A spawn that fails in `submit()` after the call was queued
  (`model_execution.py:438`): the slot is freed and the caller told FAILED, but the
  call is queued and may be calculated, beside the one that takes the freed slot
  and beside its own retry. "Total concurrent expensive computation is one number"
  (12-13) and "the slot is released when the calculation actually finishes"
  (17-18) say otherwise. `BoundedCalculation` and `RefusedMeansNotRun` therefore
  speak of calls that are no strays.
- A thread of the provider pool that cannot be started (`service.py:460`, the
  branch written for a pool that was shut down): the slot is given back at once and
  again by the worker that later takes the queued work, although "no slot can
  leak or double-release" (229-231). `SlotsConserved` says that none leaks, and
  that none is released twice while there is no stray.
- Save All compares the workbook version, and the switch for profiles, before it
  looks up the request id (`save_all_commands.py:131`, `162-163`, `176`). The retry
  of a committed Save All, after a deployment changed either, is refused; where
  the version differs it is told that "your staged edits were not saved"
  (`grid_router.py:367-368`, `386-388`), although "a committed request returns its stored
  outcome" (`frontend/src/app/editing/saveAllApi.ts:3-5`;
  `save_all_commands.py:28-29`). It is not applied a second time.
  `RefusedWasNotDone` speaks of pages that are not outdated.

- An edit to B, a Run that loads B, and an edit back to A: both identity
  comparisons see A, the engine was given B. `router.py:3191` calls the loaded
  draft the values the user approved. (`quiet` in `RouteIsAtomic`
  and in `QuietRunIsHonest` excludes it.)
- Overrides edited between commit and summary are recorded as those of the run,
  and the card says CURRENT (`scenario_presentation.py:10`).
- `ran_at` is stamped before the commit; commit order may differ from it, and
  selecting another scenario and coming back restores by `ran_at`
  (`scenarios_repository.py:348`).
- The read after COMMIT fails and the client is told that nothing was saved
  (`run_intent_service.py:206`): `FailedMeansUnsaved` holds only with
  `CommitMayFail = FALSE`.
- A support state that changes N to D, back to N and to D again while one
  observation stays the latest gives one alert for both changes to D: the
  identity of an alert has no more in it (`alerts_types.py:48-53`).
  `StateChangesAlerted` therefore says that an alert of the change exists, not
  that it is new.
- One refused transaction of the lease store ends warming in this process until
  the application restarts; the others take over when the lease runs out.
- The Save All route answers with an identity that it reads again after its
  transaction, which may be that of a later edit.

## 5. What is proved

For every value of the constants that the named assumptions allow
(`LedgerAssumption`, `ExecutorAssumption`, `WarmerAssumption`,
`CommandsAssumption`, `CreationAssumption`, `AcquisitionAssumption`,
`WorkbookAssumption`, `YieldAssumption`; TLC evaluates each in the runs of its
module):

*RunIntentProofs*

- `TypeCorrect`, `OwnerIsUnique` (`SingleOwner`), `LedgerAgreesWithHistory`
  (`HistoryMatchesLedger`), `OutcomeIsFenced` (`FencedOutcome`),
  `AnswersAreTheOriginals` (`AnswersAreOriginal`), `LedgerImplementsRunOnce`
  (`ImplementsRunOnce`).
- Argument: nonces are issued once and never exceed the counter; every row's
  and every request's nonce is one already issued; two requests that hold a
  claim hold different nonces. The row has one nonce, so at most one copy
  matches. This is invariant because only `Reserve` and `Recover` create a
  claim, each with a fresh nonce. The correspondence of ledger and history
  needs that only a RUNNING row becomes COMMITTED and that terminal rows never
  change. `SingleOwner` alone is not inductive: it says nothing of the nonces of
  requests that are not owners now and could become so when the clock is set back.
- Answers: a request decides by a copy of the row that may be old (`AnswerOf`).
  It was taken from a row with the request's own binding, and rows only advance:
  a binding once inserted stays, and a row that is COMMITTED never changes. So a
  copy that says COMMITTED is the row itself, and the correspondence gives the
  history entry.
- Refinement: `Reserve` maps to `Open`, `FailAttempt` to `Fail`, `Commit` to
  `Commit` (the new history index is bound by no other key, by the
  correspondence), everything else, takeover included, to a stutter.

*EngineProofs*, about the executor (`ModelExecutor`)

- `TypeCorrect`, `SlotsAlwaysAddUp` (`SlotsAddUp`), `CalculationIsBounded`
  (`BoundedCalculation`), `PoolsAreSound` (`NoneLeftBehind`, `WarmIsCurrent`,
  `RetirementsBounded`), `RefusedNeverRan` (`RefusedMeansNotRun`),
  `HealthyPoolIsKept` (`HealthyPoolKept`).
- Argument: the inductive invariant joins the type, the consistency of each
  call (an unfinished future holds its slot or is a stray; a call refused by a broken
  pool has no future; a broken future belongs to a broken pool), the
  consistency of the pools (an unfinished calculation is in the pool that serves or
  in a broken one), and the sum of permits and held slots. The sum is
  inductive only together with the consistency of the calls, which is what
  says that a step that returns a permit takes a caller out of `Held`.

*EngineProofs*, about carried-forward losses (`LossLedger`)

- `OldestFirstPaysLeast` (`OldestFirstIsBest`), `TwinTaxesTheSame` (`TwinAgrees`),
  `ScheduleTaxesTheSame` (`SchedulesAgree`): for any opening vintages, windows,
  incomes and gates, and any number of years.
- Argument: everything is said of the sums `Carried(p)[i]`. Expiry empties a
  prefix of the pool, because vintages are in order of age (`InOrder`); a profit
  lowers each sum by the profit and no further than to 0; a new vintage adds one
  sum. Each of these, and that the twin's running remainder is the profit less
  the sum before it, is an induction over the places of a pool, made from the
  well-foundedness of `<` on the naturals (`LeastOf`, `Induct`): a least
  counterexample exists, and its predecessor refutes it.
- `OldestFirstIsBest` is not inductive: a rival level in tax that still held more
  would be better off in the next year. `LedgerInv` adds `Behind`: in the vintages
  after the `i`-th, for every `i`, the rival holds at most what the ledger holds
  plus the tax base it has already borne in excess (`taxed.rival - taxed.ledger`).
  `i = 0` compares the pools; the other `i` are needed because the oldest vintages
  may expire in the next year.
- `SchedulesAgree`: while the inputs are comparable, the ledger's vintages and
  the schedule's buckets are aligned by age (`Aligned`): the one opening bucket
  stands for the `K` opening vintages, which expire in the same year, and each year
  adds one to both. What the ledger expires when it opens a year, the schedule
  has expired at the end of the year before or expires as it opens this one
  (`ScheduleInv`).

*SnapshotWarmerProofs*

- `TypeCorrect`, `OvertakenNeverPublishes` (`OvertakenIsFenced`),
  `ShutdownLeavesNothing` (`ShutdownIsComplete`), `StartIsClean` (`StartsClean`).
- Argument: for each process, what its record says of its threads (`Sound`), that
  the row names it only while it has a lease object that was acquired
  (`RowHasLease`), and that an overtaken collector is not the row's holder
  (`Fenced`). The fence is invariant because a publication needs the row, the
  row has one holder, and a collection begins only after its process took or
  renewed the lease: whoever began before the publisher and still collects has
  lost the row, and its lease object cannot take it again.

*ProjectCommandsProofs*

- `TypeCorrect`, `AppliedAtMostOnce` (`AppliedOnce`), `AppliedToWhatWasSeen`
  (`AppliedAsSeen`), `DoneHasReceipt` (`DoneIsDone`, which only the proof
  covers), `RefusalIsTrue` (`RefusedWasNotDone`), `CommandsRunOnce`
  (`CommandsImplementOnce`).
- Argument: a step appends at most one receipt, of a request id that has none,
  for a command accepted at that very project, in the same exclusive
  transaction; receipts never change. `RefusalIsTrue` excepts the Save All of an
  outdated page, as the code does (section 4).
- Refinement: sending an id's first command maps to `Open`, the receipt to `Commit`,
  everything else to a stutter. A pending delivery is of a command that was sent
  (`PendingWasSent`), so a commit finds its key open. TLC found no error on the
  instance of `Commands` either, but takes longer for it than a run should,
  so no run lists it.

*ProjectCreationProofs*

- `TypeCorrect`, `CompleteHasEveryPart` (`CompleteIsWhole`),
  `AbandonedStaysFrozen` (`AbandonedIsFrozen`), `CreationImplementsRunOnce`
  (`ImplementsRunOnce`).
- Argument: a row is archived exactly when it is abandoned (`Whole`), a request
  id has one row and a row that is being filled has one creator, which wrote what
  its place in the sequence says (`Filled`). The write-back of the whole record
  is harmless because the copy is outdated only when the row is archived, and
  then the fence refuses it. Rows have distinct ids, so
  there are never more rows than ids. The outcome of a request is then the state of
  its one row, and a step moves one row, adds one, or keeps them.

*AcquisitionProofs*

- `TypeCorrect`, `SlotsAlwaysAddUp` (`SlotsConserved`), `LateIsTimeout`
  (`LateNeverCounts`), `CacheIsMonotone` (`CacheMovesForward`), and three results
  that no run lists: `AnswersAreInTheStore` (whoever is answered with a snapshot
  gets a persisted one of the request asked for), `OneAtATime` (one
  acquisition of a request at a time) and `HiddenOnlyInWindow`.
- Argument: free slots and workers that hold one add up, since only a worker
  gives a slot back, in the step that ends its hold, and a stray never stops being
  one: its result and its place in the pool stay (`ClosedStays`, `StraysStay`). The
  worker of a stray may release a slot that another holds, so without the
  condition only "none leaks" is invariant. A flight has one leader, and it has no
  result before it takes its times (`Led`), so deadlines do not move under
  results; a completion never changes; hence "done" stays in time (`InTime`).
  The flight of a leader is in the map until it settles, after the cache was
  written, and the cache is never newer than the flight in the map (`Mapped`);
  settling removes nobody else's flight because leaders are unique.
- Answers: a flight ends with its snapshot in the store or with an error, and
  the cache and every waiter hold a flight of their own request (`Answered`).
- `HiddenOnlyInWindow` delimits the finding `LateMarker`. It says of every step:
  an answer in time becomes a recorded timeout only when the coordinator collects
  while the worker has taken its time and not yet published it, or when the
  provider returns at the very instant of the deadline. No other interleaving
  hides an answer.

*WorkbookRunProofs*

- `TypeCorrect`, `RouteBehavesAtomically` (`RouteIsAtomic`),
  `QuietRunsAreHonest` (`QuietRunIsHonest`, which the run checks as a part of
  `RouteIsAtomic`), `IntentsNameTheirRuns` (`IntentNamesItsRun`), `ArchivedProjectsAreFrozen`
  (`ArchivedIsFrozen`), `NoCommitCrossesTheLifecycle`
  (`NoCommitAcrossLifecycle`), `RouteUsesTheLedgerOnce`
  (`RouteImplementsRunOnce`), `OnlyALegacySaveSplitsTheLastRun`,
  `LastRunStaysWhole` (`LastRunIsWhole`).
- Argument: `QuietRunIsHonest` speaks of runs that are already recorded; what
  makes it invariant is said of the requests that are not. A request since whose
  first read nobody edited still sees in the workbook what it has read (`AsRead`),
  so when it has read everything its inputs are the identity it submitted. The
  content may be edited and restored afterwards: the commit records the inputs
  and the hash, neither of which is read again. An entry's request is past its
  commit (`Entered`), so its intent can get no other outcome. No counter names a
  run that is not in the history; for a selection that needs that a scenario with
  runs has a newest one, which follows from the well-foundedness of strict
  inclusion on finite sets (`HasLeast`), with no induction over the history.
- The Last Run: `LastRunIsWhole` is false of the code with a legacy save
  (`RunDiscarded`), so two theorems say what is true.
  `OnlyALegacySaveSplitsTheLastRun` holds for any writers: the one step that can
  break it is the write of a legacy draft or discard which read an earlier run than
  the one recorded now. `LastRunStaysWhole` is the invariant where no legacy
  save is used (`Writers = {}`, the instance of `RunCommit`).
- Refinement: `Claim` maps to `Open`, a failure (`EngineFails`, `CommitFails`) to
  `Fail` or to a stutter, `Commit` to `Commit` (the new index is bound by no intent, since every bound
  is at most the length of the history), all else to a stutter.
- `RouteIsAtomic`: `Begin` maps to `Ask` (or to an answer, when it refuses),
  `Commit` to `Run`, an end to `Answer`, the other writers to `Edit`, `Select`,
  `PutBack` and `Archive`, the steps between to stutters. `Commit` is `Run`
  because its own transaction compares the identity again (so the hash is the
  content of that instant), the lifecycle fence says the project is open, and the
  invariant gives the rest: the request has no entry yet, its intent is bound to
  none, and a quiet request's inputs are what it submitted. The answers are true
  because an entry's request is past its commit (`Entered`) and a request told
  that nothing was saved has none.

*YieldAlertsProofs*

- `TypeCorrect`, `CheckpointNeverPassesAlerts` (`NeverPastAlerts`),
  `UnwatchedIsNotReplayed` (`UnwatchedNotReplayed`), `StateChangesAreAlerted`
  (`StateChangesAlerted`). The last speaks of an evaluator whose copy of the
  checkpoint is still the stored one, and of support moved between two known
  states within one watch lifecycle, or evidence gone from current to degraded;
  of a commit from an old copy it says nothing.
- Argument: `NeverPastAlerts` is not inductive, because an evaluator that
  overlaps writes the checkpoint from its own position and not from the one that is
  stored. So the invariant says the same of every position an evaluator works from as of
  the checkpoint: it is in the history, not before the watch lifecycle
  whose stamp it carries began, and every change of value from the furthest
  baseline up to it has its alert. A later baseline only shortens that interval;
  a transition lengthens it by one step and writes that step's alerts. TLC
  checked this invariant on the instance of `YieldWatch` before it was proved; that a
  stamp in use is positive was added for the induction.

Only model-checked: liveness (`EventuallySettled`, `EveryoneAnswered`,
`OnlyRunningKeepsSlot`, `EveryCallAnswered`, `AbandonedIsTakenOver`,
`RetriedIsResolved`, `CaughtUp`), which needs fairness and ENABLED and is beyond
the prover. All other properties of section 3 that a passing run checks are theorems.

## 6. What is not modelled, and the plan

Not modelled: rendering, exports and every route without protocol state;
CSRF and access checks (they precede the modelled steps and change nothing);
the engine's numbers except loss carryforward (a result is the inputs it was
given); the native shadow (off by default) and executor shutdown (interpreter
exit); Model V2 working state; protected reference projects (their Runs are
refused before any state is read); the base case as a scenario apart (the code
refuses to override it; every scenario of the model is one that may be
overridden); unkeyed creation, clones and setup drafts; backup and restore
(file copies of a live WAL database depend on the layout of SQLite's files);
repair of short writes of the observation history.

The modules cover a small share of the repository's lines, and this will stay
so. Most of them are floating-point finance (project financing, sculpting,
native engines), workbook exports, HTML and routing tables, verification and
research tools, and tests. They keep no state between two steps and nothing
in them interleaves; a model of them would repeat the arithmetic, or leave it
out and say nothing. What is modelled is the code that keeps shared state.

Worth adding next: the read-modify-write of overrides
(`update_scenario_overrides`) as a module of the scenario store, which would
say which of two concurrent patches can be lost.
