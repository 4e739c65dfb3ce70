# Purchase Agent in TLA+

Purchase Agent keeps *Missions* ("buy this ticket, under these conditions") and
*agent tasks* (a browser driven by a plan or by a language model) in
PostgreSQL. Users change them through a FastAPI service, worker processes claim
and run the Missions that are due, dispatchers deliver notifications, and
external providers reserve and sell. This directory holds TLA+ models of that
code, the TLC configurations that check them, and theorems checked by TLAPS.

`tlc -config MissionStore_commands.cfg MCMissionStore.tla` runs one check (the
name of a configuration begins with the module it belongs to),
`tlapm AgentTasksProofs.tla` checks the proofs of one module.

## 1. Inventory

Paths are relative to `src/app/`.

| Component | State | Operations | Interacts with | What makes it hard, and what makes it correct | Module |
| --- | --- | --- | --- | --- | --- |
| Mission state machine: `services/mission_state_machine.py`, `domain/mission.py` | `status`, `claimed_at` | `transition`, `retry_failed`, `recover_stale` | every writer of a Mission | two edges exist only under a keyword; one caller assigns `status` directly. Every committed change must be a step of the table | `MissionStateMachine`, `MissionLifecycle` |
| Mission engine: `services/mission_engine.py` | none of its own | `run_mission`, `confirm_mission`, `cancel_mission` | repository, providers | provider calls sit between a read and a compare-and-set. Row and provider must agree | `MissionStore` |
| Mission commands: `services/mission_{pause,retry,scheduling,update,provider_selection,expiration}.py` | none | pause, resume, retry, schedule, PATCH, provider, expire | repository | each works on a copy read earlier. No lost update | `MissionStore` |
| Mission repository: `repositories/sqlalchemy/mission.py` | `missions`, `mission_execution_attempts`, `mission_events`, `notification_outbox` | `update`, `claim_due`, `expire_due`, `recover_stale_processing` | PostgreSQL | row locks, `SKIP LOCKED`, commits in the middle of a cycle. Claims are exclusive, the audit agrees with the row | `MissionStore`, `MissionEventLog` |
| Mission worker: `services/due_mission_processor.py`, `services/mission_worker.py`, `cli.py` | none | recover, expire, claim, run a batch | repository, engine | a crash or a raise rolls back a whole batch after its provider calls. Stale claims are recovered, due Missions are taken | `MissionStore` |
| Mission API: `api/routes/missions.py` | none | one endpoint per command | engine, commands, receipts | every request is one transaction | `MissionStore`, `ResourceApi` |
| Command receipts: `services/mission_command_idempotency.py` and its repository | `mission_commands` | begin, complete, abort | API | a receipt holds a share lock on its Mission. A repeated command runs once | `ResourceApi`, `MissionStore` |
| Provider adapters: `adapters/` | reservations and confirmations under idempotency keys | search, reserve, confirm, cancel | engine | lost answers | `MissionStore` |
| Event log and projections: `services/mission_event_*.py` | `execution_log`, `mission_events`, provider history, outbox | append, project, upcast, rebuild, verify | repository, operators | four copies of one history that must agree while rebuilds and old schemas interfere | `MissionEventLog` |
| Event history, provider history: `services/mission_event_history.py`, `services/provider_resolution_history.py` | none | pages, long poll, verification | API | an event committed while a poll ends, rows replaced under a cursor. No event is skipped | `MissionEventLog` |
| Notification outbox: `services/notification_*.py`, `repositories/sqlalchemy/notification_outbox.py` | `notification_outbox` | publish, claim, deliver, fail, recover, requeue, prune | dispatchers, operators | at-least-once delivery by several dispatchers that lose claims | `NotificationOutbox`, `NotificationDelivery` |
| Creation receipts: `services/resource_creation_idempotency.py` and its stores | `resource_creation_receipts` | begin, complete, abort, prune | creation endpoints | two creations under one key, a client that repeats what it lost the answer of | `ResourceApi` |
| Identities: `api/routes/identities.py` | `identities` and their children | versioned create, read, update, delete | Missions | read-compare-write over several statements. No lost update, honest ETags | `ResourceApi` |
| Agent tasks: `api/routes/tasks.py`, `services/task_*.py`, `repositories/sqlalchemy/task.py` | `tasks` | plan, map, approve, clarify, execute, pause, resume, cancel | browser, model server | an execution works on a copy for minutes. Nothing is done that the user did not approve | `TaskPlan`, `AgentTasks` |
| LLM agent loop: `services/agent_loop.py` | the loop's steps | observe, decide, act | agent tasks, browser | an unpredictable partner; limits, repetitions, questions | `AgentLoop` |
| Browser runner: `adapters/playwright_browser.py` | a tab and its form | one step of a plan, one command | agent tasks | a page changes between two calls; popups, other origins | `BrowserRunner` |
| In-memory storage: `storage/` | shared dictionaries | the repositories' operations | API in development | no rollback: what a handler changed before an await stays | `ResourceApi` (both backends) |
| HTTP middleware: `api/middleware/` | the limiter's table | rate limit, deadline, body limit, headers | every request | a bounded table evicts; a deadline cancels at any await | `RateLimit`, `ResourceApi` |
| Provider resolution, rule engine, intent parsing, page mapping | none | pure functions | engine, tasks | boundary values, heuristics | choices of outcome |
| Heartbeats, runtime state, pagination, statistics, administration, configuration, web pages, smoke scripts | timestamps, counters | | | | not modelled |

`PROJECT.json` lists every component with its status, and every hazard with the
line where it bites and the properties that watch it.

## 2. How the project is laid out

Six groups of modules, each about the state one set of processes races on. They
share no variable because the code shares none: what one group leaves open is a
choice in it and state of another.

1. `MissionStore` (with `MissionStateMachine`): the row of a Mission,
   everything that writes it, and the provider; implements `MissionLifecycle`.
2. `NotificationOutbox`: dispatchers, recoveries, operators; implements
   `NotificationDelivery`.
3. `AgentTasks`, on `AgentLoop`, `BrowserRunner` and `TaskPlan` (pure
   definitions, each extending the next): one task, concurrent requests, a
   browser each.
4. `MissionEventLog`: the four copies of a Mission's history and their readers.
5. `ResourceApi`, on `RateLimit`: creations, commands and changes over HTTP, in
   both storage backends.
6. The theorems: `MissionStoreProofs`, which `MissionProviderProofs` and
   `MissionClaimProofs` extend, `NotificationOutboxProofs`, `AgentTasksProofs`,
   which `AgentRecordProofs` extends, `MissionEventLogProofs`,
   `ResourceApiProofs`.

A `MissionStore` command and a `ResourceApi` command are the same endpoint: the
first keeps the whole state machine and one transaction, the second one keeps
three commands and everything around the transaction. In the same way
`MissionEventLog` keeps, of an update, its events and rows and nothing of its
status.

Every safety property that a passing run checks is stated by a theorem.

## 3. MissionStore

### State and its code

| Variable | Code |
| --- | --- |
| `db[m]` | the committed row of `missions` with its rows of `mission_execution_attempts` (`audit`) |
| `tx[m]` | the row lock PostgreSQL gives to the first `UPDATE` of a transaction, with the uncommitted row |
| `proc[p]` | an API request (session) or a worker: where it stands, the Mission object it read (`snap`), the rest of its batch (`todo`), the time its cycle began (`time`) |
| `provider[m]` | what the provider holds for the Mission's reservation and confirmation keys |
| `now` | the clock |

A transaction sees committed rows and its own writes (READ COMMITTED,
`db/session.py` sets nothing else). `seq` stands for `last_event_sequence`: it
counts batches of events, since only its equality and its growth matter. `resv`
says that `reservation_id` is set. `claimed_at` and `scheduled_at` are kept as
times because guards compare them.

### Actions

* `Pause`, `Resume`, `Cancel`, `Confirm`, `Retry`, `Schedule`, `Patch`,
  `SetProvider`, `Run` read the row and apply the command to the copy. `Update`
  is the compare-and-set of `repository.update`, `Commit` the end of the
  request. A request whose guard fails answers with an error and rolls back: it
  changes nothing, so it has no action. That includes a run of an expired
  Mission, whose expiry is written and then rolled back with the error.
* `ProviderConfirm`, `ProviderCancel` are the provider calls between a
  command's read and its update.
* `Resolve`, `ResolveRefused`, `Search`, `Reserve`, `AutoConfirm` are
  `run_mission`, used by sessions and workers alike. Its first update takes the
  row lock; the provider is called under it.
* `Recover`, `Expire`, `Claim` each commit by themselves. They skip locked
  rows, and rows whose key is share-locked by the open receipt of a command
  (the receipt's foreign key). `Pick`, the run, `Mark`, `MarkFailed` and
  `EndCycle` are the batch: one transaction over all its Missions.
* `Crash` loses a transaction at any point; `DeadlockVictim` is PostgreSQL's
  answer to a cycle of lock waits.

The provider follows `adapters/mock_train.py` (idempotency keys derived from
the Mission) with refusals and with errors that leave open whether the call
took effect.

### Abstractions

* The execution mode is chosen at each run, not stored: a superset of what a
  fixed mode allows. Runs that need one mode set `Modes` to it.
* Search, participants, rules and resolution are one choice of outcome.
* The order in which a batch runs its Missions is arbitrary.
* PATCH writes the whole row; only the attempt cap is a field any property
  reads.
* A process is modelled with the objects it has read and its own writes;
  SQLAlchemy's identity map may show it a row of its own earlier reads in
  addition, within one session only.
* A Mission claimed by a cycle cannot be expired at the cycle's own time
  (`claim_due` excludes it), so the expiry branch of `run_mission` does not
  exist for workers.
* Automatic retries use a constant function of the attempt number. The branch
  where `delay_after_attempt(0)` raises is kept (`FailRun`, `MarkFailed`).

### Properties

Safety: `ClaimStamp`, `ConfirmableIsReserved`, `CancelledIsReleased`,
`CompletedIsConfirmed`, `AuditMatchesClaims`, `ExclusiveClaim`. Step property:
`VersionedWrites`. Refinement: `FollowsLifecycle`, with `status` of
`MissionLifecycle` mapped to the status of the committed rows. Liveness:
`StaleClaimIsRecovered`, `DueIsClaimed`. Each is stated in words above its
definition.

### Fairness

`SessionStep` and `CycleStep` are weakly fair together with the crash and the
deadlock abort of the process: a coroutine that was started is resumed by the
event loop until it ends or its process dies. `Recover` of a worker that cannot
crash is weakly fair because `run_mission_worker` loops until it is stopped,
whatever a cycle raises (`services/mission_worker.py:40-64`). Nothing obliges
anybody to issue a request or a process-due command (`ProcessDue`).

### Runs

| Run | Instance | Question |
| --- | --- | --- |
| `commands` | 1 Mission that expires at 1, 2 requests of any of the 9 commands, 1 worker, everyone may crash, claims stale after 1, clock to 2, commands on rows of fewer than 3 writes | what survives every race between user and worker: validators, versions, agreement with the provider |
| `lifecycle` | 1 Mission that never expires, 1 request of a command with a receipt, a worker loop and a crashing process-due command, all modes, no claim goes stale | exclusive claims, the audit, the refinement, and that a due Mission is taken out of waiting; 0.26 million states |
| `recovery` | 2 Missions in batches of 2, a worker loop and a crashing process-due command, claims stale after 1 | recovery under its owner's feet, lock cycles: versions hold, a stale claim is always recovered |
| `stale_claim`, `lost_claim`, `confirm_cancel` | the smallest instance each | one statement of the documentation each that the code does not keep, see below |

Why the bounds are enough for the interesting cases: two requests and a worker
are needed for the longest race found (a stale copy, a commit that overtakes
it, a claim in between). Two attempts give a first one, a retry and an
exhausted Mission. Three writes allow a run, a failure and a retry with a
command between any two. A second Mission only adds lock cycles and shared
rollbacks, which `recovery` has. `MaxSeq` bounds API commands alone; workers
are bounded by `MaxAttempts` and by the clock. `MaxTime` 2 lets a claim of time
0 become stale at 1 and its Mission be claimed again at 2.

`DueIsClaimed` is checked for a Mission without an expiry, because one that has
an expiry leaves waiting by it whatever the claims do. TLC therefore sees the
`expired` edges of the refinement in no run: `commands` fires `Expire`, and the
theorem `LifecycleIsFollowed` covers those edges for all constants. The property
names its exception: a client that repeats `run` requests for ever can hold the
Mission's row, by the lock of its receipt, at every claim.

### Where code and documentation disagree

1. `stale_claim`: the error path of a batch reads the row again and fails it
   whatever its status is (`due_mission_processor.py:141`), so a worker whose
   claim was recovered turns a completed Mission into a failed one.
2. `lost_claim`: a claim keeps `last_event_sequence`, so a PATCH (or any
   command without a receipt) that read the row before the claim overwrites the
   claim. The attempt stays open, and every later claim of the Mission violates
   a unique index and ends the worker's cycle.
3. `confirm_cancel`: confirm and cancel both call the provider before their
   compare-and-set. Cancel can take effect at the provider and lose the row; the
   Mission is completed on a cancelled reservation.

A manual retry may also plan a start after `expires_at`, which the Mission's
validator rejects when the row is next loaded. No run is spent on it; it is
listed among the hazards, and `Readable` keeps such a row from being loaded in
the model as in the code.

The passing runs therefore state what they exclude: `lifecycle` has no stale
claims, no expiry and no command without a receipt.

## 4. NotificationOutbox

`row[m]` is a row of `notification_outbox` (status, `delivery_attempts`, and
`ripe`: whether the time the row waits for has come, which is `available_at`
for a pending row, the claim timeout for a processing one, the retention for a
delivered one). `disp[d]` is a dispatcher: a notification worker or one
`dispatch-notifications` command, with the messages of its batch and the
attempts they had when they were claimed. `held[d]` are the row locks its open
transaction keeps: `mark_delivery_failed` returns early without a commit, so the
lock lasts until the dispatcher's next commit. `known[m]` is what deliveries
have shown: the receiver took the message, nobody was to receive it, or it was
refused for good.

Every statement commits by itself and is one action: `Publish`, `Recover` and
`AdminRecover`, `Claim`, `MarkDelivered`, `MarkDeliveryFailed`, `Requeue`,
`Prune`. Between `Claim` and the settling statements lies `Deliver`; a
dispatcher may crash anywhere. The model has no clock: `TimePasses` makes a row
ripe, for a processing row only when no dispatcher outside `Slow` works on the
message, which is the assumption behind `claim_timeout`. The order of a batch
is left open. `Requeues` bounds what an operator requeues.

Properties: `IsDelivery` (the table implements `NotificationDelivery`, in both
runs), `FailedHasReason` and `LockedIsIdle` in `outbox_dispatch`,
`OverrunIsBounded` and `PublishedIsSettled` in `outbox_settle`.

| Run | Instance | Question |
| --- | --- | --- |
| `outbox_dispatch` | 2 messages, 2 commands that may be late or die, an operator, 2 attempts | races for claims and locks; lock cycles need two messages and two late dispatchers, which is the smallest instance that has one. The commands end, so the system may stop (`CHECK_DEADLOCK FALSE`) |
| `outbox_settle` | 1 message, a worker loop and 2 such commands, 2 attempts | settlement over any number of worker cycles |

Fairness: time passes, a cycle that was begun goes on or its process dies, and
the worker loop polls for ever. Commands are finite in number (`OneShots`), so
at most that many claims are lost: that is why `PublishedIsSettled` and
`OverrunIsBounded` hold, and the overrun is real, since recovery makes a message
pending whatever its attempts.

The bound on the overrun is one of a single message, or of batches of one. With
three messages, batches of three, `MaxAttempts` 1, two commands and a worker it
is exceeded: a worker that PostgreSQL picks as the victim of a lock cycle loses
the other claims of its batch too, without dying. The theorem names both
conditions (section 8).

## 5. AgentTasks

### State and its code

| Variable | Code |
| --- | --- |
| `task` | the committed row of `tasks`: status, waiting reason, version, plan version, journal, approvals, what is kept of the last page (`snapshot`) and of its mapping (`fill`), the agent's last commands (`run`), the number of clarifications |
| `req[s]` | a request: where it stands, its copy of the task, its agent loop |
| `tab[b]` | the page of a browser and the kinds of values typed into it |
| `asked` | observed only: questions of the agent that were committed |

Every request reads the row, changes a copy (`model_copy`, which validates
nothing) and stores it with one `UPDATE ... WHERE version = ...`.
`Plan`, `MapPage`, `Approve`, `Clarify`, `Pause`, `Resume`, `Cancel` are the
short ones, with the guards and the fields each endpoint changes. `Execute`
begins an execution, which is either a plan's (`Block`, `Deny`, `RunStep`: the
three ways `execute_task_plan` treats its next step) or the agent loop's
(`LoopTurn`: observe, choose, execute). `Update` is the one statement all end
in; a conflict answers 409 and changes nothing. `Abandon` is a browser or model
error, or the end of the process: nothing is stored, whatever the browser did.

`TaskPlan` has the planner and the permission policy: `Decide` is
`evaluate_browser_action` rule by rule, `PlanSteps` the steps per kind of
purchase. `BrowserRunner` says what each step and each command of the agent may
report and do to the page; `AgentLoop` when the loop ends and what its end
means for the task.

Abstractions: a page is one of three that a snapshot can tell apart, a form is
the set of kinds of values in it; the model's answer is any command, and two
commands of one kind may be equal or differ (`again`); a page may change between
two steps, and a field or an option may be missing, at any time.

Facts the models keep that surprise: no runner implements `submit_order`, so
`prepare_order` never succeeds and no plan is ever prepared; a clarification
too many makes a row that the next read rejects (`Readable`); concurrent
executions may use one unconsumed approval in two browsers at once, while only
one of them can store it.

### Properties

`RowIsCoherent`, `JournalFollowsPlan`, `NothingUnasked`, `ApprovalsAreSpent`,
`AnswersHaveQuestions`, and the step property `StoppedStays`. The second
part of `NothingUnasked`, about the form in the browser, is stated for isolated
browsers (`SharedBrowser = FALSE`): in one visible browser a form outlives the
execution that filled it, as it is meant to.

| Run | Instance | Question |
| --- | --- | --- |
| `tasks` | 2 symmetric requests, a train ticket, 3 policies, both controlled modes, with and without the model, commands `click`, `ask`, `finish_reached`, 2 turns, 4 updates of the row | all of the above; 2.0 million states, 80 s |

Why that is enough: a train ticket has every step of any plan. The three policies
are the default one, one that preapproves documents, and one that denies a
step. Four updates allow plan, a blocked execution, its approval and the second
execution, with another request between any two; the loop needs two for a
question and its answer. The three commands are one that goes on, one that asks
and one that ends; the other commands only differ in which of these they turn
into. The proofs below do without the bounds. Requests end when `MaxVersion` is
reached, hence `CHECK_DEADLOCK FALSE`. Nobody is obliged to go on with a task,
so there is no liveness to state.

## 6. MissionEventLog

| Variable | Code |
| --- | --- |
| `log[m]` | `missions.execution_log`; its length is `last_event_sequence` |
| `rows[t]` | rows of `mission_events` and of `mission_provider_history_events` |
| `outbox` | which events have a notification |
| `lock[m]`, `writer[w]` | row locks and the transactions of requests and workers |
| `rebuild[r]` | a rebuild command: what it deletes, the logs it selected, what it inserts |
| `reader[c]` | a client with its cursor (`after`), what it was given (`got`) and the rest of its wait, or an administrator's verification |

`Load`, `Update`, `Conflict`, `Rollback`, `Commit` are a request's or a run's
transaction; one update appends a batch of events, and a transaction may update
several times. `Expire` and `Recover` are the worker's own statements, of which
only the first projects what it logs: `claim_recovered` reaches the projection
with a rebuild, not before, although src/README.md:1615 says new events are
appended to it with their update. `StartDelete`, `Delete`,
`Select`, `Insert`, `CommitRebuild` are the statements of a rebuild with the
waits PostgreSQL makes of them; a rebuild that meets a key somebody committed in
between fails as a whole. `Poll` and `Reread` are pages and the long poll,
`Verify` and `Answer` the two statements of a verification.

A rebuild that deletes waits for the rows another one has deleted and skips
those that are gone by then; `Rivals` are the rebuilds of the same table from
their `DELETE` on, also while they select.

`Legacy` are the logs the migrations found: events of the schema without links.
What happened before there was an outbox is not a notification to it, so an old
log holds none (an assumption the proofs name too).

`Deserialize` is the chain of upcasters: an event without links belongs to the
thread of the event before it, which makes `i - 1` the cause of event `i` and 1
its thread (`Thread` and `Recorded` say so without recursion). It is a function of the log: a row of an old
schema read by itself (`ReadAlone`) becomes a thread of its own, which is why a
verification reports such rows as different until they are rebuilt.

Properties: `CopiesAgree`, `OneThread`, `PagesAreComplete` (a client has missed
nothing behind its cursor but `claim_recovered`), `VerificationIsHonest` (what a verification reports as missing are recoveries,
what it reports as unexpected was logged after it read the Mission, what it
reports as different is a row of an old schema); the step properties `HistoryIsStable` (what was read of
a history once is read again) and `RebuildRepairs`; and the liveness property
`EventsReachClients` (with the same exception), under weak fairness of a client's
steps: a client that follows a Mission asks again after every answer, and the event loop resumes a
request that sleeps. Writers, workers and rebuilds need no fairness for it.

| Run | Instance | Question |
| --- | --- | --- |
| `events` | 1 Mission with an empty or an old log of two events, 2 writers, 1 rebuild command at a time, 1 client or administrator on either table, pages of 1, waits of up to 2 rereads, logs of up to 3 events | all of the above; about a million states, 2 min |
| `recovered_unseen` | the same | `EveryEventIsGiven`, which is `PagesAreComplete` without its exception, see below; violated |

Why that is enough: two writers and a rebuild give every pair that meets at a
lock or a key. A page of one event makes every cursor position occur; a log of
three has an event before, at and after a cursor. Missions are independent but
for a rebuild's transaction, which treats them one after the other; with one
rebuild command TLC sees no wait between two (`Rivals`); the theorems below
hold for any number of them. A poll of the history pages by time is not modelled: its cursor is a time
and a position, and an event committed late with an earlier time falls behind
it. That is a hazard listed without a property.

### Where code and documentation disagree

`recovered_unseen`: `recover_stale_processing` appends `claim_recovered` to the
canonical log and projects nothing (`repositories/sqlalchemy/mission.py:477`).
src/README.md:1588 tells a client to go on from `latest_sequence`, 1607 that it
waits for the canonical events, 1615 that new events are appended to
`mission_events` with their update. After a recovery the next event is projected
and given, `latest_sequence` is past the recovery, and a rebuild inserts its row
behind that position: the client is never given it, though the projection has it.
`CopiesAgree`, `PagesAreComplete` and `EventsReachClients` make the exception in
so many words. `Belongs` is what a projection is to hold, `Appended` what the
recording transaction puts there.

## 7. ResourceApi and RateLimit

| Variable | Code |
| --- | --- |
| `backend` | `STORAGE_BACKEND` |
| `identity[i]`, `mission[m]` | rows, or the shared objects of `storage/memory.py` |
| `receipt[s]` | receipts of the two tables, by scope and key |
| `call[c]` | the call a client has in flight, at one of its awaits |
| `cache[c]` | the last answer a client has of each Identity, with its ETag |
| `limiter`, `now` | the limiter's table and clock |
| `asked`, `effects`, `replies`, `pruned` | observed only |

`Send` is the rate limiter and the route. Then every `await` of a handler
divides it into actions: `Begin`, `Found`, `Replay`, `Repeat` (receipts; the two
statements that read an Identity for a repeated answer), `ReadRow`,
`Get`, `Match`, `References`, `WriteIdentity` (Identities), `Participants`,
`Create` (creations), `EnsureVersion`, `Load`, `Provider`, `WriteMission`
(commands) and `Commit`. `Drop` is the deadline of
`RequestTimeoutMiddleware`, an error, or a lost connection; `Prune` the
retention of receipts. An answer may be lost after the commit, and any client
may send any request under any key again.

In PostgreSQL a call is one transaction: its receipt makes another insert of
the same key wait (`Inserting`), its row another write (`RowLocked`). In memory
the handlers share objects and run on one event loop: a handler is interrupted
only at its await of the provider (`Runs`), and what it changed before stays.
`Runs` is therefore weaker than a lock and stronger than a transaction.

The model's order is commit, then answer. Where the framework sends the answer
before the session's commit, a client may in addition see a success whose
commit then fails; that is the framework's, not modelled, and named here.

Facts the model keeps: unfinished repetitions wait in PostgreSQL, only the
memory backend answers them 409 (src/README.md:393 speaks of 409); a repeated
command with its original If-Match is told 409 before its receipt is looked at;
a repeated answer shows the resource as it is now, read in two statements for an
Identity, and is 410 when that was deleted; a confirmation that succeeds after
its Mission was moved on leaves its event in the memory backend, where nothing
rolls it back. The reference check of a deletion and the participant check of a
creation run in different transactions: a Mission can be created for an Identity
that is being deleted. No property claims otherwise (hazards list).

Properties: `OncePerKey`, `ReceiptsAreBacked` (a completed receipt names what was
stored with it; the Identity it names may have been deleted since),
`EtagIsHonest`, `WindowIsKept`, and the step property `NoLostUpdate`.

| Run | Instance | Question |
| --- | --- | --- |
| `receipts` | 2 symmetric clients, 1 key for creations and 2 for commands, 2 Identities and 2 Missions at most, all operations, 3 calls, a clock of one tick, a limit of 1 per window of 1, a limiter table for one client, both backends | all of the above; 3.3 million states, 2 min 20 s |

Why that is enough: two calls race and the third repeats or observes. One
Identity and one Mission exist, so that the others can be created, twice if a
receipt fails. The limiter's smallest table makes every second client an
eviction. Clients may stop calling: `CHECK_DEADLOCK FALSE`.

## 8. Proofs

All proofs are for every value of the constants that satisfies the named
assumptions of the modules.

`MissionStoreProofs`

* `TypeCorrect`, `ClaimStampHolds`: from `RowInv`. The claim stamp of the
  committed row is not inductive: a commit writes a row a process computed long
  ago. `RowInv` demands well-formedness (`SafeRow`) of every copy of a row: the
  committed one, the uncommitted one of a transaction, the snapshot of a
  process. There is a lemma for each action.
* `VersionsHold` (`VersionedWrites`): from `LockInv` in addition. A process past
  its first update owns the row's lock (`Holds`), and a locked row has a newer
  version than the committed one (`Newer`); since no one else writes a locked
  row, a commit always raises the version.

`MissionProviderProofs`

* `ConfirmableHolds`, `ReleasedHolds`, `ConfirmedHolds`
  (`ConfirmableIsReserved`, `CancelledIsReleased`, `CompletedIsConfirmed`),
  without any condition: from `BackedInv`. A status is written long after the
  provider answered, so `Backed`, what a status promises about the provider, is
  demanded of the committed row, of the row a transaction has written, and of
  the copy of every process that is still going to write one. It survives
  everybody else's steps because the provider is idempotent by key: what it
  granted or cancelled once stays so (`ProviderKeeps`). Neither versions nor
  locks are needed. What the three do not say is that the *right* copy wins,
  which is where `confirm_cancel` fails.
* `ReservationsAreReal`, from the same invariant: in every status, a reservation
  on record is one the provider made. `Backed` asks that of all copies, since a
  run that fails or expires keeps the reservation of the copy it began with.
* `HeldUnlessCancelled` (`CompletedIsHeld`), under the condition that no
  `cancel` is issued: what `confirm_cancel` loses cannot be lost otherwise, by no
  race of runs, confirmations, retries, crashes and recoveries. It adds
  `AskedFor` (a process is on its way to cancel at a provider only for a command
  that was issued) and `NothingCancelled` to the invariant.

`MissionClaimProofs`

* `ClaimsAreExclusive` (`ExclusiveClaim`), `AuditsMatch`
  (`AuditMatchesClaims`), `LifecycleIsFollowed` (`FollowsLifecycle`, the
  refinement) and `TerminalsAreFinal` (`TerminalIsFinal`, which `stale_claim`
  violates), under two conditions. `ReceiptsOnly`: the commands issued are
  those that go through a receipt, whose share lock keeps a Mission from being
  claimed. `[]Prompt`: no worker still has a Mission in its batch whose claim
  has gone stale. The runs `lost_claim` and `stale_claim` show what happens
  without either. Crashes need no condition: a worker that died has no batch,
  so its Missions go stale and are recovered while the others go on. The
  `lifecycle` run meets `Prompt` by a timeout longer than its clock; the
  theorems cover recovery as well.
* All four follow from `WorkInv`, on top of `RowInv` and `LockInv`. `Audited`
  and `Writable`: a row that can be committed keeps its audit and differs from
  the committed status by a step of the table. `Commanding`: the Mission of a
  command is not processing while the command is under way, and its copy either
  has the committed version, then also status and attempts, or cannot be
  written. `Cycling`: a worker owns what it claimed and has not committed
  (`Owns`) alone, all of it stays processing in the table, and of what it has
  not finished it has written only the Mission it is at. The lemma `StepWork`
  reduces the invariant after a step to what the step itself takes, writes and
  commits; the others are shown once to lose nothing by it (`OtherSession`,
  `OtherWorker`).

`NotificationOutboxProofs`

* `OutboxTypeCorrect` and `ImplementsDelivery` (`IsDelivery`): the initial state
  maps to an initial state, every step to a step of the mailbox or a stutter.
  The strengthening says that a dispatcher about to settle a message as
  delivered has handed it over or seen it waived, that facts are never lost
  (`HandedOver`), and that what is claimed was published
  (`ClaimedArePublished`).
* `GivenUpForAReason` (`FailedHasReason`) and `LocksAreIdle` (`LockedIsIdle`):
  a dispatcher that is about to fail a message has the reason, its last attempt
  or a refusal; and the transactions that `mark_delivery_failed` leaves open
  never keep one row twice, nor one that somebody has claimed.
* `OverrunBounded` (`OverrunIsBounded`) for `BatchOfOne` (batches of one
  message, or one message in all) and `OnlyCommandsFail` (the worker loop
  neither dies nor is late). `NobodyWaitsTwice`: with batches of one nobody who
  holds a lock has anything left to settle, so there is no victim;
  `WithinBudget`: attempts stay within `MaxAttempts` and the number of commands
  begun, with one to spare while the claim may still be lost.

`AgentTasksProofs`

* `TypeCorrect`: from `TypeInv`, which asks of the row and of every copy that it
  is a task, that it was not prepared (no step of a plan can make it so) and
  that it holds its approvals to what starts used them; and of a loop that has
  begun, that its page is open.
* The other theorems have one argument in common. `NextKinds` says that every
  step of a request is of one of six kinds: it writes a copy with a short
  change, starts an execution, makes a step of one, makes or ends a turn of a
  loop, stores its copy, or is abandoned. Each invariant is then shown for the
  six kinds and not for fourteen actions.
* `NotOvertaken` (`StoppedStays`): from `StopInv`. No copy is newer than the
  row; and a copy of the current version of a task that is stopped is a short
  update that a user may make of it, never an execution. An execution that was
  under way has an older copy, whose update finds another version.
* `OneAnswerEach` (`AnswersHaveQuestions`): from `AskInv`. A task that can be
  answered has fewer clarifications than committed questions, and so has every
  copy that can be and that no execution is still to store; storing an
  execution that ends in a question counts the question.
* `AskedFirst` (`NothingUnasked`), for `~SharedBrowser`: from `FormInv`, which
  ties the form of a session's browser to the copy the session works on.

`AgentRecordProofs`

* `StoredRowsCohere` (`RowIsCoherent`), `StepsInOrder` (`JournalFollowsPlan`)
  and `OneAttemptEach` (`ApprovalsAreSpent`): from `RecordInv`, without any
  condition. `InOrder` is demanded of the row and of every copy: the journal
  follows the plan and does not end with a start, the approvals are of the plan,
  and for each step as many are taken as there are attempts that took one.
  `Storable` and `UnderWay` say what a copy about to be written, and one an
  execution works on, promise in addition.
* Two lemmas carry the journal. `NextIsDue`: `NextStep`, the first step that has
  not succeeded, is one whose predecessors all have, since no plan names a step
  twice (`PlanDistinct`). `JournalGrows`: an entry for such a step keeps the
  order, whether it opens an attempt or closes it. `AttemptInOrder` counts: an
  attempt takes exactly one approval when its reason says so, and none when the
  policy allowed it, because no approval is ever for what is allowed.
* `ResultFits`: no step both sees a new page and fills one, so that the fill plan
  is always of the page last seen. `map_task_page` takes it from there too, and
  the model's loop drops it.

`MissionEventLogProofs`: `TypeCorrect`, `CopiesOfOneHistory` (`CopiesAgree`),
`OneThreadEver` (`OneThread`), `HistoryIsNeverRewritten` (`HistoryIsStable`),
`NothingSkipped` (`PagesAreComplete`), `VerificationsAreHonest`
(`VerificationIsHonest`), `RebuildsRepair` (`RebuildRepairs`), all from one
invariant.

* `LogInv`: a log is all of the old schema (`Bare`) or all of the present one
  (`Chain`), since every update writes the whole log upcast. `CopyInv`: rows and
  notices are those of the log, at most one row for a key, and one for every
  event that the statements project.
* `WriterInv`: a copy is the beginning of the log (`Before`); under the row lock
  it is what the log is going to be, with the rows to add. `RebuildInv`: what a
  rebuild will insert are events it selected, under keys that no remaining row
  has; two rebuilds past their `DELETE` share neither deleted nor new keys.
  `ReaderInv`: everything before a cursor was given, as far as the recording
  transactions projected it: `NothingSkipped` excepts `claim_recovered`, as its
  property does.
* A commit, an expiry and a recovery are one case: the log of a Mission grows
  and the projections gain none or all of the new rows (`Extends`). One lemma
  per part shows that growth keeps it. That a page leaves nothing out before
  its last event is an argument about cardinalities: a page that is not full
  is all there is.

`ResourceApiProofs`: `NothingLost` (`NoLostUpdate`), `HonestTags`
(`EtagIsHonest`), `DoneOncePerKey` (`OncePerKey`), `NothingLeftBehind`
(`ReceiptsAreBacked`), `LimitIsKept` (`WindowIsKept`), `ApiTypeCorrect`
(`TypeOK`), for both backends at once.

* `TypeInv` lists for each operation what its record holds at each await
  (`Stage`). `IdentityInv`: a copy is older than the row or equal to it
  (`Current`), two transactions never have one row written (`Apart`: a lock in
  PostgreSQL, the absence of an await in memory, `OneRuns`), and what a client
  has cached is of a version the row had (`CachesFit`).
* `ReceiptInv`: a receipt a call holds is its own and is pending in memory,
  invisible in PostgreSQL; a pending one is held by a live call; a completed one
  names what was stored, or its place after a deletion (`Gone`): that the Identity
  is still there is neither true nor claimed. Four kinds of step are enough: a call takes a receipt,
  gives it back, completes it, or leaves it.
* `CountInv`: the executions under a key are at most one more than the receipts
  retention has removed, and all answers given, stored or about to be given name
  one resource (`Known`).
* `LimiterInv` relates the limiter's table to all the calls ever sent. The table
  is in the order of its clients' last calls (`Ordered`), and a call let through
  is out of the window, forgotten, or the one with the same rank from the end
  among its client's times (`Tracked`). An evicted client is forgotten because
  the other clients of the full table, and the new one, called after it: an
  injection from the places of the table. A new call is let through only if the
  times in the window leave room, and by `Tracked` they are at least as many as
  the calls not forgotten (`RoomForOneMore`); so `Bounded` is kept. It was
  checked by TLC with three clients, six calls, a limit of 1, a window of 2 and
  a table for two before it was proved.
* The constants `None` and `Gone` have to differ from the data; `ResourceApi`
  names that assumption, and TLC evaluates it.

Only model-checked: liveness (`StaleClaimIsRecovered`, `DueIsClaimed`,
`PublishedIsSettled`, `EventsReachClients`: TLAPS proves no fairness here). The
four runs that expect a violation are counterexamples: what is proved of two of
the safety properties among them is under which conditions they hold
(`TerminalsAreFinal`, `HeldUnlessCancelled`), of `EveryEventIsGiven` with which
exception it does (`NothingSkipped`); the state that stops the worker in
`lost_claim`, an attempt left open, is one `AuditsMatch` excludes.

Some leaves name the prover that finds them and allow it more time
(`ZenonT(60)`, `SMTT(60)`): on a busy machine the default timeouts can be short.

## 9. Not modelled

* Provider resolution and the rule engine are pure functions of one Mission and
  one offer; their results are choices in `MissionStore`. Text heuristics
  (`task_intent_parser.py`, `page_field_mapper.py`, `fuzzy_matching.py`) are
  choices in `BrowserRunner`, the model servers in `AgentLoop`.
* Lists, statistics, previews and pages of the outbox read one statement's
  snapshot and change nothing.
* Heartbeats and the drain flag: one timestamp per worker, which nothing else
  reads but the health page.
* Headers, body limits, metrics, authentication, configuration, web pages,
  deployment and smoke scripts keep no state that another part races on.
* Of the memory backend, the claims, expiries and recoveries of Missions and
  the tasks: each of these operations runs to its end without an await, so
  there is nothing between its read and its write.
* Search at a provider, encoding of HTTP adapters, retry delays other than a
  constant.
