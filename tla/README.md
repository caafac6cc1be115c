# Formal model of DBOS Transact (TypeScript)

DBOS Transact executes TypeScript functions as durable workflows. The result of
every operation a workflow performs is recorded in Postgres; after a crash the
workflow function is called again with its recorded inputs, and recorded results
take the place of the operations already done. This directory holds TLA+ modules
of that machinery, TLC configurations that check them on small instances, and
proofs checked by TLAPS. Paths are relative to the repository's root, which is
`src/` in the source references (`src/src/workflow.ts` is `workflow.ts` of the
library).

Check one run with `tlc -config DurableConcurrent.cfg MCDurableWorkflow`, one
proof module with `tlapm DurableSafetyProofs.tla`.

## 1. The system's parts

### Core

| part | state it keeps | operations |
|---|---|---|
| executor (`dbos-executor.ts`) | `pendingWorkflowMap`, `workflowResultBuffer`, flush timer, listener and queue loops | start a workflow (`internalWorkflow`), execute a recorded UUID (`executeWorkflowUUID`), recover pending workflows, flush buffers once a second, `destroy` |
| workflow context (`workflow.ts`) | `functionIDGetIncrement` counter, `resultBuffer` | transaction, step (`external`), `send`, `recv`, `setEvent`, `getEvent`, `sleepms`, child workflow, `getStatus`, stored procedure |
| system database (`system_database.ts`) | tables `workflow_status`, `workflow_inputs`, `operation_outputs`, `notifications`, `workflow_events`, `workflow_queue`, `scheduler_state`; in memory the status and inputs buffers and the maps of waiting `recv`/`getEvent` calls | `initWorkflowStatus`, record and look up results, errors and status; `cancelWorkflow`, `resumeWorkflow`; messages, events; enqueue, find and mark, dequeue |
| user database (`user_database.ts`) | the application's tables and `transaction_outputs` | transactions; a transaction's result is inserted with its effect |
| queue (`wfqueue.ts`) | registered queues and their limits; rows of `workflow_queue` | dispatch loop, claim, rate limit, garbage collection |
| scheduler (`scheduler/`) | `scheduler_state`, the loops' next times | crontab matching, one loop per scheduled function, catching up after downtime |
| workflow management (`dbos-runtime/workflow_management.ts`) | none | list, get, cancel, resume, reattempt |
| debugger (`debugger/debug_workflow.ts`) | none | replay of a recorded workflow |

### Around the core

| part | state it keeps | operations |
|---|---|---|
| runtime (`dbos-runtime/runtime.ts`) | the servers, loops and receivers it started | `initAndStart`, `onSigterm`, `destroy` |
| provisioning (`migrate.ts`, `init` of both databases) | databases, schema, tables, the migration lock | look, create, migrate |
| registration and validation (`decorators.ts`, `data_validation.ts`) | classes, methods, configured instances; the executor's function maps | decorate, register, look up by recorded names, validate arguments |
| HTTP server (`httpServer/`) | none of its own | authenticate, parse, invoke, answer; recovery endpoint |
| event receivers (`kafka/`, `packages/dbos-kafkajs`, `packages/dbos-sqs`) | consumers; offsets and messages are the brokers' | subscribe, fetch, start, acknowledge, shut down |
| S3 component (`packages/component-aws-s3`) | the application's table, the bucket | save, delete, upload through a presigned URL |
| stored procedures (`workflow.ts`, `packages/dbos-compiler`) | rows of `transaction_outputs` | local and remote procedures |
| FoundationDB system database (`foundationdb/`) | the same tables as subspaces, one array per mailbox | the same operations, with watches |

### How the parts interact

* An executor process holds many executions on one event loop. Every `await` is a
  point where another execution, the flush timer, the queue loop or a database
  notification may go on. Several processes share the two databases.
* A caller's UUID is the idempotency key. Two invocations with one UUID, or an
  invocation and a recovery, are two executions of the same function on the same
  rows. Nothing locks them against each other: the primary key
  `(workflow_uuid, function_id)` of the record tables decides, and the loser throws
  `DBOSWorkflowConflictUUIDError` and polls for the winner's result.
* A read-only transaction writes nothing. Its result waits in the context's
  `resultBuffer` and reaches the database with the next operation that flushes, or
  with the executor's periodic flush once the workflow has returned. SUCCESS is
  buffered as well; ERROR is written at once.
* A queued workflow is executed through the recovery path: the claiming loop calls
  `executeWorkflowUUID`, which counts a recovery attempt.
* Start-up recovers the pending workflows of executor ID "local" before the HTTP
  server and the queue loops start. On a VM it does not; there a request to the
  admin endpoint names the executor IDs to recover.

### What is hard, and what makes each part correct

| part | hard behaviour | correct when |
|---|---|---|
| durable execution | two executions of a UUID, crash between any two statements, results only in memory, COMMIT that fails, replay of errors | an effect is committed once; executions agree on what has been recorded; the record has no holes; recovery ends |
| write buffers | batches of several UUIDs, a failing batch, a buffer refilled while it is written | nothing is lost without a crash, whatever statement fails |
| messages and events | notification before the waiter is registered, two waiters for one key, durable timeout, equal creation times | a message is consumed once and not lost; a waiter returns |
| queue | several loops, crash between claim and execution, equal creation times, clock read before commit | limits hold, each workflow is claimed once, each ends and frees its slot |
| scheduler | several processes, downtime, crash between starting and storing the time | each interval is executed exactly once |
| event receivers (Kafka, SQS) | redelivery, crash between start and acknowledge | a message starts one workflow, and is not acknowledged before |
| stored procedures | buffered results passed through SQL, conflicts reported as exceptions | the same promises as a transaction |
| S3 component | table and bucket changed in separate steps, a client that uploads late | an active row has its file, and an upload given up leaves none |
| process | shutdown among running workflows and a flush, statements that fail | it exits once asked |
| provisioning | several processes look and create | whoever goes on finds the tables it needs |
| HTTP server | retries of a request, recovery and flush meet | one user gets one answer per UUID, and gets it |
| registration | another deployment between call and recovery | the function that was called runs, or none |
| debugger | function IDs handed out a second time, on a workflow that still runs | an operation is given its own record |

`PROJECT.json` lists every part, the ones that are not modelled too, and under
`hazards` every such behaviour at the line where it bites.

## 2. Modules

| module | what it is |
|---|---|
| `WorkflowJournal` | abstract specification: what durable execution promises of a workflow |
| `DurableWorkflow` | one workflow UUID, any number of executions and executor processes |
| `WorkflowQueue` | one queue, any number of workflows and dispatch loops |
| `Mailbox` | abstract specification: what sending and receiving promise |
| `Notifications` | messages, events, sleeps and status queries on Postgres; implements `Mailbox` |
| `FdbSystemDatabase` | the same operations on FoundationDB (extends `Notifications`); implements `Mailbox` |
| `SystemDatabase` | an executor with one of the two; what in each stands for the mailbox |
| `Scheduler` | the loops of several processes, and the matcher that finds their next times |
| `StreamReceivers` | Kafka and SQS receivers |
| `S3Files` | the workflows of the S3 component |
| `ProcessLifecycle` | a process from start to exit, and its three write buffers |
| `Provisioning` | several processes creating databases and tables |
| `UserDatabase`, `PostgresErrors` | connection pool and transactions of the five clients; which errors each recognises |
| `StoredProcedures` | a workflow of local and remote procedures |
| `DebugReplay` | an execution, and the debugger replaying its record |
| `HttpServer` | requests that share a workflow UUID |
| `Registration` | registration and look-up across deployments |
| `DataValidation` | argument validation and DBOSJSON as operators |
| `MCDurableWorkflow`, `MCWorkflowQueue` | workflow functions, executor IDs and symmetry sets for TLC |
| `MCMessages` | workflows that send, receive, set and read, for both system databases |
| `MCReceivers` | scheduler, streams and S3 in one run |
| `MCServices` | the eight parts that surround the workflows, in one run |
| `DurableWorkflowProofs` | type correctness of `DurableWorkflow`; inputs and recovery attempts |
| `DurableSafetyProofs` | its safety properties, and that it implements `WorkflowJournal` |
| `WorkflowQueueProofs`, `QueueLimitProofs` | claims of a queue; its limits, and that nothing claimed is lost |
| `MessageProofs` | answers on record; both system databases implement `Mailbox` |
| `ReceiverProofs` | scheduler, stream receivers, S3 files |
| `ServiceProofs` | write buffers, provisioning, registration, HTTP answers, argument validation |
| `DatabaseProofs` | transactions of the clients, stored procedures, the debugger |

Parts that share no state are checked in one run without being multiplied: a variable
(`part` in `MCReceivers` and `MCServices`, `backend` in `SystemDatabase`) says which
part moves, and the others keep one initial state. Each part has a specification of its
own (`SchedSpec`, `StreamSpec`, `S3Spec`, `LifeSpec`, `ProvSpec`, `DbSpec`, `ProcSpec`,
`ReplaySpec`, `HttpSpec`, `RegSpec`) made of the same initial predicate and next-state
relation; the theorems are about those.

### DurableWorkflow

A workflow is deterministic, so its function is given by the list of operations it
calls: `Kind[n]` is the n-th one, and an operation's error ends the workflow. User
code returns any value of `Vals`, again and again, or throws if the operation is in
`Throwing`: the model never assumes that a read or a step gives the same result
twice. Result values, not their JSON text, are compared.

| state | in the code |
|---|---|
| `wfStatus`, `wfOut`, `attempts` | the UUID's row of `workflow_status` |
| `wfInputs` | its row of `workflow_inputs` |
| `rec` | its rows of `transaction_outputs` and `operation_outputs` |
| `effects` | what the transactions, sends and setEvents committed, counted |
| `st`, `pc`, `obs`, `buf`, `arg`, ... | an execution: position, function ID, results seen, `resultBuffer`, arguments |
| `resBuf`, `resLocal`, `statusBuf`, `statusLocal`, `flushing` | the UUID's entries in the buffers, the copies a flush works on, and where the flush is |

An action ends where the code awaits the database: `InitStatus`, `DeadLetter` and
`InitInputs` are the statements of `initWorkflowStatus`; `TxnBegin` is BEGIN and the
lookup of the record, and `TxnCommit`, `TxnReadOnly`, `TxnThrow`, `TxnRetry`,
`TxnCommitRetry` and `TxnRecordError` are the ways a transaction goes on;
`FlushResultBuffer`, `CheckOperation`, `BodyReturns`, `StepThrows` and
`RecordOperation` are the awaits of a step; `NotifyCommit` is the one system
database transaction of `send` and `setEvent`; `Finish`, `RecordWorkflowError` and
`ConflictResult` are the end of `runWorkflow`; `FlushTake`, `FlushResults` and
`FlushStatus` are the periodic flush, including a batch that fails and is put back.
`Crash` loses everything an executor holds, at any point. `Cancel` and `Resume` are
the management commands.

Two switches select environments, not code: `Exclusive` (no two executions of the
UUID at the same time, as when a UUID is not reused and recovery only follows a
crash) and `CommitAborts` (COMMIT itself may report a serialization failure, as
PostgreSQL does under SERIALIZABLE, the default isolation level of transactions).

### WorkflowQueue

A workflow's function is abstracted to how it ends (`Succeed`, `Fail`, or
`Conflict` with another execution). The three statements of a `startWorkflow` call
are three actions and the INSERT of the row two, because the row's creation time is
taken when the statement begins and the row is visible when it commits. Two rows may
have one time, and appear in any order; `inOrder` remembers whether every row that
appeared so far was the newest. A dispatch is
`Wake` (the clock is read), `Snapshot` (the repeatable-read transaction reads), `Mark`
(its updates commit) or `MarkFails`, `Collect` (garbage collection of a rate-limited
queue) and one `StartClaimed` per workflow. `txn[e].dirty` holds the status rows
other transactions wrote since the snapshot: PostgreSQL refuses an UPDATE of such a
row under repeatable read. An error that leaves `dispatchLoop` is an unhandled
rejection of the promise the executor keeps, which ends the Node process: hence
`MarkFails` and `DeadLetter` in a dispatch lead to `down`.

`Restart` looks up the pending workflows of the process's own executor ID. For
"local" this is `init`; for a process on a VM it stands for the recovery request that
names the VM, taken to come first. Requests that name other IDs are not modelled.

`claims`, `startTime` and `inOrder` record what happened, for the properties only.

### WorkflowJournal

The journal of a workflow, with no executions, crashes, buffers or recovery in it:
results are never rewritten; an operation is journalled together with the reads before
it (`With`), unless it is one of those that record themselves past the buffer (`Alone`:
`getEvent`, `sleep`), which leave the reads to the next one; its effect happens in the
very step that journals it; and success is reported only of a workflow journalled to
its end. The refinement mapping is the record itself (`journal <- rec`).

The same distinction is in `DurableWorkflow`'s `NoGaps` and `CausalRecord`:
`Precedes(g, f)` says that `g` is recorded whenever `f` is, which is every earlier
operation, or every earlier one that is not a read if `f` does not flush.

### Notifications, FdbSystemDatabase, Mailbox

`Steps[w]` lists the calls of workflow `w`; an execution runs them in order. The state
is the rows of `operation_outputs`, `notifications`, `workflow_events` and
`workflow_status`, the recorded ends of sleeps (`deadlines`), the map of resolvers of
each process and the NOTIFY payloads it has not handled (`channel`). `recv` is
`CheckRecord`, `RecvLook`, `Register`, `SleepStart`, then `WaitEnds` and `Consume`,
one action per await; `getEvent` is the same with `EventLook` and `EventReread`.
`Listen` runs the handler of one payload, which may find no resolver, or another
execution's. A crash loses resolvers and payloads.

On FoundationDB a transaction is one action. `FdbSend` appends to an array,
`GetAndWatch` reads and sets the watch in one transaction, `FdbConsume` pops and
records. The status buffer and its flush belong to this module because the class has
its own, which forgets a batch that fails.

`Mailbox` knows messages, mailboxes and answers only: a message enters once, a
receive step is answered once and for good. On Postgres its rows are those of
`notifications`; on FoundationDB they are the elements of the arrays. The mailbox
makes one concession to the code: messages with the same creation time leave
together, and one of them is the answer. The mapping stamps a row with its millisecond
and an element of an array with the step that sent it: in an array every message has a
time of its own.

### Scheduler

A loop of `Scheduler` is the `DetachableLoop` of one process: read the stored time,
compute the next one with the matcher's bounded look-ahead, wait, start the workflow,
store the time. The matcher works on the six sets of numbers a crontab was converted to
(`Patterns`); the conversion of the text is not modelled. `started` collects UUIDs,
which are made of function and time. A loop whose query fails rejects a promise that
nobody handles until `destroyScheduler` looks at it: the process ends, as it does in
`WorkflowQueue`, unless the loop was told to stop. `told` and `deaf` remember, for the
properties, that `destroyScheduler` was called and that the loop did not hear it:
`setStopLoopFlag` returns at once while the loop still reads its stored time.

### StreamReceivers and S3Files

The brokers are external: Kafka hands out a partition in order, again from the
committed offset after a failure; SQS shows a message again unless it was deleted, and
may deliver it twice. `EachMessage` starts the workflow or runs the transaction under
the UUID of topic, partition and offset before the offset is committed. `S3Files`
takes steps as durable (that is `DurableWorkflow`'s subject) and leaves crashes inside
them to the repetition of a step; the client with the presigned URL uploads and
reports whenever it likes, within the lifetime of the URL.

### ProcessLifecycle and Provisioning

`phase` names the await of `initAndStart` or `destroy` that the process is in; a
workflow moves from accepted to running to its end at any of them. Each of the three
flush stages copies its buffer, writes batches, and gives back what is left
(`FlushOk`, `FlushFails`, `FlushStageDone`). Inputs whose status still waits in its
own buffer are passed over, and the foreign key refuses the others. `destroy` waits
for the loops of the scheduler first: `schedulerHeard` says whether all of them heard the
stop, and a process with one that did not stays there, until a query of that loop fails
(`DeafLoopFails`). `Provisioning`
has one `step` per process: look, create if missing, migrate under the lock of knex,
accept a failed migration if a table of the first one exists.

### UserDatabase, PostgresErrors, StoredProcedures

A connection has a holder and perhaps an open transaction; a statement runs on
whatever its connection has open. The five clients differ in what they ask of the
server (one record each) and in where they look for the SQLSTATE. A procedure's body
is one effect. Local procedures are the statements of `#invokeProcLocal`, in its order
(the look-up under the incremented function ID, the buffer that is cleared before
COMMIT, the error that is recorded twice); remote ones are the generated SQL as one
transaction.

### DebugReplay

One workflow of operations of eleven kinds executes, records, crashes and is
recovered, while the debugger replays what is recorded at that moment with function
IDs of its own. One action per method of `WorkflowContextDebug`. Operations are
compared by their position, so `dbg.got` tells whose record an operation was given.
The reads in the result buffer and the final status are written by separate actions, as
`flushWorkflowBuffers` writes them to two databases, and either may come first: `early`
remembers the reads that were still in the buffer when SUCCESS was written.

### HttpServer, Registration, DataValidation

A request goes through `wrappedHandler` (authenticate, parse, invoke, respond); the
workflow under its UUID is one operation. Its outcome is recorded at once, except the
result of a read-only transaction, which waits in `opBuffer` for `FlushResults`; until
then every request runs it. A deployment of `Registration`
chooses the decorated functions and configured instances anew, while the status of an
old workflow stays. `DataValidation` has no steps: its initial states are all pairs of
a description and a value, and its property compares what validation makes of a value
with what it makes of the recorded value.

## 3. What is model-checked

Every property comes with a plausible bug in the code, written as an operator beside
the definition it would change (`KeysIgnored` for a missing primary key,
`OwnKeyOnly` for a transaction that does not write the buffered results, ...), that
violates it under the same configuration.

### Properties that hold

| run | instance | shows |
|---|---|---|
| `durable_concurrent` | 2 processes, 2 executions, `<<read, getEvent, write, step>>`, a step that throws and is retried, 1 crash | `TypeOK`, `ExactlyOnce`, `ObservedRecorded`, `NoGaps`, `CausalRecord`, and that the journal is implemented (`JournalSpec`) |
| `durable_faults` | 1 process, 2 executions, `<<read, getEvent, sleep, write>>`, two argument values, `CommitAborts`, 1 crash, 1 serialization failure or failed flush, 1 cancel or resume | `SharedInputs` and `OutcomeRecorded` hold even where `NoGaps` does not |
| `durable_recovery` | 1 process, 3 executions one after the other, 2 crashes, 1 fault, `maxRecoveryAttempts` 2 | `RunsToCompletion`, `RecoveriesBounded`, `CompleteStepNotRerun` |
| `durable_duplicates` | 1 process, 2 concurrent executions of `<<read, send, step>>`, both may throw, 1 fault | `WaitersReturn`, `OutputStable` |
| `queue_limits` | 2 loops, 2 workflows, concurrency 1, 1 start per 2 ticks, 3 ticks, rows in any order, transactions that fail and end their process, `maxRecoveryAttempts` 3 | `ConcurrencyRespected`, `RateRespected`, `ClaimedOnce`, `RowsHaveInputs` |
| `queue_recovery` | 1 process, 2 workflows, each enqueued up to twice, concurrency 1, 2 crashes, 1 cancel, `maxRecoveryAttempts` 2 | `RowsReleased`, `PendingEnds` |
| `messages` | both system databases; two sends to a receiver that receives twice, a setter that overwrites its event, a reader, a client; a second execution of a reader, or 1 crash | `AnswersRecorded`, `ImplementsMailbox`, and on Postgres `CallsReturn` |
| `receivers` | 2 loops, 6 seconds, 1 crash or failing query; 3 offsets with one that throws; 2 SQS messages, 2 faults; one S3 key, 6 days, 1 fault | `OncePerInterval`, `MissedMadeUp`, `StopEnds`, `NoMessageLost`, `EveryMessageRuns`, `BucketMatchesTable` |
| `services` | 2 workflows, batches of 1, 1 failing statement; 3 starters of which 2 migrate, 2 migrations; 2 callers, 2 connections; 2 procedures, 2 crashes; 2 operations of 11 kinds, 1 crash; 2 requests to endpoints of every kind, read-only transactions included; 2 classes, 2 deployments; every argument | `NothingDropped`, `InputsFollowStatus`, `StopsWhenAsked`, `ReadyMeansUsable`, `AbortedLeavesNothing`, `ProcedureOnce`, `ReplayFaithful`, `AnsweredAlike`, `EveryRequestAnswered`, `RecoversTheSame`, `ValidatedAlike` |

Why the bounds are enough to meet the interesting cases. Two executions are what a
conflict takes, and a third only meets a row that is already there; a read, a write
and an operation after it are what a lost buffer takes, a `getEvent` between read and
write what leaves a read behind; two values make the second
read differ from the first; one crash puts a recovery after every prefix of the
first execution, two crashes reach the dead letter at `maxRecoveryAttempts` 2. For
the queue, two loops race for one row, two workflows race for one slot, and three
ticks hold a full window of the rate limit and a start after it, so that a claim is
both refused and granted. That run has no crash at an arbitrary point, which would take
it past what can be explored; the theorems about its properties have any number. In
`queue_recovery` a second call finds the row of a workflow that is waiting, running or
done, and two crashes use up the attempts of one that was claimed. For messages, two sends may fall into one tick or into two,
and a deadline of one tick passes before or after the notification. The scheduled
seconds 2 and 5 are further apart than one look-ahead of the matcher, so a loop hops.
A batch of one makes a flush of two entries fail half-way. Three starters let two
race while a third finds the lock taken. Two operations are enough to hand the second
one the record of the first. All counters that the code leaves unbounded are bounded
in the guards by constants named `Max...` or by the size of a constant set. Runs do
not check for deadlock where a workflow, a process or a request may have nothing left
to do. Symmetry is used for safety only.

### Fairness

All fairness is weak. Crashes, faults, conflicts, invocations and commands never have
to happen.

* `FairSpec` of `DurableWorkflow`: a live process keeps serving its executions and its
  flush timer (the event loop; database calls are retried or fail), a crashed process
  is restarted, and once no execution is left and no outcome waits in memory somebody
  runs the recovery (start-up does).
* `FairSpec` of `WorkflowQueue`: loops, executions, start-up and calls that have begun
  go on. The liveness of a rate-limited queue is not checked: its clock is bounded, so
  a period need not pass.
* `SysSpec` of `SystemDatabase`: some step that can go on does (a query returns, a timer fires, the
  notification handler runs), including the clock. No behaviour takes such steps for
  ever, so one condition serves all executions.
* `MCReceivers`: the scheduler's loops and clock as one, the Kafka consumer and the SQS
  listener each; the brokers deliver what they hold.
* `MCServices`: starting, flushing and stopping each go on in a
  process, whose event loop resumes an await when its call returns; each request is
  handled on, and outputs and results are flushed (the interval of one second). Nothing
  makes a workflow end or a scheduler loop that did not hear the stop fail: that workflows
  do not run for ever, and that every loop heard it, are conditions in `StopsWhenAsked`.

### Time and order in the queue run

* `inOrder`: every row that has appeared in `workflow_queue` was newer than all that were
  there. `created_at_epoch_ms` is a millisecond `now()`, so the code does not ensure it, and
  the model does not either: the run enters the states where it is false. Only
  `ConcurrencyRespected` and `RateRespected` ask for it, since beyond it the limits do fail,
  see below; `ClaimedOnce`, `RowsHaveInputs` and the liveness properties do not.
* `MaxDispatch`: the ticks between reading the clock and committing the claim. A
  claim carries the time that was read, so the limit holds for windows of
  `Period - MaxDispatch`; `RateRespected` says so.

### Where the code does less than the repository says

Each is a run that TLC must find violated, and a finding in `PROJECT.json`.

| run | what happens |
|---|---|
| `durable_commit_abort` | `resultBuffer.clear()` runs before COMMIT. When COMMIT reports a serialization failure the retry has nothing to flush: the write is recorded, the read it depended on is not |
| `durable_txn_error` | a recovery finds a transaction's recorded error, throws it inside the transaction, and the catch block records it again: key conflict, and the recovery polls for an outcome only it could write |
| `queue_foreign_owner` | `executor_id` stays that of the process that enqueued: a workflow claimed by another process is not among those its restart recovers |

### Known limits

Met by changing a constant of a passing run:

* `getEvent` and `sleepms` record themselves without flushing: after a crash the event
  is replayed and the read before it executed again, perhaps with another result.
  `NoGaps` exempts these reads (`Precedes`); with `Flushes(f) == TRUE` it fails on
  `<<"ro", "getEvent">>`, one process, two executions one after the other and one crash.
* Two queue rows of one millisecond: the started one may sort second, fall out of the
  first N, and a second workflow starts on a queue of concurrency 1
  (`ConcurrencyRespected` without `inOrder` in it). So may two loops that see two rows in
  different orders claim one each, past the rate limit.
* With two overlapping executions, a step can run again after it was recorded
  (`CompleteStepNotRerun` with `Exclusive = FALSE`): lookup, step and record are
  three awaits. Only its record is unique.
* A workflow that ends in a read-only transaction can report another output when
  its UUID is invoked again: a flush that was under way when it ended writes its
  status but not yet its buffered read, and a crash loses that read (`OutputStable`
  with such a function and `MaxCrashes = 1`).
* The same without a crash: a second execution that finds the final write on record
  returns with a read of its own still in its buffer, and the two outputs differ
  (`OutputStable` with a `Kind` of `<<"ro", "rw">>` and two overlapping executions). The
  theorem therefore asks for a last operation that flushes whether or not it was found.
* A UUID enqueued again after its workflow ended, a queued workflow that is cancelled, and
  one whose recovery attempts are used up each leave a row that is never released, and
  take a place of the queue for ever. `RowsReleased` names them (`Abandoned`); without
  that disjunct it fails.
* A crash between the status and the queue row leaves a workflow ENQUEUED for ever
  (a disabled test in `tests/wfqueue.test.ts` says so); the liveness properties of the
  queue begin with the row.

Built into a model because the code is so, and excluded where a property names the
exception:

* Messages and events. `setEvent` overwrites (the comment at `workflow.ts` 883 calls
  events immutable), so two readers may have recorded different values. Messages of
  one millisecond are deleted together. A payload that was not handled yet can wake the
  next `recv` of the topic early. On FoundationDB the signatures of `recv` and
  `getEvent` are not those their caller uses, `sleepms` is not durable, a flush that
  fails loses its batch, and a waiter's result may therefore never come: `CallsReturn`
  is about Postgres.
* Scheduler. Two processes that start before the first time is stored may leave out
  intervals. An error in the loop ends the process. A stop is not heard while the stored
  time is read: that loop goes on, and `destroyScheduler` waits for it, for ever unless a
  query fails; `StopEnds` and `StopsWhenAsked` exclude that case by name. In the conversion
  of the text, which is not modelled, a range of week days that ends in 7 becomes one that
  ends in 0.
* Receivers. A transaction that throws on every delivery blocks its partition, and
  `retries: 0` never subscribes. A failed presign leaves a pending row.
* Process. `destroy` skips its last flush while the worker is flushing; workflows of
  requests that were accepted before the servers closed may start after it looked for
  pending ones; one row that conflicts for good keeps its batch of results from being
  written; when an error cannot be recorded, the inputs buffered with it are refused
  for good; recovered workflows run before configured instances are initialized. A
  workflow that never settles, such as the poll of `durable_txn_error`, keeps `destroy`
  waiting.
* Provisioning. Of two processes that create a database one fails; a process whose
  migration failed may go on while the later migrations are still missing.
* User database. pg-node's `queryFunction` gives its connection back before its queries
  are done; Prisma and TypeORM do not ask for read-only transactions.
* Stored procedures. A local procedure looks for its output under the next function
  ID, so only the primary key keeps a recovered one from a second commit, and the
  recovery then waits for its own result; an error is recorded twice, with the same
  effect; errors of the procedure pool are judged by the application's client, and
  Prisma and TypeORM never recognise them.
* Debugger. A sleep of no length takes a function ID only in the replay; a workflow
  that throws drops its buffered reads, so its replay fails; a workflow whose SUCCESS is
  on record may lack reads, because they are flushed apart from it, and its replay stops
  at the first of them; `getStatus` of a child's handle records a row during replay.
* HTTP. Users with different roles who share a UUID get different answers, and an
  error of the second overwrites the recorded status. Requests to a read-only
  transaction that come before its result is flushed all run it, and one user may get two
  answers for one UUID: `AnsweredAlike` with `~api.readOnly` left out fails.
* Registration. A status without a class name may find the function of another class
  once its own is gone; an instance that is no longer configured is passed as none;
  the temporary workflow of a procedure cannot be executed again.

## 4. What is proved

The theorems hold for every number of processes, executions, operations, workflows,
messages, requests, crashes and faults, every workflow function and every size of the
value sets. They use the named assumptions of the modules that declare the constants,
which TLC evaluates in every run; what a theorem needs beyond them stands in its
statement.

| theorem | statement |
|---|---|
| `TypeCorrect` | `Spec => []TypeOK` of `DurableWorkflow` |
| `ArgumentsShared` | `Spec => []SharedInputs` |
| `RecoveryGivesUp` | `Spec => []RecoveriesBounded` |
| `EffectsExactlyOnce` | `Spec => []ExactlyOnce` |
| `ExecutionsAgree` | `Spec => []ObservedRecorded` |
| `OutcomesRecorded` | `Spec => []OutcomeRecorded` |
| `RecordHasNoGaps` | `Spec => []NoGaps`, assuming `~CommitAborts` |
| `RecordIsCausal` | `Spec => CausalRecord`, assuming `~CommitAborts` |
| `ImplementsJournal` | `Spec => JournalSpec`, assuming `~CommitAborts` |
| `StepsNotRerun` | `Spec => CompleteStepNotRerun`, assuming `Exclusive` |
| `OutputNeverChanges` | `Spec => OutputStable`, assuming `~CommitAborts` and `LastFlushes` |
| `ClaimedAtMostOnce` | `Spec => []ClaimedOnce` of `WorkflowQueue` |
| `RowsExecutable` | `Spec => []RowsHaveInputs` of `WorkflowQueue` |
| `ConcurrencyIsKept` | `Spec => []ConcurrencyRespected` |
| `RateIsKept` | `Spec => []RateRespected` |
| `PendingNeverLost` | `Spec => []PendingInHand` of `WorkflowQueue`, assuming `OneId` |
| `ReturnedIsRecorded` | `SysSpec => []AnswersRecorded` |
| `BothImplementMailbox` | `SysSpec => ImplementsMailbox` |
| `ScheduleOncePerInterval` | `SchedSpec(n) => []OncePerInterval` |
| `MessagesNotLost` | `StreamSpec => []NoMessageLost` |
| `BucketAndTableAgree` | `S3Spec => []BucketMatchesTable` |
| `BuffersDropNothing` | `LifeSpec => []NothingDropped` |
| `StatusPrecedesInputs` | `LifeSpec => []InputsFollowStatus` |
| `ReadyIsUsable` | `ProvSpec => []ReadyMeansUsable` |
| `RecoveryCallsTheSame` | `RegSpec => []RecoversTheSame` |
| `OneAnswer` | `HttpSpec => []AnsweredAlike` |
| `ArgumentsValidatedAlike` | `AnyValue(passed.x) => ValidatedAlike`, and the arguments of the run are such values |
| `AbortedNeverCommitted` | `DbSpec => []AbortedLeavesNothing` |
| `ProcedureCommitsOnce` | `ProcSpec => []ProcedureOnce` |
| `ReplayGivesOwnRecords` | `ReplaySpec => []ReplayFaithful` |

### What is assumed

* `~CommitAborts`: COMMIT does not report serialization failures. The run
  `durable_commit_abort` shows that it is needed.
* `LastFlushes`: the function ends with a step, `send` or `setEvent`, which flush the
  buffered reads even when they find themselves on record. The known limits show what
  happens after a last read and after a last write.
* `Exclusive` is a switch of the model; see the known limits for what happens without it.
  The limits of the queue are stated up to the first row that appears out of order
  (`inOrder`, in the properties themselves).
* `OneId`: all processes have one executor ID ("local" unless `DBOS__VMID` is set). The
  run `queue_foreign_owner` shows what happens with two.
* `MessagesAssumption`: messages are told apart by the step that sends them (in the code
  a send is identified by UUID and function ID, whatever its text), and clients neither
  send nor receive outside a workflow (`DBOSExecutor.send` runs a temporary workflow).
* `S3Assumption`: `recv` waits longer than the presigned post lives, as in the code.

### Along which argument

**Durable execution.** None of the properties is inductive. `Inv` adds what every
execution knows: operations behind it have the result it has seen, apart from the
reads still in its buffer (`RunInv`, `RunReads`); what the executor's result buffer
holds was left there by an execution that is done (`ResInv`); where an execution
stands tells the kind of its operation (`OpStates`). All steps that change the
record have one shape: an execution inserts results it has seen, for function IDs
that have no row (`Records`), and moves on by at most one operation (`Behind`).
That such a step preserves each part of `Inv` is proved once; for each action it
remains to show its shape (`TxnShape`, `OpShape`, `FlushResultsShape`). Steps that
change neither the record nor what executions know are `Calm`. The refinement uses
the largest function ID that a step inserts as the witness of the journal's
`Extend`. A `getEvent` or a `sleep` inserts itself alone, and the reads it leaves
behind are in the buffer of the execution that did them (`RunReads`): whoever records
the next operation that flushes has one for each of them.

`EntryInv` is about the way into the function: an execution past `initWorkflowStatus`
has the recorded inputs (`InputsInv`), and as long as nobody resumed the workflow the
recoveries that were admitted are no more than the attempts counted in its row, which
stay below `maxRecoveryAttempts` (`AttemptsInv`). The count rests on the row and not on
the executions, so it survives crashes. For `StepsNotRerun`, a step between its lookup
and its record has no row (`StepOpen`), because the only execution that could write it
is the one at the step (`OneAtATime`). For `OutputNeverChanges`, an execution that has
returned has an empty buffer (`Emptied`), hence has seen the whole record, which never
changes (`Outputs`).

**Queue.** Two facts carry each other: a workflow with status NONE or ENQUEUED was
never claimed (`Unclaimed`), and what an open transaction believes to be ENQUEUED
still is, unless its row was written since and the transaction cannot commit
(`Fresh`). A `Mark` that commits therefore only claims unclaimed workflows, and
leaves them PENDING.

The limits take more, because loops count in one step and claim in another. A count of
what is started is of no use: another loop may start its own in between. What stays
true is a place: a started workflow has fewer than `Concurrency` older rows (`Below`),
and later rows do not change that as long as they appear in order (`Arrivals`; `inOrder`
never becomes true again). What an
open transaction can still claim is in such a place too, and everything older that
still waits is among its own picks (`PicksBelow`, `InOrder`): two transactions that both
claim share their oldest pick, and one of them is refused. For the rate, a transaction
that can commit has counted every recent start (`Counted`), since a start it has not
seen is again a claim on the same oldest row; and a start young enough to matter is in a
row that garbage collection has kept (`StartsRecorded`).

`PendingInHand` is the safety half of `PendingEnds`: each PENDING workflow is executed
by a process, or claimed, or found by its recovery, or has the executor ID of a process
that is down; the rest is that processes go on, which only TLC checks. A process that
goes down while it holds the workflow keeps it in hand because the ID it was recorded
with is everybody's (`Owned`); one that gives way in a conflict leaves it to the other
execution; one that claims has nothing left from its last claim that it could forget
(`ClaimsTaken`); and what a transaction marks PENDING is exactly what its loop goes on
to start, because the rows it looked at are told apart (`PickedOnce`). The invariant
needs neither the order of the rows nor a rate limit.

**Messages.** `PlaceInv` says where an execution can be, with which record and which
deadline; each action is then shown to do one of a few things to what
is recorded (`Fine`, `Kept`, `Idles`). An execution has one answer for each step behind
it (`AnswersInv`). For the mailbox, each array holds messages of recorded sends, in the
array of their destination and none twice (`StoredArrays`), so that taking the first
element takes one row, and rows of a table are those of send steps (`StoredRows`).

**Receivers.** A loop of the scheduler stands no earlier than the stored
time, with nothing scheduled between the two, and a sole loop has started everything up
to the stored time (`Stands`, `Covered`); that the bounded look-ahead of the matcher
skips nothing needs the least scheduled time after a given one, from the well-ordering
of the numbers. A receiver has in its hands what the broker would deliver next, and what
it is about to acknowledge is on record (`KafkaInHand`, `SqsInHand`). The presigned post
ends before the wait for it (`S3Expires`), which is why an upload given up leaves
nothing behind.

**Services.** What a flush stage holds, in its buffer, in the statement being tried or
in its table, only grows (`Kept`), and inputs that are not written yet have their status
among those or will never have one (`StatusBefore`). A process that provisions has
behind it the objects its step needs (`WayMade`), and objects are never dropped. The
status of a call names the function that was called, without its class if it is an old
one (`StatusOfCall`). While one user sends all requests there is one outcome that any of
them can have got, and the rows, the buffer and every request in flight agree on it
(`Agreed`); this needs an outcome that is recorded at once (`Once`). A request that found
a recorded result keeps it to its answer (`Answers`), because a row is never overwritten. Validation and the record fold a value the same
way, null and undefined into one and wrapped primitives into plain ones (`RecordedFolds`),
and what validation hands on it accepts again and leaves alone (`ValidatedAgain`).

**Database.** Uncommitted writes on a connection are those of the body that runs on it
(`OwnWrites`), and what was committed or thrown belongs to an earlier call (`Earlier`):
so nothing is left for the next holder to commit. A procedure's writes and its row come
together, in each of the orders the code has (`RecordedWithEffect`). In the debugger,
execution and replay hand out the same function ID for an operation, one for each before
it and one more for each timeout among them (`FirstID`, `SameIDs`): IDs ascend, none
belongs to two operations (`IDsAscend`, `IDsDistinct`), and a running execution has on
record, or in its buffer, everything behind it (`Passed`). What a recorded success lacks is
therefore what was in the buffer at that moment.

### What the proofs changed

* The mapping of FoundationDB's arrays to the mailbox used positions, which shift. The
  rows are now told apart by the step that sent them.
* `OutputStable` was believed to hold wherever all operations flush; the attempt to
  prove it led to the known limit about `<<"ro", "rw">>`.
* `NoGaps`, `CausalRecord` and the journal were stated for functions without `getEvent`
  and `sleep`. They now say what the record of any function has (`Precedes`, `Alone`).
* The branches of `validateMethodArg` overlapped in the model for an argument that is
  undefined; they now come in the order of the code.

### Only model-checked

* All liveness, which is out of the prover's reach: `RunsToCompletion`, `WaitersReturn`,
  `RowsReleased`, `PendingEnds`, `CallsReturn`, `MissedMadeUp`, `StopEnds`,
  `EveryMessageRuns`, `StopsWhenAsked`, `EveryRequestAnswered`.

Every invariant and every action property of a passing run is the subject of a theorem.

## 5. What is not modelled, and what is left

Not modelled, and why:

* `getWorkflows` and `getWorkflowQueue`, the listing commands, the retrieval of inputs:
  they read and change nothing.
* The translation of the stored procedure compiler, the OpenAPI generator, command
  line, configuration files and the cloud client: they have no state that another
  step could meet.
* Telemetry, logging and contexts: nothing a workflow does depends on them.
* Middleware, CORS, body parsing and routing of the HTTP server: Koa's.
* The debugger's time travel proxy, and the testing runtime.
* The queries of the client libraries; isolation below SERIALIZABLE; procedure bodies.
* The conversion of a crontab's text to numbers: a pure function, whose specification
  would be its replacements over again.
* Several queues at once: they share no rows, only the loop that visits them.

Left to do, in this order:

1. Composition: the queue's `Succeed`, `Fail` and `Conflict` implemented by
   `DurableWorkflow` executions of several UUIDs; `recv` and child workflows as
   operations of `DurableWorkflow`.
2. What still holds of the queue's limits once rows appeared out of order: by how much, and
   for how long, they are exceeded.
