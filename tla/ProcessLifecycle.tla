-------------------------- MODULE ProcessLifecycle --------------------------
(***************************************************************************)
(* One process from initAndStart to exit, and the three write buffers it   *)
(* keeps for all its workflows: read-only results (DBOSExecutor), final    *)
(* statuses and the inputs of single-transaction workflows                 *)
(* (PostgresSystemDatabase).  The flush worker, the workflows and the      *)
(* shutdown interleave at every await.                                     *)
(***************************************************************************)
EXTENDS Naturals, FiniteSets

CONSTANTS Jobs,          \* workflows the process may run
          SingleTxn,     \* those that wrap one transaction or procedure
          Reads,         \* those that leave read-only results to write
          FlushBatch,    \* flushBatchSize, per statement
          MaxDbFails     \* bound: how many statements fail

ASSUME LifecycleAssumption ==
  SingleTxn \subseteq Jobs /\ Reads \subseteq Jobs /\ FlushBatch \in Nat \ {0} /\ MaxDbFails \in Nat

VARIABLES phase,         \* where initAndStart or destroy waits
          job,           \* what each workflow does
          buffer,        \* the entries each write buffer holds
          written,       \* the rows of each table
          flush,         \* the flush in progress: its stage and its localBuffer
          flags,         \* initialized, isFlushingBuffers, the interval, the servers, and
                          \* whether every loop of the scheduler heard the stop
          waitFor,       \* the promises destroy waits for
          unrecorded,    \* workflows whose error could not be written
          refused,       \* inputs whose insert the foreign key refused
          dbFails

lifeVars == <<phase, job, buffer, written, flush, flags, waitFor, unrecorded, refused, dbFails>>

Stages   == {"results", "status", "inputs"}
NoFlush  == [at |-> "idle", local |-> {}, seen |-> 0, total |-> 0]

LifeInit ==
  /\ phase = "loading"
  /\ job = [j \in Jobs |-> "none"]
  /\ buffer = [s \in Stages |-> {}]
  /\ written = [s \in Stages |-> {}]
  /\ flush = NoFlush
  /\ flags = [initialized |-> FALSE, isFlushingBuffers |-> FALSE, interval |-> TRUE, open |-> FALSE,
              schedulerHeard |-> TRUE]
  /\ waitFor = {} /\ unrecorded = {} /\ refused = {} /\ dbFails = 0

-----------------------------------------------------------------------------
(* Starting *)

\* The awaits of initAndStart after the classes are loaded, in order.
After == [connecting   |-> "migrating",    \* userDatabase.init
          migrating    |-> "recovering",   \* systemDatabase.init
          recovering   |-> "initializing", \* recoverPendingWorkflows
          initializing |-> "listening",    \* configured instances, init methods
          listening    |-> "receiving",    \* server.listen; scheduler and queue loop
          receiving    |-> "up"]           \* event receivers

\* Every entry point is imported; one that is missing, or no class at all,
\* ends the process without destroy.
loadClasses ==
  /\ phase = "loading"
  /\ phase' \in {"connecting", "exited"}
  /\ UNCHANGED <<job, buffer, written, flush, flags, waitFor, unrecorded, refused, dbFails>>

\* An await of initAndStart returns; init sets initialized once the
\* recovered workflows are started.
initAndStart ==
  /\ phase \in DOMAIN After
  /\ phase' = After[phase]
  /\ flags' = [flags EXCEPT !.initialized = @ \/ phase = "recovering", !.open = @ \/ phase = "listening"]
  /\ UNCHANGED <<job, buffer, written, flush, waitFor, unrecorded, refused, dbFails>>

\* destroyScheduler tells every loop to stop.  One that still reads its stored
\* time does not hear it (setStopLoopFlag of Scheduler).
tellScheduler(started) ==
  /\ phase' = "stopScheduler"
  /\ \E h \in (IF started THEN BOOLEAN ELSE {TRUE}) : flags' = [flags EXCEPT !.schedulerHeard = h]

\* An await of initAndStart throws.  A port in use ends the process at once;
\* anything else is wrapped up.
StartFails ==
  /\ phase \in DOMAIN After
  /\ dbFails < MaxDbFails
  /\ dbFails' = dbFails + 1
  /\ \/ phase = "listening" /\ phase' = "exited" /\ UNCHANGED flags
     \/ phase # "listening" /\ tellScheduler(phase = "receiving")
  /\ UNCHANGED <<job, buffer, written, flush, waitFor, unrecorded, refused>>

\* A request, an event or the scheduler asks for a workflow.
AcceptJob(j) ==
  /\ flags.open /\ job[j] = "none"
  /\ job' = [job EXCEPT ![j] = "accepted"]
  /\ UNCHANGED <<phase, buffer, written, flush, flags, waitFor, unrecorded, refused, dbFails>>

\* The workflow starts: at once when it is recovered, later when its request
\* was still being handled, even after the servers stopped listening.  All
\* but single-transaction workflows have their status row from the start.
StartJob(j) ==
  /\ \/ phase = "recovering" /\ job[j] = "none" /\ j \notin SingleTxn
     \/ phase \notin {"closeUser", "exited"} /\ job[j] = "accepted"
  /\ job' = [job EXCEPT ![j] = "running"]
  /\ written' = [written EXCEPT !.status = IF j \in SingleTxn THEN @ ELSE @ \cup {j}]
  /\ UNCHANGED <<phase, buffer, flush, flags, waitFor, unrecorded, refused, dbFails>>

Buffered(b, stage, js) == [b EXCEPT ![stage] = @ \cup js]

\* The workflow returns: its status is buffered, then its inputs when it is
\* a single transaction, then its read-only results.
FinishJob(j) ==
  /\ phase # "exited" /\ job[j] = "running"
  /\ job' = [job EXCEPT ![j] = "succeeded"]
  /\ buffer' = [status  |-> buffer.status \cup {j},
                inputs  |-> buffer.inputs \cup ({j} \cap SingleTxn),
                results |-> buffer.results \cup ({j} \cap Reads)]
  /\ UNCHANGED <<phase, written, flush, flags, waitFor, unrecorded, refused, dbFails>>

\* The workflow throws: recordWorkflowError writes its status itself; when
\* that fails the inputs of a single transaction are buffered all the same.
FailJob(j) ==
  /\ phase # "exited" /\ job[j] = "running"
  /\ job' = [job EXCEPT ![j] = "failed"]
  /\ buffer' = Buffered(buffer, "inputs", {j} \cap SingleTxn)
  /\ \/ /\ phase # "closeUser"
        /\ written' = [written EXCEPT !.status = @ \cup {j}]
        /\ UNCHANGED <<unrecorded, dbFails>>
     \/ /\ phase = "closeUser" \/ dbFails < MaxDbFails
        /\ unrecorded' = unrecorded \cup {j}
        /\ dbFails' = IF phase = "closeUser" THEN dbFails ELSE dbFails + 1
        /\ UNCHANGED written
  /\ UNCHANGED <<phase, flush, flags, waitFor, refused>>

\* Another process that runs the same workflow writes its results first.
OtherRecords(j) ==
  /\ j \in Reads /\ job[j] = "running" /\ phase = "up"
  /\ written' = [written EXCEPT !.results = @ \cup {j}]
  /\ UNCHANGED <<phase, job, buffer, flush, flags, waitFor, unrecorded, refused, dbFails>>

-----------------------------------------------------------------------------
(* Flushing *)

NextStage == [results |-> "status", status |-> "inputs"]

\* The stage copies its buffer and clears it, in one go.
Taking(stage, buf) ==
  /\ flush' = [at |-> stage, local |-> buf[stage], seen |-> 0, total |-> Cardinality(buf[stage])]
  /\ buffer' = [buf EXCEPT ![stage] = {}]

\* The interval fires; flushWorkflowBuffers does nothing before initialized.
FlushTick ==
  /\ flags.interval /\ ~flags.isFlushingBuffers /\ flags.initialized
  /\ flush.at = "idle" /\ phase # "exited"
  /\ flags' = [flags EXCEPT !.isFlushingBuffers = TRUE]
  /\ Taking("results", buffer)
  /\ UNCHANGED <<phase, job, written, waitFor, unrecorded, refused, dbFails>>

\* The entries one statement writes: at most a batch of the local buffer.
\* Inputs whose status still waits in its own buffer are passed over.
BatchesOf(local) ==
  {e \in SUBSET local : LET b == e \ (IF flush.at = "inputs" THEN buffer.status ELSE {}) IN
     Cardinality(b) = FlushBatch \/ (Cardinality(b) < FlushBatch /\ e = local)}

\* Mutant: the inputs of a workflow whose status is not written yet go too.
PassingAll(e) == e

Passing(e) == IF flush.at = "inputs" THEN e \ buffer.status ELSE e

\* The key of a result row, the foreign key of an inputs row.
Refuses(b) == \/ flush.at = "results" /\ b \cap written.results # {}
              \/ flush.at = "inputs" /\ ~(b \subseteq written.status)

MoreToSee(seen) == seen < flush.total

FlushOk ==
  /\ flush.at # "idle" /\ MoreToSee(flush.seen) /\ phase \notin {"closeUser", "exited"}
  /\ \E e \in BatchesOf(flush.local) : LET b == Passing(e) IN
       /\ ~Refuses(b)
       /\ written' = [written EXCEPT ![flush.at] = @ \cup b]
       /\ flush' = [flush EXCEPT !.local = @ \ b, !.seen = @ + Cardinality(e)]
  /\ UNCHANGED <<phase, job, buffer, flags, waitFor, unrecorded, refused, dbFails>>

\* Mutant: a failed statement loses what it was to write.
GiveBackNothing(buf) == buf

\* What is left of the local buffer returns to the buffer.
GiveBackTo(buf) == Buffered(buf, flush.at, flush.local)

\* Mutant: the flag is not reset when the last stage ends.
StageEndsFlagged(buf) ==
  IF flush.at = "inputs"
  THEN flush' = NoFlush /\ buffer' = buf /\ UNCHANGED flags
  ELSE Taking(NextStage[flush.at], buf) /\ UNCHANGED flags

\* A stage ends, and the next one begins; after the last one the flush is over.
StageEnds(buf) ==
  IF flush.at = "inputs"
  THEN /\ flush' = NoFlush /\ buffer' = buf
       /\ flags' = [flags EXCEPT !.isFlushingBuffers = FALSE]
  ELSE Taking(NextStage[flush.at], buf) /\ UNCHANGED flags

FlushFails ==
  /\ flush.at # "idle" /\ MoreToSee(flush.seen) /\ phase # "exited"
  /\ \/ \E e \in BatchesOf(flush.local) : LET b == Passing(e) IN
          /\ Refuses(b)
          /\ refused' = IF flush.at = "inputs" THEN refused \cup (b \ written.status) ELSE refused
          /\ UNCHANGED dbFails
     \/ dbFails < MaxDbFails /\ dbFails' = dbFails + 1 /\ UNCHANGED refused
  /\ StageEnds(GiveBackTo(buffer))
  /\ UNCHANGED <<phase, job, written, waitFor, unrecorded>>

FlushStageDone ==
  /\ flush.at # "idle" /\ ~MoreToSee(flush.seen) /\ phase # "exited"
  /\ StageEnds(GiveBackTo(buffer))
  /\ UNCHANGED <<phase, job, written, waitFor, unrecorded, refused, dbFails>>

-----------------------------------------------------------------------------
(* Stopping *)

\* SIGTERM and SIGQUIT are only caught once the process is up.
onSigterm ==
  /\ phase = "up" /\ tellScheduler(TRUE)
  /\ UNCHANGED <<job, buffer, written, flush, waitFor, unrecorded, refused, dbFails>>

\* destroyScheduler waits for all its loops; one that did not hear the stop
\* runs on, and its promise settles only when one of its queries fails.
DeafLoopFails ==
  /\ phase = "stopScheduler" /\ ~flags.schedulerHeard
  /\ dbFails < MaxDbFails /\ dbFails' = dbFails + 1
  /\ flags' = [flags EXCEPT !.schedulerHeard = TRUE]
  /\ UNCHANGED <<phase, job, buffer, written, flush, waitFor, unrecorded, refused>>

\* The scheduler, the queue loop, the receivers and the servers stop in turn;
\* then executor.destroy looks which workflows are pending.
destroyRuntime ==
  /\ phase \in {"stopScheduler", "stopQueue", "stopReceivers"}
  /\ phase = "stopScheduler" => flags.schedulerHeard
  /\ phase' = CASE phase = "stopScheduler" -> "stopQueue"
                [] phase = "stopQueue"     -> "stopReceivers"
                [] phase = "stopReceivers" -> "awaitPending"
  /\ IF phase = "stopReceivers"
     THEN /\ flags' = [flags EXCEPT !.open = FALSE]
          /\ waitFor' = {j \in Jobs : job[j] = "running"}
     ELSE UNCHANGED <<flags, waitFor>>
  /\ UNCHANGED <<job, buffer, written, flush, unrecorded, refused, dbFails>>

\* Every pending workflow has settled: the interval goes, and the buffers are
\* flushed once more unless the worker is at it.
LastFlush ==
  /\ phase = "awaitPending" /\ \A j \in waitFor : job[j] # "running"
  /\ phase' = "awaitFlush"
  /\ flags' = [flags EXCEPT !.interval = FALSE]
  /\ IF flags.isFlushingBuffers \/ ~flags.initialized
     THEN UNCHANGED <<buffer, flush>>
     ELSE Taking("results", buffer)
  /\ UNCHANGED <<job, written, waitFor, unrecorded, refused, dbFails>>

\* No flush is left: the system database closes, then the user database.
destroySystemDatabase ==
  /\ phase = "awaitFlush" /\ ~flags.isFlushingBuffers /\ flush.at = "idle" /\ phase' = "closeUser"
  /\ UNCHANGED <<job, buffer, written, flush, flags, waitFor, unrecorded, refused, dbFails>>

destroyExecutor ==
  /\ phase = "closeUser" /\ phase' = "exited"
  /\ UNCHANGED <<job, buffer, written, flush, flags, waitFor, unrecorded, refused, dbFails>>

Starting == loadClasses \/ initAndStart \/ StartFails
Flushing == FlushOk \/ FlushFails \/ FlushStageDone
Stopping == destroyRuntime \/ LastFlush \/ destroySystemDatabase \/ destroyExecutor
JobEnds  == \E j \in Jobs : FinishJob(j) \/ FailJob(j)

LifeNext ==
  \/ Starting \/ FlushTick \/ Flushing \/ onSigterm \/ DeafLoopFails \/ Stopping \/ JobEnds
  \/ \E j \in Jobs : AcceptJob(j) \/ StartJob(j) \/ OtherRecords(j)

LifeSpec == LifeInit /\ [][LifeNext]_lifeVars

-----------------------------------------------------------------------------
InFlight(stage) == IF flush.at = stage THEN flush.local ELSE {}

\* Until the process exits, whatever a finished workflow buffered is in the
\* buffer, in the statement being tried, or in its table, whatever statements
\* fail and whatever workflow ends meanwhile (flushWorkflowResultBuffer,
\* flushWorkflowStatusBuffer, flushWorkflowInputsBuffer).
NothingDropped ==
  \A j \in Jobs : LET kept(stage) == j \in buffer[stage] \cup InFlight(stage) \cup written[stage] IN
    /\ job[j] = "succeeded" => kept("status")
    /\ job[j] = "succeeded" /\ j \in Reads => kept("results")
    /\ job[j] \in {"succeeded", "failed"} /\ j \in SingleTxn => kept("inputs")

\* The foreign key of workflow_inputs never refuses a batch, although the two
\* buffers fill and flush independently, but for the inputs of a workflow
\* whose error could not be recorded (flushWorkflowInputsBuffer).
InputsFollowStatus == refused \subseteq unrecorded
=============================================================================
