-------------------------- MODULE DurableWorkflow --------------------------
(***************************************************************************)
(* Durable execution of one workflow UUID, from src/workflow.ts,           *)
(* src/dbos-executor.ts and src/system_database.ts.                        *)
(*                                                                         *)
(* A workflow is a deterministic function that calls operations; the n-th  *)
(* call gets function ID n (the code counts from 0, the model from 1).     *)
(* Any number of executions ("runs") of the same UUID may exist: client    *)
(* invocations with that idempotency key, and recoveries.  Each lives in   *)
(* an executor process, which may crash.  What survives is the database:   *)
(* workflow_status, workflow_inputs, operation_outputs (system database)   *)
(* and transaction_outputs (user database).                                *)
(*                                                                         *)
(* Results of read-only transactions are not written when they are         *)
(* produced.  They wait in the run's resultBuffer and reach the database   *)
(* with the next operation that flushes it, or, after the run has          *)
(* returned, with the executor's periodic flush.                           *)
(***************************************************************************)
EXTENDS Naturals, FiniteSets

CONSTANTS
    Executors,      \* executor processes
    Runs,           \* identities of executions of the workflow UUID
    NumOps,         \* how many operations the workflow function calls
    Kind,           \* Kind[n]: which operation the n-th call is
    Throwing,       \* the operations whose user code may throw
    Vals,           \* what user code can return
    Args,           \* what callers can pass as workflow arguments
    Err,            \* the outcome of an operation that threw
    NoRow,          \* "no row in the table", "no entry in the map"
    MaxAttempts,    \* maxRecoveryAttempts of the workflow's configuration
    MaxTries,       \* maxAttempts of the steps' configuration
    Exclusive,      \* TRUE: no two executions of the UUID at the same time
    CommitAborts,   \* TRUE: COMMIT itself may report serialization_failure
    MaxInvokes,     \* bound: client invocations
    MaxCrashes,     \* bound: crashes
    MaxFaults,      \* bound: serialization failures and failed flushes
    MaxAdmin        \* bound: cancel and resume commands

Ops == 1 .. NumOps

\* "rw", "ro": a transaction; "step": a step; "notify": send and setEvent, which
\* write their effect and their record in one system database transaction;
\* "getEvent" and "sleep" record themselves without flushing the result buffer.
Kinds == {"rw", "ro", "step", "notify", "getEvent", "sleep"}

Results == Vals \cup {Err}
Rows == Results \cup {NoRow}
NoRows == [f \in Ops |-> NoRow]

ASSUME ConstantsAssumption ==
    /\ NumOps \in Nat
    /\ Kind \in [Ops -> Kinds]
    /\ Throwing \subseteq Ops
    /\ Vals # {}
    /\ NoRow \notin Results \cup Args \cup Executors
    /\ Err \notin Vals
    /\ MaxAttempts \in Nat \ {0} /\ MaxTries \in Nat \ {0}
    /\ MaxInvokes \in Nat /\ MaxCrashes \in Nat
    /\ MaxFaults \in Nat /\ MaxAdmin \in Nat
    /\ Exclusive \in BOOLEAN /\ CommitAborts \in BOOLEAN

VARIABLES
    \* System and user database: survive every crash.
    wfStatus,   \* workflow_status.status, "NONE" when there is no row
    wfOut,      \* workflow_status.output: the results the workflow returned from
    attempts,   \* workflow_status.recovery_attempts
    wfInputs,   \* workflow_inputs.inputs
    rec,        \* rec[f]: the row of function ID f, in transaction_outputs for
                \*   a transaction and in operation_outputs for the others
    effects,    \* effects[f]: how many times f's database effect was committed
    \* Executions: lost with the executor that holds them.
    st,         \* st[r]: where the execution is
    at,         \* at[r]: its executor
    rcv,        \* rcv[r]: started by recovery (params.recovery)
    preset,     \* preset[r]: its UUID was given by the caller (presetUUID)
    arg,        \* arg[r]: the workflow arguments it runs with
    pc,         \* pc[r]: the function ID it is at
    obs,        \* obs[r][f]: the result of f that this execution has seen
    buf,        \* buf[r]: function IDs in its resultBuffer, with results obs[r]
    tries,      \* tries[r]: failed attempts of its current step
    \* Executor processes.
    alive,      \* alive[x]
    resBuf,     \* workflowResultBuffer's entry for this UUID
    resLocal,   \* localBuffer of flushWorkflowResultBuffer
    statusBuf,  \* workflowStatusBuffer's entry for this UUID
    statusLocal,\* localBuffer of flushWorkflowStatusBuffer
    flushing,   \* where the executor's periodic flush is
    \* How much of each bound is used.
    crashes, faults, admins

dbVars   == <<wfStatus, wfOut, attempts, wfInputs, rec, effects>>
runVars  == <<st, at, rcv, preset, arg, pc, obs, buf, tries>>
execVars == <<alive, resBuf, resLocal, statusBuf, statusLocal, flushing>>
bounds   == <<crashes, faults, admins>>
vars     == <<dbVars, runVars, execVars, bounds>>

Statuses == {"NONE", "PENDING", "SUCCESS", "ERROR", "RETRIES_EXCEEDED", "CANCELLED"}

RunStates ==
    {"unused", "resume", "listed", "init", "deadLetter", "inputs",  \* before the function
     "op",         \* about to start operation pc, or finished if pc > NumOps
     "txn",        \* in a transaction, its record not found
     "txnErr",     \* the transaction rolled back, its error not yet recorded
     "check",      \* buffer flushed, about to look up the operation's record
     "body",       \* record not found, executing the operation
     "record",     \* executed, about to insert the operation's record
     "raise",      \* the operation's error left the workflow function
     "conflict",   \* caught DBOSWorkflowConflictUUIDError, polls for the result
     "done", "crashed"}

Ended == {"unused", "done", "crashed"}

TypeOK ==
    /\ wfStatus \in Statuses
    /\ wfOut \in [Ops -> Rows]
    /\ attempts \in Nat
    /\ wfInputs \in Args \cup {NoRow}
    /\ rec \in [Ops -> Rows]
    /\ effects \in [Ops -> Nat]
    /\ st \in [Runs -> RunStates]
    /\ at \in [Runs -> Executors \cup {NoRow}]
    /\ rcv \in [Runs -> BOOLEAN]
    /\ preset \in [Runs -> BOOLEAN]
    /\ arg \in [Runs -> Args \cup {NoRow}]
    /\ pc \in [Runs -> 1 .. NumOps + 1]
    /\ obs \in [Runs -> [Ops -> Rows]]
    /\ buf \in [Runs -> SUBSET Ops]
    /\ tries \in [Runs -> Nat]
    /\ alive \in [Executors -> BOOLEAN]
    /\ resBuf \in [Executors -> [Ops -> Rows]]
    /\ resLocal \in [Executors -> [Ops -> Rows]]
    /\ statusBuf \in [Executors -> [Ops -> Rows] \cup {NoRow}]
    /\ statusLocal \in [Executors -> [Ops -> Rows] \cup {NoRow}]
    /\ flushing \in [Executors -> {"idle", "results", "status"}]
    /\ crashes \in Nat /\ faults \in Nat /\ admins \in Nat

Init ==
    /\ wfStatus = "NONE" /\ wfOut = NoRows /\ attempts = 0 /\ wfInputs = NoRow
    /\ rec = NoRows /\ effects = [f \in Ops |-> 0]
    /\ st = [r \in Runs |-> "unused"]
    /\ at = [r \in Runs |-> NoRow]
    /\ rcv = [r \in Runs |-> FALSE] /\ preset = [r \in Runs |-> FALSE]
    /\ arg = [r \in Runs |-> NoRow]
    /\ pc = [r \in Runs |-> 1]
    /\ obs = [r \in Runs |-> NoRows]
    /\ buf = [r \in Runs |-> {}]
    /\ tries = [r \in Runs |-> 0]
    /\ alive = [x \in Executors |-> TRUE]
    /\ resBuf = [x \in Executors |-> NoRows] /\ resLocal = [x \in Executors |-> NoRows]
    /\ statusBuf = [x \in Executors |-> NoRow] /\ statusLocal = [x \in Executors |-> NoRow]
    /\ flushing = [x \in Executors |-> "idle"]
    /\ crashes = 0 /\ faults = 0 /\ admins = 0

-----------------------------------------------------------------------------
(* Starting an execution: internalWorkflow, recoverPendingWorkflows,        *)
(* initWorkflowStatus.                                                      *)

Quiet == \A r \in Runs : st[r] \in Ended

\* No outcome is waiting in memory to be written.
Settled == \A x \in Executors : statusBuf[x] = NoRow /\ statusLocal[x] = NoRow

GoTo(r, s) == st' = [st EXCEPT ![r] = s]

\* A client invokes the workflow.  A UUID the client did not choose is fresh, so
\* only the first execution of all can be without presetUUID.
Invoke(r, x, given, a) ==
    /\ st[r] = "unused" /\ alive[x]
    /\ Exclusive => Quiet
    /\ given \/ \A q \in Runs : st[q] = "unused"
    /\ Cardinality({q \in Runs : st[q] # "unused" /\ ~rcv[q]}) < MaxInvokes
    /\ GoTo(r, "init")
    /\ at' = [at EXCEPT ![r] = x]
    /\ preset' = [preset EXCEPT ![r] = given]
    /\ arg' = [arg EXCEPT ![r] = a]
    /\ UNCHANGED <<dbVars, rcv, pc, obs, buf, tries, execVars, bounds>>

\* getPendingWorkflows returns the UUID to a recovery, at start-up or on request.
Recover(r, x) ==
    /\ st[r] = "unused" /\ alive[x]
    /\ wfStatus = "PENDING"
    /\ Exclusive => Quiet /\ Settled
    /\ GoTo(r, "listed")
    /\ at' = [at EXCEPT ![r] = x]
    /\ rcv' = [rcv EXCEPT ![r] = TRUE]
    /\ preset' = [preset EXCEPT ![r] = TRUE]
    /\ UNCHANGED <<dbVars, arg, pc, obs, buf, tries, execVars, bounds>>

\* executeWorkflowUUID reads the recorded inputs and fails if there are none.
ReadInputs(r) ==
    /\ st[r] = "listed"
    /\ arg' = [arg EXCEPT ![r] = wfInputs]
    /\ GoTo(r, IF wfInputs = NoRow THEN "done" ELSE "init")
    /\ UNCHANGED <<dbVars, at, rcv, preset, pc, obs, buf, tries, execVars, bounds>>

\* The recovery attempt is one too many for the configured maximum.
ExhaustedLate(n) == n > MaxAttempts
Exhausted(n) == n >= MaxAttempts

\* First statement of initWorkflowStatus: insert the row, or count the attempt.
InitStatus(r) ==
    /\ st[r] = "init"
    /\ wfStatus' = IF wfStatus = "NONE" THEN "PENDING" ELSE wfStatus
    /\ attempts' = IF wfStatus # "NONE" /\ rcv[r] THEN attempts + 1 ELSE attempts
    /\ GoTo(r, IF Exhausted(attempts') /\ rcv[r] THEN "deadLetter" ELSE "inputs")
    /\ UNCHANGED <<wfOut, wfInputs, rec, effects, at, rcv, preset, arg, pc, obs, buf,
                   tries, execVars, bounds>>

DeadLetterLeavesPending(r) ==
    /\ st[r] = "deadLetter"
    /\ GoTo(r, "done")
    /\ UNCHANGED <<dbVars, at, rcv, preset, arg, pc, obs, buf, tries, execVars, bounds>>

\* Too many attempts: the workflow leaves PENDING for good and the recovery fails.
DeadLetter(r) ==
    /\ st[r] = "deadLetter"
    /\ wfStatus' = IF wfStatus = "PENDING" THEN "RETRIES_EXCEEDED" ELSE wfStatus
    /\ GoTo(r, "done")
    /\ UNCHANGED <<wfOut, attempts, wfInputs, rec, effects, at, rcv, preset, arg, pc, obs,
                   buf, tries, execVars, bounds>>

OverwrittenInputs(r) == arg[r]
RecordedInputs(r) == IF wfInputs = NoRow THEN arg[r] ELSE wfInputs

\* Last statement of initWorkflowStatus: whoever comes first records its
\* arguments, everyone runs with the recorded ones.
InitInputs(r) ==
    /\ st[r] = "inputs"
    /\ wfInputs' = RecordedInputs(r)
    /\ arg' = [arg EXCEPT ![r] = wfInputs']
    /\ GoTo(r, "op")
    /\ UNCHANGED <<wfStatus, wfOut, attempts, rec, effects, at, rcv, preset, pc, obs, buf,
                   tries, execVars, bounds>>

-----------------------------------------------------------------------------
(* Operations of a workflow: what all of them are made of.                  *)

AtOp(r) == pc[r] \in Ops
Doing(r, kinds) == AtOp(r) /\ Kind[pc[r]] \in kinds

\* An INSERT of all these function IDs meets no primary key conflict.
KeysIgnored(S) == TRUE
KeysFree(S) == \A g \in S : rec[g] = NoRow

\* The rows after inserting what run r has seen for the function IDs in S.
Inserted(S, seen) == [g \in Ops |-> IF g \in S THEN seen[g] ELSE rec[g]]

\* What r has seen once operation pc[r] has the result v.
Seeing(r, v) == [obs EXCEPT ![r][pc[r]] = v]

\* Mutant of Advance: a step takes a function ID for its attempts, another for its result.
AdvanceTwice(r) ==
    /\ pc' = [pc EXCEPT ![r] = @ + IF Kind[pc[r]] = "step" THEN 2 ELSE 1]
    /\ GoTo(r, "op")

\* The operation returns to the workflow function, which goes on to the next.
Advance(r) == pc' = [pc EXCEPT ![r] = @ + 1] /\ GoTo(r, "op")

\* What a run leaves alone while it executes operations.
RunFrame == UNCHANGED <<wfStatus, wfOut, attempts, wfInputs, at, rcv, preset, arg, execVars>>

(* Transactions.                                                            *)

\* checkExecution.  Without presetUUID nothing is looked up.
Found(r) == preset[r] /\ rec[pc[r]] # NoRow

\* What a write transaction inserts: the buffered results and its own.
OwnKeyOnly(r) == {pc[r]}
TxnKeys(r) == buf[r] \cup {pc[r]}

\* BEGIN and the lookup.  A recorded error is thrown inside the transaction, like
\* one of the user's code.
TxnBegin(r) ==
    /\ st[r] = "op" /\ Doing(r, {"rw", "ro"})
    /\ \/ /\ ~Found(r)
          /\ GoTo(r, "txn")
          /\ UNCHANGED <<obs, pc>>
       \/ /\ Found(r) /\ rec[pc[r]] # Err
          /\ obs' = Seeing(r, rec[pc[r]])
          /\ Advance(r)
       \/ /\ Found(r) /\ rec[pc[r]] = Err
          /\ obs' = Seeing(r, Err)
          /\ GoTo(r, "txnErr")
          /\ UNCHANGED pc
    /\ UNCHANGED <<rec, effects, buf, tries, bounds>> /\ RunFrame

\* A read-only transaction: its result only goes to the buffer.
TxnReadOnly(r, v) ==
    /\ st[r] = "txn" /\ Doing(r, {"ro"})
    /\ obs' = Seeing(r, v)
    /\ buf' = [buf EXCEPT ![r] = @ \cup {pc[r]}]
    /\ Advance(r)
    /\ UNCHANGED <<rec, effects, tries, bounds>> /\ RunFrame

\* A write transaction commits the buffered results, its own and its effect.
TxnCommit(r, v) ==
    /\ st[r] = "txn" /\ Doing(r, {"rw"})
    /\ KeysFree(TxnKeys(r))
    /\ obs' = Seeing(r, v)
    /\ rec' = Inserted(TxnKeys(r), obs'[r])
    /\ effects' = [effects EXCEPT ![pc[r]] = @ + 1]
    /\ buf' = [buf EXCEPT ![r] = {}]
    /\ Advance(r)
    /\ UNCHANGED <<tries, bounds>> /\ RunFrame

\* The body throws, or one of the inserts meets a primary key conflict.
TxnThrow(r) ==
    /\ st[r] = "txn"
    /\ \/ pc[r] \in Throwing
       \/ Doing(r, {"rw"}) /\ ~KeysFree(TxnKeys(r))
    /\ obs' = Seeing(r, Err)
    /\ GoTo(r, "txnErr")
    /\ UNCHANGED <<rec, effects, pc, buf, tries, bounds>> /\ RunFrame

\* Serialization failure in one of the statements: roll back and try again.
TxnRetry(r) ==
    /\ st[r] = "txn" /\ faults < MaxFaults
    /\ GoTo(r, "op")
    /\ faults' = faults + 1
    /\ UNCHANGED <<rec, effects, pc, obs, buf, tries, crashes, admins>> /\ RunFrame

\* Serialization failure at COMMIT.  By then resultBuffer.clear() has run, so the
\* retry has nothing left to flush.
TxnCommitRetry(r) ==
    /\ CommitAborts
    /\ st[r] = "txn" /\ Doing(r, {"rw"}) /\ faults < MaxFaults
    /\ KeysFree(TxnKeys(r))
    /\ GoTo(r, "op")
    /\ buf' = [buf EXCEPT ![r] = {}]
    /\ faults' = faults + 1
    /\ UNCHANGED <<rec, effects, pc, obs, tries, crashes, admins>> /\ RunFrame

\* A second transaction records the error, after the buffered results.
TxnRecordError(r) ==
    /\ st[r] = "txnErr"
    /\ \/ /\ KeysFree(TxnKeys(r))
          /\ rec' = Inserted(TxnKeys(r), obs[r])
          /\ buf' = [buf EXCEPT ![r] = {}]
          /\ GoTo(r, "raise")
       \/ /\ ~KeysFree(TxnKeys(r))
          /\ GoTo(r, "conflict")
          /\ UNCHANGED <<rec, buf>>
    /\ UNCHANGED <<effects, pc, obs, tries, bounds>> /\ RunFrame

(* Steps, messages, events, sleeps.                                         *)

\* Steps, send and setEvent first write the buffered results.
FlushResultBuffer(r) ==
    /\ st[r] = "op" /\ Doing(r, {"step", "notify"})
    /\ \/ /\ KeysFree(buf[r])
          /\ rec' = Inserted(buf[r], obs[r])
          /\ buf' = [buf EXCEPT ![r] = {}]
          /\ GoTo(r, "check")
       \/ /\ ~KeysFree(buf[r])
          /\ GoTo(r, "conflict")
          /\ UNCHANGED <<rec, buf>>
    /\ UNCHANGED <<effects, pc, obs, tries, bounds>> /\ RunFrame

\* checkOperationOutput.
NeverFoundRow(r) == NoRow
CheckedRow(r) == rec[pc[r]]

\* Look the operation up: return or throw what was recorded, or go and execute.
CheckOperation(r) ==
    /\ \/ st[r] = "check"
       \/ st[r] = "op" /\ Doing(r, {"getEvent", "sleep"})
    /\ LET row == CheckedRow(r)
       IN  \/ /\ row = NoRow
              /\ GoTo(r, "body")
              /\ tries' = [tries EXCEPT ![r] = 0]
              /\ UNCHANGED <<obs, pc>>
           \/ /\ row \in Vals
              /\ obs' = Seeing(r, row)
              /\ Advance(r)
              /\ UNCHANGED tries
           \/ /\ row = Err
              /\ obs' = Seeing(r, row)
              /\ GoTo(r, "raise")
              /\ UNCHANGED <<pc, tries>>
    /\ UNCHANGED <<rec, effects, buf, bounds>> /\ RunFrame

\* A step's function, or getEvent's wait, returns v.
BodyReturns(r, v) ==
    /\ st[r] = "body" /\ Doing(r, {"step", "getEvent"})
    /\ obs' = Seeing(r, v)
    /\ GoTo(r, "record")
    /\ UNCHANGED <<rec, effects, pc, buf, tries, bounds>> /\ RunFrame

\* A step's function throws: it is called again until maxAttempts is reached.
StepThrows(r) ==
    /\ st[r] = "body" /\ Doing(r, {"step"}) /\ pc[r] \in Throwing
    /\ tries' = [tries EXCEPT ![r] = @ + 1]
    /\ \/ /\ tries'[r] < MaxTries
          /\ UNCHANGED <<st, obs>>
       \/ /\ tries'[r] >= MaxTries
          /\ obs' = Seeing(r, Err)
          /\ GoTo(r, "record")
    /\ UNCHANGED <<rec, effects, pc, buf, bounds>> /\ RunFrame

\* recordOperationOutput and recordOperationError.
RecordOperation(r) ==
    /\ st[r] = "record"
    /\ \/ /\ KeysFree({pc[r]})
          /\ rec' = Inserted({pc[r]}, obs[r])
          /\ \/ obs[r][pc[r]] # Err /\ Advance(r)
             \/ obs[r][pc[r]] = Err /\ GoTo(r, "raise") /\ UNCHANGED pc
       \/ /\ ~KeysFree({pc[r]})
          /\ GoTo(r, "conflict")
          /\ UNCHANGED <<rec, pc>>
    /\ UNCHANGED <<effects, obs, buf, tries, bounds>> /\ RunFrame

\* send and setEvent: the effect and the record commit together; a conflict on
\* the record rolls the effect back.
NotifyCommit(r, v) ==
    /\ st[r] = "body" /\ Doing(r, {"notify"})
    /\ \/ /\ KeysFree({pc[r]})
          /\ obs' = Seeing(r, v)
          /\ rec' = Inserted({pc[r]}, obs'[r])
          /\ effects' = [effects EXCEPT ![pc[r]] = @ + 1]
          /\ Advance(r)
       \/ /\ ~KeysFree({pc[r]})
          /\ GoTo(r, "conflict")
          /\ UNCHANGED <<rec, effects, obs, pc>>
    /\ UNCHANGED <<buf, tries, bounds>> /\ RunFrame

\* send to a workflow that does not exist: the error is thrown, not recorded.
NotifyThrows(r) ==
    /\ st[r] = "body" /\ Doing(r, {"notify"}) /\ pc[r] \in Throwing
    /\ obs' = Seeing(r, Err)
    /\ GoTo(r, "raise")
    /\ UNCHANGED <<rec, effects, pc, buf, tries, bounds>> /\ RunFrame

\* sleepms records the wake-up time unless there is one; nothing is returned.
Sleep(r, v) ==
    /\ st[r] = "body" /\ Doing(r, {"sleep"})
    /\ rec' = IF KeysFree({pc[r]}) THEN [rec EXCEPT ![pc[r]] = v] ELSE rec
    /\ obs' = Seeing(r, rec'[pc[r]])
    /\ Advance(r)
    /\ UNCHANGED <<effects, buf, tries, bounds>> /\ RunFrame

-----------------------------------------------------------------------------
(* The end of an execution: runWorkflow after the workflow function.        *)

Outcome(r) == obs[r]

\* A non-empty resultBuffer replaces the executor's entry for the UUID.
BufferResults(r) ==
    resBuf' = IF buf[r] = {} THEN resBuf
              ELSE [resBuf EXCEPT ![at[r]] =
                       [g \in Ops |-> IF g \in buf[r] THEN obs[r][g] ELSE NoRow]]

EndFrame == UNCHANGED <<attempts, wfInputs, rec, effects, at, rcv, preset, arg, pc, obs, buf,
                        tries, alive, resLocal, statusLocal, flushing, bounds>>

\* The function returned: output and buffered results wait for the next flush.
Finish(r) ==
    /\ st[r] = "op" /\ ~AtOp(r)
    /\ statusBuf' = [statusBuf EXCEPT ![at[r]] = Outcome(r)]
    /\ BufferResults(r)
    /\ GoTo(r, "done")
    /\ UNCHANGED <<wfStatus, wfOut>> /\ EndFrame

\* The function threw: recordWorkflowError.
RecordWorkflowError(r) ==
    /\ st[r] = "raise"
    /\ wfStatus' = "ERROR"
    /\ GoTo(r, "done")
    /\ UNCHANGED <<wfOut, statusBuf, resBuf>> /\ EndFrame

AwaitSuccessOnly(r) ==
    /\ st[r] = "conflict"
    /\ wfStatus = "SUCCESS" /\ BufferResults(r)
    /\ GoTo(r, "done")
    /\ UNCHANGED <<wfStatus, wfOut, statusBuf>> /\ EndFrame

\* After a conflict: getWorkflowResult returns once there is an outcome.
ConflictResult(r) ==
    /\ st[r] = "conflict"
    /\ \/ wfStatus = "SUCCESS" /\ BufferResults(r)
       \/ wfStatus = "ERROR" /\ UNCHANGED resBuf
    /\ GoTo(r, "done")
    /\ UNCHANGED <<wfStatus, wfOut, statusBuf>> /\ EndFrame

-----------------------------------------------------------------------------
(* The executor: periodic flush, crash, restart.                            *)

FlushFrame == UNCHANGED <<attempts, wfInputs, effects, runVars, alive>>

Keys(rows) == {g \in Ops : rows[g] # NoRow}

\* flushWorkflowResultBuffer empties the map into a local copy.
FlushTake(x) ==
    /\ alive[x] /\ flushing[x] = "idle"
    /\ resBuf[x] # NoRows \/ statusBuf[x] # NoRow
    /\ resLocal' = [resLocal EXCEPT ![x] = resBuf[x]]
    /\ resBuf' = [resBuf EXCEPT ![x] = NoRows]
    /\ flushing' = [flushing EXCEPT ![x] = "results"]
    /\ UNCHANGED <<wfStatus, wfOut, rec, statusBuf, statusLocal, bounds>> /\ FlushFrame

\* The rows of the local copy go back to the map unless the UUID is there again.
GiveBack(map, x, local, none) ==
    IF map[x] = none THEN [map EXCEPT ![x] = local] ELSE map

\* The INSERT succeeds or is given back; then flushWorkflowStatusBuffer takes over.
FlushResults(x) ==
    /\ flushing[x] = "results"
    /\ \/ /\ KeysFree(Keys(resLocal[x]))
          /\ rec' = Inserted(Keys(resLocal[x]), resLocal[x])
          /\ UNCHANGED <<resBuf, bounds>>
       \/ /\ ~KeysFree(Keys(resLocal[x]))
          /\ resBuf' = GiveBack(resBuf, x, resLocal[x], NoRows)
          /\ UNCHANGED <<rec, bounds>>
       \/ /\ faults < MaxFaults /\ resLocal[x] # NoRows
          /\ resBuf' = GiveBack(resBuf, x, resLocal[x], NoRows)
          /\ faults' = faults + 1
          /\ UNCHANGED <<rec, crashes, admins>>
    /\ resLocal' = [resLocal EXCEPT ![x] = NoRows]
    /\ statusLocal' = [statusLocal EXCEPT ![x] = statusBuf[x]]
    /\ statusBuf' = [statusBuf EXCEPT ![x] = NoRow]
    /\ flushing' = [flushing EXCEPT ![x] = "status"]
    /\ UNCHANGED <<wfStatus, wfOut>> /\ FlushFrame

\* The upsert overwrites whatever status the row has, or is given back.
FlushStatus(x) ==
    /\ flushing[x] = "status"
    /\ \/ /\ statusLocal[x] # NoRow
          /\ wfStatus' = "SUCCESS"
          /\ wfOut' = statusLocal[x]
          /\ UNCHANGED <<statusBuf, bounds>>
       \/ /\ statusLocal[x] = NoRow
          /\ UNCHANGED <<wfStatus, wfOut, statusBuf, bounds>>
       \/ /\ faults < MaxFaults /\ statusLocal[x] # NoRow
          /\ statusBuf' = GiveBack(statusBuf, x, statusLocal[x], NoRow)
          /\ faults' = faults + 1
          /\ UNCHANGED <<wfStatus, wfOut, crashes, admins>>
    /\ statusLocal' = [statusLocal EXCEPT ![x] = NoRow]
    /\ flushing' = [flushing EXCEPT ![x] = "idle"]
    /\ UNCHANGED <<rec, resBuf, resLocal>> /\ FlushFrame

\* A crash loses the executor's executions and buffers.
Crash(x) ==
    /\ alive[x] /\ crashes < MaxCrashes
    /\ alive' = [alive EXCEPT ![x] = FALSE]
    /\ st' = [r \in Runs |-> IF at[r] = x /\ st[r] \notin Ended THEN "crashed" ELSE st[r]]
    /\ resBuf' = [resBuf EXCEPT ![x] = NoRows]
    /\ resLocal' = [resLocal EXCEPT ![x] = NoRows]
    /\ statusBuf' = [statusBuf EXCEPT ![x] = NoRow]
    /\ statusLocal' = [statusLocal EXCEPT ![x] = NoRow]
    /\ flushing' = [flushing EXCEPT ![x] = "idle"]
    /\ crashes' = crashes + 1
    /\ UNCHANGED <<dbVars, at, rcv, preset, arg, pc, obs, buf, tries, faults, admins>>

Restart(x) ==
    /\ ~alive[x]
    /\ alive' = [alive EXCEPT ![x] = TRUE]
    /\ UNCHANGED <<dbVars, runVars, resBuf, resLocal, statusBuf, statusLocal, flushing, bounds>>

-----------------------------------------------------------------------------
(* Workflow management: the cancel and resume commands.                     *)

Cancel ==
    /\ wfStatus # "NONE" /\ admins < MaxAdmin
    /\ wfStatus' = "CANCELLED"
    /\ admins' = admins + 1
    /\ UNCHANGED <<wfOut, attempts, wfInputs, rec, effects, runVars, execVars, crashes, faults>>

\* setWorkflowStatus(PENDING, true): first the status, ...
Resume(r, x) ==
    /\ wfStatus # "NONE" /\ admins < MaxAdmin
    /\ st[r] = "unused" /\ alive[x]
    /\ Exclusive => Quiet /\ Settled
    /\ wfStatus' = "PENDING"
    /\ GoTo(r, "resume")
    /\ at' = [at EXCEPT ![r] = x]
    /\ rcv' = [rcv EXCEPT ![r] = TRUE]
    /\ preset' = [preset EXCEPT ![r] = TRUE]
    /\ admins' = admins + 1
    /\ UNCHANGED <<wfOut, attempts, wfInputs, rec, effects, arg, pc, obs, buf, tries,
                   execVars, crashes, faults>>

\* ... then the attempts, then executeWorkflowUUID.
ResetAttempts(r) ==
    /\ st[r] = "resume"
    /\ attempts' = 0
    /\ GoTo(r, "listed")
    /\ UNCHANGED <<wfStatus, wfOut, wfInputs, rec, effects, at, rcv, preset, arg, pc, obs,
                   buf, tries, execVars, bounds>>

-----------------------------------------------------------------------------
StartStep(r) ==
    \/ ReadInputs(r) \/ InitStatus(r) \/ DeadLetter(r) \/ InitInputs(r) \/ ResetAttempts(r)

TxnStep(r) ==
    \/ TxnBegin(r) \/ TxnThrow(r) \/ TxnRetry(r) \/ TxnCommitRetry(r) \/ TxnRecordError(r)
    \/ \E v \in Vals : TxnReadOnly(r, v) \/ TxnCommit(r, v)

OpStep(r) ==
    \/ FlushResultBuffer(r) \/ CheckOperation(r) \/ StepThrows(r) \/ RecordOperation(r)
    \/ NotifyThrows(r)
    \/ \E v \in Vals : BodyReturns(r, v) \/ NotifyCommit(r, v) \/ Sleep(r, v)

EndStep(r) == Finish(r) \/ RecordWorkflowError(r) \/ ConflictResult(r)

RunStep(r) == StartStep(r) \/ TxnStep(r) \/ OpStep(r) \/ EndStep(r)

FlushStep(x) == FlushTake(x) \/ FlushResults(x) \/ FlushStatus(x)

Next ==
    \/ \E r \in Runs, x \in Executors :
          \/ \E given \in BOOLEAN, a \in Args : Invoke(r, x, given, a)
          \/ Recover(r, x)
          \/ Resume(r, x)
    \/ \E r \in Runs : RunStep(r)
    \/ \E x \in Executors : FlushStep(x) \/ Crash(x) \/ Restart(x)
    \/ Cancel

Spec == Init /\ [][Next]_vars

\* The event loop of a live executor keeps serving its executions and its flush
\* timer; a crashed executor is restarted; and once no execution is left and no
\* outcome waits in memory, somebody runs the recovery.
Fairness ==
    /\ \A r \in Runs : WF_vars(RunStep(r))
    /\ \A x \in Executors : WF_vars(FlushStep(x)) /\ WF_vars(Restart(x))
    /\ WF_vars(\E r \in Runs, x \in Executors : Quiet /\ Settled /\ Recover(r, x))

FairSpec == Spec /\ Fairness

-----------------------------------------------------------------------------
(* Properties.                                                              *)

Durable(f) == Kind[f] # "ro"
Effectful(f) == Kind[f] \in {"rw", "notify"}

\* The operations whose record comes with, or after, the results buffered so far;
\* getEvent and sleepms record themselves alone.
Flushes(f) == Kind[f] \notin {"getEvent", "sleep"}

\* A write transaction, send or setEvent takes effect exactly once: as often as
\* its result is recorded, and never for one recorded as failed.
ExactlyOnce ==
    \A f \in Ops : Effectful(f) => effects[f] = IF rec[f] \in Vals THEN 1 ELSE 0

\* Every execution that is past an operation, except a read-only transaction,
\* has seen the recorded result, however many executions there are.
ObservedRecorded ==
    \A r \in Runs : \A f \in Ops : f < pc[r] /\ Durable(f) => obs[r][f] = rec[f]

FromRecords(out) == \A f \in Ops : Durable(f) => out[f] = rec[f] /\ out[f] \in Vals

\* An outcome, buffered or written, was returned from recorded results.
OutcomeRecorded ==
    /\ wfStatus = "SUCCESS" => FromRecords(wfOut)
    /\ \A x \in Executors :
          /\ statusBuf[x] # NoRow => FromRecords(statusBuf[x])
          /\ statusLocal[x] # NoRow => FromRecords(statusLocal[x])

\* All executions run with the same, recorded arguments.
SharedInputs ==
    \A r \in Runs : st[r] \notin {"unused", "resume", "listed", "init", "deadLetter", "inputs"}
                       => arg[r] = wfInputs \/ st[r] \in Ended

\* Recovery gives up before the workflow was executed maxRecoveryAttempts times
\* after the first.
RecoveriesBounded ==
    admins = 0 => Cardinality({r \in Runs : rcv[r] /\ pc[r] > 1}) < MaxAttempts

\* What is recorded before f whenever f is: everything, or for a getEvent or a
\* sleep everything but the reads, which still wait in the result buffer.
Precedes(g, f) == g < f /\ (Flushes(f) \/ Durable(g))

\* Where the workflow resumes: an operation is recorded only with what precedes it.
NoGaps == \A f, g \in Ops : Precedes(g, f) /\ rec[f] # NoRow => rec[g] # NoRow

\* A result is recorded only if some execution produced it after seeing exactly
\* the results recorded for what precedes it.
CausalRecord ==
    [][\A f \in Ops : rec[f] = NoRow /\ rec'[f] # NoRow =>
          \E r \in Runs : \A g \in Ops : g = f \/ Precedes(g, f) => obs'[r][g] = rec'[g]]_vars

\* The detailed specification implements the journal.
Journal == INSTANCE WorkflowJournal WITH
    journal <- rec,
    success <- (wfStatus = "SUCCESS"),
    ReadOnly <- {f \in Ops : ~Durable(f)},
    Writing <- {f \in Ops : Effectful(f)},
    Alone <- {f \in Ops : ~Flushes(f)}

JournalSpec == Journal!Spec

\* Once a step is complete, that is recorded, no execution runs it again.
CompleteStepNotRerun ==
    [][\A r \in Runs : st[r] = "body" /\ Doing(r, {"step"}) /\ st'[r] = "record"
          => rec[pc[r]] = NoRow]_vars

\* Invoking a workflow again with the same UUID does not change its output.
OutputStable ==
    [][wfStatus = "SUCCESS" /\ wfStatus' = "SUCCESS" => wfOut' = wfOut]_vars

\* An execution that met a conflict gets the result of the one it conflicted with.
WaitersReturn == \A r \in Runs : st[r] = "conflict" ~> st[r] # "conflict"

\* A workflow whose inputs are recorded runs to completion, through crashes.
RunsToCompletion ==
    wfInputs # NoRow ~> wfStatus \in {"SUCCESS", "ERROR", "RETRIES_EXCEEDED"}

=============================================================================
