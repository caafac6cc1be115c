---------------------------- MODULE DebugReplay ----------------------------
(***************************************************************************)
(* The debugger replays a workflow from what its execution recorded.  The  *)
(* execution hands out function IDs as it goes and may crash and be        *)
(* recovered; WorkflowContextDebug hands out its own and must meet the     *)
(* same ones, on a workflow that may still be running.                     *)
(***************************************************************************)
EXTENDS Naturals, Sequences

CONSTANTS BodyLength,        \* operations of the workflow
          OpKinds,           \* operations to consider
          MaxReplayCrashes   \* bound: crashes of the execution

Kinds == {"write", "read", "step", "send", "recv", "setEvent", "getEvent", "sleep", "sleep0",
          "childStatus", "retrieveStatus"}

ASSUME ReplayAssumption ==
  BodyLength \in Nat \ {0} /\ OpKinds \subseteq Kinds /\ MaxReplayCrashes \in Nat

VARIABLES body,       \* the operations of the workflow, and the one that throws
          exec,       \* the execution: next operation, next function ID, state
          txnOut,     \* dbos.transaction_outputs: function ID -> operation
          opOut,      \* operation_outputs: function ID -> operation
          children,   \* function IDs whose child workflow has a status and inputs
          unflushed,  \* resultBuffer, then workflowResultBuffer: function ID -> operation
          status,     \* of the workflow, as recorded
          early,      \* (history) operations whose rows waited when success was recorded
          dbg         \* the debugger

replayVars == <<body, exec, txnOut, opOut, children, unflushed, status, early, dbg>>

Ops == 1..BodyLength
NoOutput == 0
Timer == BodyLength + 1            \* the row of a sleep: when it ends
FuncIDs == 0..(2 * BodyLength)
NoneYet == [f \in FuncIDs |-> NoOutput]

\* An operation that throws ends the workflow.  In the last place: the workflow
\* itself throws after all of them.
ReplayInit ==
  /\ body \in [ops : [Ops -> OpKinds], throws : {0, BodyLength, BodyLength + 1}]
  /\ exec = [pc |-> 1, functionID |-> 0, state |-> "running", crashes |-> 0]
  /\ txnOut = NoneYet /\ opOut = NoneYet /\ unflushed = NoneYet
  /\ children = {} /\ status = "PENDING" /\ early = {}
  /\ dbg = [state |-> "off", pc |-> 1, functionID |-> 0, got |-> <<>>, complete |-> FALSE, lacking |-> {}]

\* Rows of r, and where it has none those of more.
Plus(r, more) == [f \in FuncIDs |-> IF r[f] # NoOutput THEN r[f] ELSE more[f]]
Only(f, k) == [NoneYet EXCEPT ![f] = k]

\* Function IDs that an operation takes when it executes ...
IDsTaken(kind) ==
  CASE kind \in {"recv", "getEvent"} -> 2    \* its own and that of its timeout
    [] kind = "sleep0" -> 0                  \* sleepms returns at once
    [] OTHER -> 1

\* Mutant: the ID of the timeout is forgotten.
OneIDReplayed(kind) == 1

\* ... and when it is replayed.
IDsReplayed(kind) == IF kind \in {"recv", "getEvent"} THEN 2 ELSE 1

-----------------------------------------------------------------------------
(* WorkflowContextImpl, as far as function IDs and records go *)

\* Operation k is executed, or its recorded output found.
RecordsOf(k, kind, f) ==
  CASE kind = "read" ->
         /\ unflushed' = IF txnOut[f] # NoOutput THEN unflushed ELSE Plus(unflushed, Only(f, k))
         /\ UNCHANGED <<txnOut, opOut>>
    [] kind = "write" ->
         /\ txnOut' = Plus(txnOut, Plus(unflushed, Only(f, k)))
         /\ unflushed' = NoneYet /\ UNCHANGED opOut
    [] kind \in {"step", "send", "setEvent"} ->
         /\ txnOut' = Plus(txnOut, unflushed) /\ unflushed' = NoneYet
         /\ opOut' = Plus(opOut, Only(f, k))
    [] kind = "recv" ->
         /\ txnOut' = Plus(txnOut, unflushed) /\ unflushed' = NoneYet
         /\ opOut' = Plus(opOut, [Only(f, k) EXCEPT ![f + 1] = Timer])
    [] kind = "getEvent" ->
         /\ opOut' = Plus(opOut, [Only(f, k) EXCEPT ![f + 1] = Timer])
         /\ UNCHANGED <<txnOut, unflushed>>
    [] kind = "sleep" -> opOut' = Plus(opOut, Only(f, Timer)) /\ UNCHANGED <<txnOut, unflushed>>
    [] kind = "sleep0" -> UNCHANGED <<txnOut, opOut, unflushed>>
    [] OTHER -> opOut' = Plus(opOut, Only(f, k)) /\ UNCHANGED <<txnOut, unflushed>>

\* Only these record an error; the buffer is flushed with it.
Throws(k) == body.throws = k /\ (k \in Ops => body.ops[k] \in {"write", "read", "step"})

Executing == exec.state = "running" /\ exec.pc <= BodyLength
AtChild == body.ops[exec.pc] = "childStatus" /\ exec.functionID \notin children

StartChild ==
  /\ Executing /\ AtChild
  /\ children' = children \cup {exec.functionID}
  /\ UNCHANGED <<body, exec, txnOut, opOut, unflushed, status, early, dbg>>

\* A recovered execution that finds the error of a transaction records it again
\* and then waits for itself.
ExecuteOp ==
  /\ Executing /\ ~AtChild
  /\ LET k == exec.pc  kind == body.ops[k]
         again == kind # "step" /\ txnOut[exec.functionID] # NoOutput
     IN  /\ IF Throws(k) /\ kind = "read" THEN RecordsOf(k, "write", exec.functionID)
                                          ELSE RecordsOf(k, kind, exec.functionID)
         /\ exec' = [exec EXCEPT !.pc = @ + 1, !.functionID = @ + IDsTaken(kind),
                                 !.state = IF ~Throws(k) THEN @ ELSE IF again THEN "waiting" ELSE "throwing"]
  /\ UNCHANGED <<body, children, status, early, dbg>>

\* The error is recorded at once, and what is still in resultBuffer is dropped.
ExecutionThrows ==
  /\ exec.state = "throwing" \/ (exec.state = "running" /\ exec.pc > BodyLength /\ Throws(BodyLength + 1))
  /\ exec' = [exec EXCEPT !.state = "ended"] /\ status' = "ERROR"
  /\ unflushed' = NoneYet
  /\ UNCHANGED <<body, txnOut, opOut, children, early, dbg>>

\* The status and the reads not yet written wait in two buffers.
ExecutionReturns ==
  /\ exec.state = "running" /\ exec.pc > BodyLength /\ ~Throws(BodyLength + 1)
  /\ exec' = [exec EXCEPT !.state = "ended"]
  /\ UNCHANGED <<body, txnOut, opOut, children, unflushed, status, early, dbg>>

\* flushWorkflowBuffers writes the reads to one database and then the status to
\* another.  Each may fail and be tried again at the next flush, and a workflow
\* may end between the two, so either may be written first.
flushWorkflowResultBuffer ==
  /\ exec.state = "ended"
  /\ txnOut' = Plus(txnOut, unflushed) /\ unflushed' = NoneYet
  /\ UNCHANGED <<body, exec, opOut, children, status, early, dbg>>

InBuffer == {unflushed[f] : f \in FuncIDs} \ {NoOutput}

flushWorkflowStatusBuffer ==
  /\ exec.state = "ended" /\ status = "PENDING"
  /\ status' = "SUCCESS" /\ early' = InBuffer
  /\ UNCHANGED <<body, exec, txnOut, opOut, children, unflushed, dbg>>

\* The process dies with its buffers, and a PENDING workflow is recovered.
getPendingWorkflows == status = "PENDING"

ExecutionCrashes ==
  /\ exec.crashes < MaxReplayCrashes
  /\ exec' = IF getPendingWorkflows
             THEN [pc |-> 1, functionID |-> 0, state |-> "running", crashes |-> exec.crashes + 1]
             ELSE [exec EXCEPT !.crashes = @ + 1]
  /\ unflushed' = NoneYet
  /\ UNCHANGED <<body, txnOut, opOut, children, status, early, dbg>>

-----------------------------------------------------------------------------
(* debugWorkflow and WorkflowContextDebug *)

\* dbos debug: the status and the inputs are there from the start.  (For the
\* properties: was success on record, and which of the early rows are missing.)
debugWorkflow ==
  /\ dbg.state = "off"
  /\ dbg' = [dbg EXCEPT !.state = "running", !.complete = (status = "SUCCESS"),
                        !.lacking = {k \in early : \A f \in FuncIDs : txnOut[f] # k}]
  /\ UNCHANGED <<body, exec, txnOut, opOut, children, unflushed, status, early>>

replaying == dbg.state = "running" /\ dbg.pc <= BodyLength
ReplayedKind == body.ops[dbg.pc]

\* The operation answers with the row found under its ID: there must be one.
\* The outcome is what was recorded, whether the body runs again (with a debug
\* proxy) or not.
Answer(row) ==
  dbg' = IF row = NoOutput THEN [dbg EXCEPT !.state = "debuggerError"]
         ELSE [dbg EXCEPT !.got = Append(@, row),
                          !.pc = @ + 1,
                          !.functionID = @ + IDsReplayed(ReplayedKind),
                          !.state = IF row \in Ops /\ Throws(row) THEN "threw" ELSE @]

ReplayTransaction ==
  /\ replaying /\ ReplayedKind \in {"write", "read"}
  /\ Answer(txnOut[dbg.functionID])
  /\ UNCHANGED <<body, exec, txnOut, opOut, children, unflushed, status, early>>

\* checkOperationOutput: the operation's own row, if it has one.
AnswerRecorded(kind) ==
  /\ replaying /\ ReplayedKind = kind
  /\ Answer(opOut[dbg.functionID])
  /\ UNCHANGED <<body, exec, txnOut, opOut, children, unflushed, status, early>>

ReplayStep == AnswerRecorded("step")
ReplaySend == AnswerRecorded("send")
ReplayRecv == AnswerRecorded("recv")
ReplaySetEvent == AnswerRecorded("setEvent")
ReplayGetEvent == AnswerRecorded("getEvent")
ReplayRetrievedStatus == AnswerRecorded("retrieveStatus")

\* sleepms looks at nothing.
ReplaySleep ==
  /\ replaying /\ ReplayedKind \in {"sleep", "sleep0"}
  /\ Answer(dbg.pc)
  /\ UNCHANGED <<body, exec, txnOut, opOut, children, unflushed, status, early>>

\* A child that ran is replayed under its own UUID; its handle is the ordinary
\* one, whose getStatus records what it finds no row for.
ReplayChildStatus ==
  /\ replaying /\ ReplayedKind = "childStatus"
  /\ LET f == dbg.functionID
     IN IF f \in children
        THEN opOut' = Plus(opOut, Only(f, dbg.pc)) /\ Answer(opOut'[f])
        ELSE UNCHANGED opOut /\ Answer(NoOutput)
  /\ UNCHANGED <<body, exec, txnOut, children, unflushed, status, early>>

\* At the end the replay waits for the recorded result, and returns that.
ReplayEnds ==
  /\ dbg.state = "running" /\ dbg.pc > BodyLength
  /\ Throws(BodyLength + 1) \/ status # "PENDING"
  /\ dbg' = [dbg EXCEPT !.state = IF Throws(BodyLength + 1) THEN "threw" ELSE "returned"]
  /\ UNCHANGED <<body, exec, txnOut, opOut, children, unflushed, status, early>>

ReplayNext ==
  \/ StartChild \/ ExecuteOp \/ ExecutionThrows \/ ExecutionReturns
  \/ flushWorkflowResultBuffer \/ flushWorkflowStatusBuffer \/ ExecutionCrashes
  \/ debugWorkflow \/ ReplayTransaction \/ ReplayStep \/ ReplaySend \/ ReplayRecv
  \/ ReplaySetEvent \/ ReplayGetEvent \/ ReplayRetrievedStatus
  \/ ReplaySleep \/ ReplayChildStatus \/ ReplayEnds

ReplaySpec == ReplayInit /\ [][ReplayNext]_replayVars

-----------------------------------------------------------------------------
\* However far the execution had come, and through crashes and recoveries, a
\* replayed operation answers with its own record and never with that of
\* another one.  The replay of a workflow whose success is recorded does not
\* throw, and misses no row but those that were still in the result buffer when
\* the success was written, and had not been written since or were lost in a
\* crash: only at such an operation it stops (WorkflowContextDebug).  Nothing is
\* claimed of workflows with a sleep of no length: it takes an ID only in the
\* replay, and what follows it then answers with the wrong record or none.
ReplayFaithful ==
  (\A k \in Ops : body.ops[k] # "sleep0") =>
     /\ \A k \in DOMAIN dbg.got : dbg.got[k] = k
     /\ dbg.complete => /\ dbg.state # "threw"
                        /\ dbg.state = "debuggerError" => dbg.pc \in dbg.lacking
=============================================================================
