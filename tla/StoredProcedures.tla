-------------------------- MODULE StoredProcedures --------------------------
(***************************************************************************)
(* A workflow that calls stored procedures one after the other, crashes    *)
(* and is recovered.  A local procedure runs in the process, in a          *)
(* transaction of procedurePool; a remote one is a CALL of the SQL that    *)
(* the compiler generated.  Both keep the workflow's read-only results in  *)
(* a buffer that the next write flushes.                                   *)
(***************************************************************************)
EXTENDS PostgresErrors, FiniteSets

CONSTANTS Calls,         \* number of procedure calls of the workflow
          ProcClients,   \* clients of the application database to consider
          MaxCrashes,    \* bound: crashes
          MaxAborts      \* bound: serialization failures

ASSUME ProcedureAssumption ==
  Calls \in Nat \ {0} /\ ProcClients \subseteq UserDatabaseName /\ MaxCrashes \in Nat /\ MaxAborts \in Nat

VARIABLES prog,       \* the calls: where they run, what they do
          userDb,     \* the client of the application database
          wf,         \* the execution: state, next call, preset UUID, where it is
          rows,       \* dbos.transaction_outputs: function ID -> recorded outcome
          results,    \* resultBuffer: function IDs
          effects,    \* function ID -> how often its body's writes committed
          faults      \* crashes and aborts so far

procVars == <<prog, userDb, wf, rows, results, effects, faults>>

Ids == 1..Calls
Outcomes == {"value", "void", "error"}
NoRow == "none"

ProcInit ==
  /\ prog \in [Ids -> [local : BOOLEAN, readOnly : BOOLEAN, does : Outcomes]]
  /\ userDb \in ProcClients
  /\ wf \in [state : {"running"}, next : {1}, presetUUID : BOOLEAN, at : {"call"}]
  /\ rows = [f \in 1..(Calls + 1) |-> NoRow]
  /\ results = {} /\ effects = [f \in Ids |-> 0]
  /\ faults = [crashes |-> 0, aborts |-> 0]

funcId == wf.next
Proc   == prog[funcId]
Here(where, at) == wf.state = "running" /\ funcId <= Calls /\ wf.at = at /\ Proc.local = where

\* The call returns to the workflow, which goes on or fails.
Returns(outcome) ==
  wf' = IF outcome = "error" THEN [wf EXCEPT !.state = "failed"]
        ELSE IF funcId = Calls THEN [wf EXCEPT !.state = "succeeded", !.next = @ + 1]
        ELSE [wf EXCEPT !.next = @ + 1, !.at = "call"]

\* DBOSWorkflowConflictUUIDError: the workflow waits for the result of the
\* execution that got there first.
Conflicts == wf' = [wf EXCEPT !.state = "waiting"]

\* Mutant: the outcome of the procedure itself is not recorded.
FlushedOnly(r, f, outcome) == [g \in DOMAIN r |-> IF g \in results THEN prog[g].does ELSE r[g]]

\* flushResultBuffer, or flush_buffered_results: the rows of the buffer.
FlushFree(more) == \A f \in results \cup more : rows[f] = NoRow
Flushed(r, f, outcome) ==
  [g \in DOMAIN r |-> IF g \in results THEN prog[g].does ELSE IF g = f THEN outcome ELSE r[g]]

-----------------------------------------------------------------------------
(* invokeProcLocal *)

\* checkProcExecution is asked for this.functionID, which is already the ID of
\* the operation after this one.
checkProcExecution == IF wf.presetUUID THEN rows[funcId + 1] ELSE NoRow

\* The transaction finds a recorded outcome and returns, or throws, that.
LocalCached ==
  /\ Here(TRUE, "call") /\ checkProcExecution # NoRow
  /\ IF checkProcExecution = "error"
     THEN wf' = [wf EXCEPT !.at = "recordError"]
     ELSE Returns(checkProcExecution)
  /\ UNCHANGED <<prog, userDb, rows, results, effects, faults>>

\* A read-only body: its result is buffered.
LocalReads ==
  /\ Here(TRUE, "call") /\ checkProcExecution = NoRow /\ Proc.readOnly
  /\ IF Proc.does = "error"
     THEN wf' = [wf EXCEPT !.at = "recordError"] /\ UNCHANGED results
     ELSE results' = results \cup {funcId} /\ Returns(Proc.does)
  /\ UNCHANGED <<prog, userDb, rows, effects, faults>>

\* A writing body: the buffer is flushed, the body runs, the output is
\* recorded and all of it commits, or none.  A key that is already there is a
\* conflict, which the error path meets again.
LocalWrites ==
  /\ Here(TRUE, "call") /\ checkProcExecution = NoRow /\ ~Proc.readOnly
  /\ IF ~FlushFree({}) \/ (Proc.does # "error" /\ ~FlushFree({funcId}))
     THEN Conflicts /\ UNCHANGED <<rows, results, effects>>
     ELSE IF Proc.does = "error"
          THEN wf' = [wf EXCEPT !.at = "recordError"] /\ UNCHANGED <<rows, results, effects>>
          ELSE /\ rows' = Flushed(rows, funcId, Proc.does)
               /\ effects' = [effects EXCEPT ![funcId] = @ + 1]
               /\ results' = {}
               /\ Returns(Proc.does)
  /\ UNCHANGED <<prog, userDb, faults>>

\* The transaction fails to serialize at COMMIT, after the buffer was cleared.
\* The error is one of pg, but the client of the application database judges it.
LocalAborts ==
  /\ Here(TRUE, "call") /\ checkProcExecution = NoRow /\ ~Proc.readOnly /\ Proc.does # "error"
  /\ FlushFree({funcId}) /\ faults.aborts < MaxAborts
  /\ faults' = [faults EXCEPT !.aborts = @ + 1]
  /\ results' = {}
  /\ IF isRetriableTransactionError(userDb, ErrorOf("pg-node", "40001"))
     THEN UNCHANGED wf
     ELSE wf' = [wf EXCEPT !.at = "recordError"]
  /\ UNCHANGED <<prog, userDb, rows, effects>>

\* The error is recorded through procedurePool ...
LocalRecordError ==
  /\ Here(TRUE, "recordError")
  /\ IF FlushFree({funcId})
     THEN rows' = Flushed(rows, funcId, "error") /\ wf' = [wf EXCEPT !.at = "recordErrorTx"]
     ELSE Conflicts /\ UNCHANGED rows
  /\ UNCHANGED <<prog, userDb, results, effects, faults>>

\* ... and once more through the application database, with the same keys.
LocalRecordErrorTx ==
  /\ Here(TRUE, "recordErrorTx")
  /\ IF FlushFree({funcId})
     THEN /\ rows' = Flushed(rows, funcId, "error")
          /\ results' = {} /\ Returns("error")
     ELSE IF isKeyConflictError(userDb, ErrorOf(userDb, "23505"))
          THEN Conflicts /\ UNCHANGED <<rows, results>>
          ELSE Returns("error") /\ UNCHANGED <<rows, results>>
  /\ UNCHANGED <<prog, userDb, effects, faults>>

-----------------------------------------------------------------------------
(* invokeProcRemote, callProcedure and the generated procedure *)

\* check_execution: an output that is SQL NULL, as a void procedure leaves it,
\* counts as none.
check_execution == IF wf.presetUUID /\ rows[funcId] # "void" THEN rows[funcId] ELSE NoRow

RemoteCached ==
  /\ Here(FALSE, "call") /\ check_execution # NoRow
  /\ results' = IF Proc.readOnly THEN results ELSE {}
  /\ Returns(check_execution)
  /\ UNCHANGED <<prog, userDb, rows, effects, faults>>

\* A read-only procedure records nothing; its output is buffered.
RemoteReads ==
  /\ Here(FALSE, "call") /\ check_execution = NoRow /\ Proc.readOnly
  /\ results' = IF Proc.does = "error" THEN results ELSE results \cup {funcId}
  /\ Returns(Proc.does)
  /\ UNCHANGED <<prog, userDb, rows, effects, faults>>

\* The procedure flushes the buffer, runs and records its outcome; an error
\* rolls the body back first.  A key that is there raises an error of pg.
RemoteWrites ==
  /\ Here(FALSE, "call") /\ check_execution = NoRow /\ ~Proc.readOnly
  /\ IF FlushFree({funcId})
     THEN /\ rows' = Flushed(rows, funcId, Proc.does)
          /\ effects' = IF Proc.does = "error" THEN effects ELSE [effects EXCEPT ![funcId] = @ + 1]
          /\ results' = {}
          /\ Returns(Proc.does)
     ELSE Returns("error") /\ UNCHANGED <<rows, effects, results>>
  /\ UNCHANGED <<prog, userDb, faults>>

-----------------------------------------------------------------------------
\* The process dies, and the workflow is recovered from its first call.
CrashAndRecover ==
  /\ wf.state \in {"running", "waiting"} /\ faults.crashes < MaxCrashes
  /\ faults' = [faults EXCEPT !.crashes = @ + 1]
  /\ wf' = [state |-> "running", next |-> 1, presetUUID |-> TRUE, at |-> "call"]
  /\ results' = {}
  /\ UNCHANGED <<prog, userDb, rows, effects>>

invokeProcLocal  == LocalCached \/ LocalReads \/ LocalWrites \/ LocalAborts \/ LocalRecordError \/ LocalRecordErrorTx
invokeProcRemote == RemoteCached \/ RemoteReads \/ RemoteWrites

ProcNext == invokeProcLocal \/ invokeProcRemote \/ CrashAndRecover

ProcSpec == ProcInit /\ [][ProcNext]_procVars

-----------------------------------------------------------------------------
\* The writes of a procedure commit at most once however often its workflow is
\* recovered, even where the look for a recorded output misses it
\* (invokeProcLocal, invokeProcRemote).
ProcedureOnce == \A f \in Ids : effects[f] <= 1
=============================================================================
