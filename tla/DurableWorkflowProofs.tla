----------------------- MODULE DurableWorkflowProofs -----------------------
(***************************************************************************)
(* Proofs about DurableWorkflow, for any number of executors, executions   *)
(* and operations, any workflow function and any number of faults.         *)
(***************************************************************************)
EXTENDS DurableWorkflow, FiniteSetTheorems, TLAPS

-----------------------------------------------------------------------------
(* What the helpers of the actions return.                                  *)

\* Err and what user code returns can be the row of an operation.
LEMMA RowFacts == Err \in Rows /\ NoRow \in Rows /\ Vals \subseteq Rows /\ Err # NoRow
                  /\ NoRow \notin Vals /\ Err \notin Vals
  BY ConstantsAssumption DEF Rows, Results

\* Seeing changes what one execution has seen of one operation.
LEMMA SeeingFacts ==
    ASSUME obs \in [Runs -> [Ops -> Rows]], NEW r \in Runs, pc[r] \in Ops, NEW v \in Rows
    PROVE  /\ Seeing(r, v) \in [Runs -> [Ops -> Rows]]
           /\ Seeing(r, v)[r][pc[r]] = v
           /\ \A f \in Ops : f # pc[r] => Seeing(r, v)[r][f] = obs[r][f]
           /\ \A q \in Runs : q # r => Seeing(r, v)[q] = obs[q]
  BY DEF Seeing

\* Inserted keeps the type of the rows.
LEMMA InsertedFacts ==
    ASSUME rec \in [Ops -> Rows], NEW S, NEW seen \in [Ops -> Rows]
    PROVE  /\ Inserted(S, seen) \in [Ops -> Rows]
           /\ \A f \in Ops : Inserted(S, seen)[f] = IF f \in S THEN seen[f] ELSE rec[f]
  BY DEF Inserted

\* The operation an execution is at, as its state tells.
OpStates ==
    \A r \in Runs :
        /\ st[r] \in {"txn", "txnErr"} => Doing(r, {"rw", "ro"})
        /\ st[r] = "check" => Doing(r, {"step", "notify"})
        /\ st[r] = "body" => Doing(r, {"step", "notify", "getEvent", "sleep"})
        /\ st[r] = "record" => Doing(r, {"step", "getEvent"})
        /\ st[r] = "raise" => AtOp(r)

TypeInv == TypeOK /\ OpStates

-----------------------------------------------------------------------------
(* Type correctness.                                                        *)

\* The type invariant holds initially.
LEMMA InitTypeInv == Init => TypeInv
  BY ConstantsAssumption
  DEF Init, TypeInv, TypeOK, OpStates, NoRows, Rows, Statuses, RunStates, Ops

\* Invocation, recovery and initWorkflowStatus preserve it.
LEMMA StartTypeInv ==
    ASSUME TypeInv, NEW r \in Runs,
           \/ StartStep(r)
           \/ \E x \in Executors :
                 \/ \E given \in BOOLEAN, a \in Args : Invoke(r, x, given, a)
                 \/ Recover(r, x)
                 \/ Resume(r, x)
    PROVE  TypeInv'
  <1> USE DEF TypeInv, TypeOK, OpStates, Doing, AtOp, GoTo, dbVars, execVars, bounds,
              Statuses, RunStates
  <1>1. CASE \E x \in Executors, given \in BOOLEAN, a \in Args : Invoke(r, x, given, a)
    BY <1>1 DEF Invoke
  <1>2. CASE \E x \in Executors : Recover(r, x)
    BY <1>2 DEF Recover
  <1>3. CASE \E x \in Executors : Resume(r, x)
    BY <1>3 DEF Resume
  <1>4. CASE ReadInputs(r)
    BY <1>4 DEF ReadInputs
  <1>5. CASE InitStatus(r)
    BY <1>5 DEF InitStatus
  <1>6. CASE DeadLetter(r)
    BY <1>6 DEF DeadLetter
  <1>7. CASE InitInputs(r)
    BY <1>7 DEF InitInputs, RecordedInputs
  <1>8. CASE ResetAttempts(r)
    BY <1>8 DEF ResetAttempts
  <1> QED
    BY <1>1, <1>2, <1>3, <1>4, <1>5, <1>6, <1>7, <1>8 DEF StartStep

\* The variables that the operations change keep their types.
OpTypes ==
    /\ rec \in [Ops -> Rows] /\ effects \in [Ops -> Nat]
    /\ obs \in [Runs -> [Ops -> Rows]] /\ buf \in [Runs -> SUBSET Ops]
    /\ tries \in [Runs -> Nat]
    /\ crashes \in Nat /\ faults \in Nat /\ admins \in Nat

\* Execution r goes to state s of the same operation, or on to the next one.
Moves(r, s) ==
    /\ GoTo(r, s) /\ s \in RunStates
    /\ \/ UNCHANGED pc /\ AtOp(r)
       \/ UNCHANGED pc /\ s = "conflict"
       \/ pc' = [pc EXCEPT ![r] = @ + 1] /\ AtOp(r) /\ s = "op"
    /\ s \in {"txn", "txnErr"} => Doing(r, {"rw", "ro"})
    /\ s = "check" => Doing(r, {"step", "notify"})
    /\ s = "body" => Doing(r, {"step", "notify", "getEvent", "sleep"})
    /\ s = "record" => Doing(r, {"step", "getEvent"})

\* Moving an execution on, or letting it see a result, preserves it.
LEMMA MovesTypeInv ==
    ASSUME TypeInv, OpTypes', RunFrame, NEW r \in Runs, NEW s, Moves(r, s)
    PROVE  TypeInv'
  <1>1. pc \in [Runs -> 1 .. NumOps + 1] /\ st \in [Runs -> RunStates]
    BY DEF TypeInv, TypeOK
  <1>2. pc' \in [Runs -> 1 .. NumOps + 1]
    BY <1>1, ConstantsAssumption DEF Moves, AtOp, Ops
  <1>3. \A q \in Runs : q # r => pc'[q] = pc[q]
    BY <1>1 DEF Moves
  <1>4. st' \in [Runs -> RunStates] /\ st'[r] = s /\ \A q \in Runs : q # r => st'[q] = st[q]
    BY <1>1 DEF Moves, GoTo
  <1>5. TypeOK'
    BY <1>2, <1>4 DEF TypeInv, TypeOK, RunFrame, execVars, OpTypes
  <1>6. s \in {"txn", "txnErr", "check", "body", "record", "raise"} => UNCHANGED pc /\ AtOp(r)
    BY DEF Moves
  <1>7. OpStates'
    <2>1. ASSUME NEW q \in Runs, q # r
          PROVE  /\ st'[q] \in {"txn", "txnErr"} => Doing(q, {"rw", "ro"})'
                 /\ st'[q] = "check" => Doing(q, {"step", "notify"})'
                 /\ st'[q] = "body" => Doing(q, {"step", "notify", "getEvent", "sleep"})'
                 /\ st'[q] = "record" => Doing(q, {"step", "getEvent"})'
                 /\ st'[q] = "raise" => AtOp(q)'
      BY <1>3, <1>4, <2>1 DEF TypeInv, OpStates, Doing, AtOp
    <2>2. /\ st'[r] \in {"txn", "txnErr"} => Doing(r, {"rw", "ro"})'
          /\ st'[r] = "check" => Doing(r, {"step", "notify"})'
          /\ st'[r] = "body" => Doing(r, {"step", "notify", "getEvent", "sleep"})'
          /\ st'[r] = "record" => Doing(r, {"step", "getEvent"})'
          /\ st'[r] = "raise" => AtOp(r)'
      BY <1>4, <1>6 DEF Moves, Doing, AtOp
    <2> QED
      BY <2>1, <2>2 DEF OpStates
  <1> QED
    BY <1>5, <1>7 DEF TypeInv

\* What the steps of operations use of the type invariant.
LEMMA OpFacts ==
    ASSUME TypeInv, NEW r \in Runs
    PROVE  /\ OpTypes
           /\ st[r] \in {"txn", "txnErr"} => Doing(r, {"rw", "ro"})
           /\ st[r] = "check" => Doing(r, {"step", "notify"})
           /\ st[r] = "body" => Doing(r, {"step", "notify", "getEvent", "sleep"})
           /\ st[r] = "record" => Doing(r, {"step", "getEvent"})
           /\ AtOp(r) => \A v \in Rows : Seeing(r, v) \in [Runs -> [Ops -> Rows]]
           /\ AtOp(r) => rec[pc[r]] \in Rows
  <1>1. OpTypes
    BY DEF TypeInv, TypeOK, OpTypes
  <1>2. AtOp(r) => \A v \in Rows : Seeing(r, v) \in [Runs -> [Ops -> Rows]]
    BY <1>1, SeeingFacts DEF OpTypes, AtOp
  <1>3. AtOp(r) => rec[pc[r]] \in Rows
    BY <1>1 DEF OpTypes, AtOp
  <1> QED
    BY <1>1, <1>2, <1>3 DEF TypeInv, OpStates

\* The transaction actions preserve it.
LEMMA TxnTypeInv ==
    ASSUME TypeInv, NEW r \in Runs, TxnStep(r)
    PROVE  TypeInv'
  <1> USE RowFacts, OpFacts DEF RunStates, Moves, OpTypes, bounds
  <1>1. CASE TxnBegin(r)
    <2>1. CASE ~Found(r)
      <3>1. OpTypes'
        BY <1>1, <2>1 DEF TxnBegin, Doing
      <3>2. Moves(r, "txn") /\ RunFrame
        BY <1>1, <2>1 DEF TxnBegin, Doing, Advance
      <3> QED
        BY <3>1, <3>2, MovesTypeInv
    <2>2. CASE Found(r) /\ rec[pc[r]] # Err
      <3>1. OpTypes'
        BY <1>1, <2>2 DEF TxnBegin, Doing
      <3>2. Moves(r, "op") /\ RunFrame
        BY <1>1, <2>2 DEF TxnBegin, Doing, Advance
      <3> QED
        BY <3>1, <3>2, MovesTypeInv
    <2>3. CASE Found(r) /\ rec[pc[r]] = Err
      <3>1. OpTypes'
        BY <1>1, <2>3 DEF TxnBegin, Doing
      <3>2. Moves(r, "txnErr") /\ RunFrame
        BY <1>1, <2>3 DEF TxnBegin, Doing, Advance
      <3> QED
        BY <3>1, <3>2, MovesTypeInv
    <2> QED
      BY <1>1, <2>1, <2>2, <2>3 DEF TxnBegin
  <1>2. CASE TxnThrow(r)
    <2>1. OpTypes'
      BY <1>2 DEF TxnThrow, Doing
    <2>2. Moves(r, "txnErr") /\ RunFrame
      BY <1>2 DEF TxnThrow, Doing, Advance
    <2> QED
      BY <2>1, <2>2, MovesTypeInv
  <1>3. CASE TxnRetry(r)
    <2>1. OpTypes'
      BY <1>3 DEF TxnRetry, Doing
    <2>2. Moves(r, "op") /\ RunFrame
      BY <1>3 DEF TxnRetry, Doing, Advance
    <2> QED
      BY <2>1, <2>2, MovesTypeInv
  <1>4. CASE TxnCommitRetry(r)
    <2>1. OpTypes'
      BY <1>4 DEF TxnCommitRetry, Doing
    <2>2. Moves(r, "op") /\ RunFrame
      BY <1>4 DEF TxnCommitRetry, Doing, Advance
    <2> QED
      BY <2>1, <2>2, MovesTypeInv
  <1>5. CASE TxnRecordError(r)
    <2>1. CASE KeysFree(TxnKeys(r))
      <3>1. OpTypes'
        <4>1. rec' \in [Ops -> Rows]
          BY <1>5, <2>1, InsertedFacts DEF TxnRecordError
        <4>2. buf' \in [Runs -> SUBSET Ops]
          BY <1>5, <2>1 DEF TxnRecordError
        <4> QED
          BY <1>5, <2>1, <4>1, <4>2 DEF TxnRecordError
      <3>2. Moves(r, "raise") /\ RunFrame
        BY <1>5, <2>1 DEF TxnRecordError, Doing, Advance
      <3> QED
        BY <3>1, <3>2, MovesTypeInv
    <2>2. CASE ~KeysFree(TxnKeys(r))
      <3>1. OpTypes'
        BY <1>5, <2>2 DEF TxnRecordError, Doing
      <3>2. Moves(r, "conflict") /\ RunFrame
        BY <1>5, <2>2 DEF TxnRecordError, Doing, Advance
      <3> QED
        BY <3>1, <3>2, MovesTypeInv
    <2> QED
      BY <1>5, <2>1, <2>2 DEF TxnRecordError
  <1>6. CASE \E v \in Vals : TxnReadOnly(r, v)
    <2>0. PICK v \in Vals : TxnReadOnly(r, v)
      BY <1>6
    <2>1. OpTypes'
      BY <2>0 DEF TxnReadOnly, Doing, AtOp
    <2>2. Moves(r, "op") /\ RunFrame
      BY <2>0 DEF TxnReadOnly, Doing, Advance
    <2> QED
      BY <2>1, <2>2, MovesTypeInv
  <1>7. CASE \E v \in Vals : TxnCommit(r, v)
    <2>0. PICK v \in Vals : TxnCommit(r, v)
      BY <1>7
    <2>1. OpTypes'
      <3>1. obs' \in [Runs -> [Ops -> Rows]]
        BY <2>0 DEF TxnCommit, Doing
      <3>2. rec' \in [Ops -> Rows]
        BY <2>0, <3>1, InsertedFacts DEF TxnCommit
      <3>3. buf' \in [Runs -> SUBSET Ops]
        BY <2>0 DEF TxnCommit
      <3>4. effects' \in [Ops -> Nat]
        BY <2>0 DEF TxnCommit, Doing, AtOp
      <3> QED
        BY <2>0, <3>1, <3>2, <3>3, <3>4 DEF TxnCommit
    <2>2. Moves(r, "op") /\ RunFrame
      BY <2>0 DEF TxnCommit, Doing, Advance
    <2> QED
      BY <2>1, <2>2, MovesTypeInv
  <1> QED
    BY <1>1, <1>2, <1>3, <1>4, <1>5, <1>6, <1>7 DEF TxnStep

\* The actions of steps, messages, getEvent and sleep preserve it.
LEMMA OpTypeInv ==
    ASSUME TypeInv, NEW r \in Runs, OpStep(r)
    PROVE  TypeInv'
  <1> USE RowFacts, OpFacts DEF RunStates, Moves, OpTypes, bounds
  <1>1. CASE FlushResultBuffer(r)
    <2>1. CASE KeysFree(buf[r])
      <3>1. OpTypes'
        <4>1. rec' \in [Ops -> Rows]
          BY <1>1, <2>1, InsertedFacts DEF FlushResultBuffer
        <4>2. buf' \in [Runs -> SUBSET Ops]
          BY <1>1, <2>1 DEF FlushResultBuffer
        <4> QED
          BY <1>1, <2>1, <4>1, <4>2 DEF FlushResultBuffer
      <3>2. Moves(r, "check") /\ RunFrame
        BY <1>1, <2>1 DEF FlushResultBuffer, Doing, Advance
      <3> QED
        BY <3>1, <3>2, MovesTypeInv
    <2>2. CASE ~KeysFree(buf[r])
      <3>1. OpTypes'
        BY <1>1, <2>2 DEF FlushResultBuffer, Doing
      <3>2. Moves(r, "conflict") /\ RunFrame
        BY <1>1, <2>2 DEF FlushResultBuffer, Doing, Advance
      <3> QED
        BY <3>1, <3>2, MovesTypeInv
    <2> QED
      BY <1>1, <2>1, <2>2 DEF FlushResultBuffer
  <1>2. CASE CheckOperation(r)
    <2>1. CASE CheckedRow(r) = NoRow
      <3>1. OpTypes'
        <4>1. tries' \in [Runs -> Nat]
          BY <1>2, <2>1 DEF CheckOperation
        <4>2. obs' \in [Runs -> [Ops -> Rows]]
          BY <1>2, <2>1 DEF CheckOperation
        <4> QED
          BY <1>2, <2>1, <4>1, <4>2 DEF CheckOperation
      <3>2. Moves(r, "body") /\ RunFrame
        BY <1>2, <2>1 DEF CheckOperation, Doing, Advance
      <3> QED
        BY <3>1, <3>2, MovesTypeInv
    <2>2. CASE CheckedRow(r) \in Vals
      <3>1. OpTypes'
        BY ZenonT(30), <1>2, <2>2 DEF CheckOperation, Doing
      <3>2. Moves(r, "op") /\ RunFrame
        BY <1>2, <2>2 DEF CheckOperation, Doing, Advance
      <3> QED
        BY <3>1, <3>2, MovesTypeInv
    <2>3. CASE CheckedRow(r) = Err
      <3>1. OpTypes'
        BY <1>2, <2>3 DEF CheckOperation, Doing
      <3>2. Moves(r, "raise") /\ RunFrame
        BY <1>2, <2>3 DEF CheckOperation, Doing, Advance
      <3> QED
        BY <3>1, <3>2, MovesTypeInv
    <2> QED
      BY <1>2, <2>1, <2>2, <2>3 DEF CheckOperation
  <1>3. CASE StepThrows(r)
    <2>1. CASE tries'[r] < MaxTries
      <3>1. OpTypes'
        BY SMTT(30), <1>3, <2>1 DEF StepThrows, Doing
      <3>2. Moves(r, "body") /\ RunFrame
        <4>1. ~(tries'[r] >= MaxTries)
          BY <1>3, <2>1, <3>1, ConstantsAssumption DEF StepThrows
        <4>2. st' = [st EXCEPT ![r] = "body"]
          BY <1>3, <4>1 DEF StepThrows, TypeInv, TypeOK
        <4> QED
          BY <1>3, <2>1, <4>2 DEF StepThrows, GoTo, Doing
      <3> QED
        BY <3>1, <3>2, MovesTypeInv
    <2>2. CASE tries'[r] >= MaxTries
      <3>1. OpTypes'
        <4>1. tries' \in [Runs -> Nat]
          BY <1>3 DEF StepThrows
        <4>2. obs' \in [Runs -> [Ops -> Rows]]
          BY <1>3, <4>1 DEF StepThrows, Doing
        <4> QED
          BY <1>3, <4>1, <4>2 DEF StepThrows
      <3>2. Moves(r, "record") /\ RunFrame
        <4>1. ~(tries'[r] < MaxTries)
          BY <1>3, <2>2, <3>1, ConstantsAssumption DEF StepThrows
        <4> QED
          BY <1>3, <2>2, <4>1 DEF StepThrows, Doing
      <3> QED
        BY <3>1, <3>2, MovesTypeInv
    <2> QED
      BY <1>3, <2>1, <2>2 DEF StepThrows
  <1>4. CASE RecordOperation(r)
    <2>1. CASE KeysFree({pc[r]}) /\ obs[r][pc[r]] # Err
      <3>1. OpTypes'
        <4>1. rec' \in [Ops -> Rows]
          BY <1>4, <2>1, InsertedFacts DEF RecordOperation
        <4> QED
          BY <1>4, <2>1, <4>1 DEF RecordOperation
      <3>2. Moves(r, "op") /\ RunFrame
        BY <1>4, <2>1 DEF RecordOperation, Doing, Advance
      <3> QED
        BY <3>1, <3>2, MovesTypeInv
    <2>2. CASE KeysFree({pc[r]}) /\ obs[r][pc[r]] = Err
      <3>1. OpTypes'
        <4>1. rec' \in [Ops -> Rows]
          BY <1>4, <2>2, InsertedFacts DEF RecordOperation
        <4> QED
          BY <1>4, <2>2, <4>1 DEF RecordOperation
      <3>2. Moves(r, "raise") /\ RunFrame
        BY <1>4, <2>2 DEF RecordOperation, Doing, Advance
      <3> QED
        BY <3>1, <3>2, MovesTypeInv
    <2>3. CASE ~KeysFree({pc[r]})
      <3>1. OpTypes'
        BY <1>4, <2>3 DEF RecordOperation, Doing
      <3>2. Moves(r, "conflict") /\ RunFrame
        BY <1>4, <2>3 DEF RecordOperation, Doing, Advance
      <3> QED
        BY <3>1, <3>2, MovesTypeInv
    <2> QED
      BY <1>4, <2>1, <2>2, <2>3 DEF RecordOperation
  <1>5. CASE NotifyThrows(r)
    <2>1. OpTypes'
      BY <1>5 DEF NotifyThrows, Doing
    <2>2. Moves(r, "raise") /\ RunFrame
      BY <1>5 DEF NotifyThrows, Doing, Advance
    <2> QED
      BY <2>1, <2>2, MovesTypeInv
  <1>6. CASE \E v \in Vals : BodyReturns(r, v)
    <2>0. PICK v \in Vals : BodyReturns(r, v)
      BY <1>6
    <2>1. OpTypes'
      BY <2>0 DEF BodyReturns, Doing
    <2>2. Moves(r, "record") /\ RunFrame
      BY <2>0 DEF BodyReturns, Doing, Advance
    <2> QED
      BY <2>1, <2>2, MovesTypeInv
  <1>7. CASE \E v \in Vals : NotifyCommit(r, v)
    <2>0. PICK v \in Vals : NotifyCommit(r, v)
      BY <1>7
    <2>1. CASE KeysFree({pc[r]})
      <3>1. OpTypes'
        <4>1. obs' \in [Runs -> [Ops -> Rows]]
          BY <2>0, <2>1 DEF NotifyCommit, Doing
        <4>2. rec' \in [Ops -> Rows]
          BY <2>0, <2>1, <4>1, InsertedFacts DEF NotifyCommit
        <4>3. effects' \in [Ops -> Nat]
          BY <2>0, <2>1 DEF NotifyCommit, Doing, AtOp
        <4> QED
          BY <2>0, <2>1, <4>1, <4>2, <4>3 DEF NotifyCommit
      <3>2. Moves(r, "op") /\ RunFrame
        BY <2>0, <2>1 DEF NotifyCommit, Doing, Advance
      <3> QED
        BY <3>1, <3>2, MovesTypeInv
    <2>2. CASE ~KeysFree({pc[r]})
      <3>1. OpTypes'
        BY <2>0, <2>2 DEF NotifyCommit, Doing, AtOp
      <3>2. Moves(r, "conflict") /\ RunFrame
        BY <2>0, <2>2 DEF NotifyCommit, Doing, Advance
      <3> QED
        BY <3>1, <3>2, MovesTypeInv
    <2> QED
      BY <2>0, <2>1, <2>2 DEF NotifyCommit
  <1>8. CASE \E v \in Vals : Sleep(r, v)
    <2>0. PICK v \in Vals : Sleep(r, v)
      BY <1>8
    <2>1. OpTypes'
      BY <2>0 DEF Sleep, Doing, AtOp
    <2>2. Moves(r, "op") /\ RunFrame
      BY <2>0 DEF Sleep, Doing, Advance
    <2> QED
      BY <2>1, <2>2, MovesTypeInv
  <1> QED
    BY <1>1, <1>2, <1>3, <1>4, <1>5, <1>6, <1>7, <1>8 DEF OpStep

\* The ways a workflow function ends preserve it.
LEMMA EndTypeInv ==
    ASSUME TypeInv, NEW r \in Runs, EndStep(r)
    PROVE  TypeInv'
  <1> USE RowFacts
  <1>1. resBuf \in [Executors -> [Ops -> Rows]] /\ obs \in [Runs -> [Ops -> Rows]]
    BY DEF TypeInv, TypeOK
  <1>2. BufferResults(r) => resBuf' \in [Executors -> [Ops -> Rows]]
    <2>1. [g \in Ops |-> IF g \in buf[r] THEN obs[r][g] ELSE NoRow] \in [Ops -> Rows]
      BY <1>1
    <2> QED
      BY <1>1, <2>1 DEF BufferResults
  <1> USE DEF TypeInv, TypeOK, OpStates, Doing, AtOp, GoTo, RunStates, bounds, EndFrame, Statuses
  <1>3. CASE Finish(r)
    BY <1>2, <1>3 DEF Finish, Outcome
  <1>4. CASE RecordWorkflowError(r)
    BY <1>4 DEF RecordWorkflowError
  <1>5. CASE ConflictResult(r)
    BY <1>2, <1>5 DEF ConflictResult
  <1> QED
    BY <1>3, <1>4, <1>5 DEF EndStep

\* The periodic flush, crashes, restarts and commands preserve it.
LEMMA ExecutorTypeInv ==
    ASSUME TypeInv, NEW x \in Executors, FlushStep(x) \/ Crash(x) \/ Restart(x)
    PROVE  TypeInv'
  <1> USE RowFacts
  <1>1. NoRows \in [Ops -> Rows]
    BY DEF NoRows
  <1>2. UNCHANGED <<st, pc>> => UNCHANGED OpStates
    BY DEF OpStates, Doing, AtOp
  <1>3. CASE FlushTake(x)
    BY <1>1, <1>2, <1>3 DEF FlushTake, FlushFrame, TypeInv, TypeOK, runVars, bounds
  <1>4. CASE FlushResults(x)
    <2>1. rec' \in [Ops -> Rows]
      BY <1>4, InsertedFacts DEF FlushResults, TypeInv, TypeOK
    <2>2. resBuf' \in [Executors -> [Ops -> Rows]]
      BY <1>4 DEF FlushResults, GiveBack, TypeInv, TypeOK
    <2>3. crashes' \in Nat /\ faults' \in Nat /\ admins' \in Nat
      BY <1>4 DEF FlushResults, bounds, TypeInv, TypeOK
    <2>4. /\ resLocal' \in [Executors -> [Ops -> Rows]]
          /\ statusLocal' \in [Executors -> [Ops -> Rows] \cup {NoRow}]
          /\ statusBuf' \in [Executors -> [Ops -> Rows] \cup {NoRow}]
          /\ flushing' \in [Executors -> {"idle", "results", "status"}]
      BY <1>1, <1>4 DEF FlushResults, TypeInv, TypeOK
    <2> QED
      BY <1>2, <1>4, <2>1, <2>2, <2>3, <2>4
      DEF FlushResults, FlushFrame, TypeInv, TypeOK, runVars
  <1>5. CASE FlushStatus(x)
    <2>1. statusBuf' \in [Executors -> [Ops -> Rows] \cup {NoRow}]
      BY <1>5 DEF FlushStatus, GiveBack, TypeInv, TypeOK
    <2>2. wfStatus' \in Statuses /\ wfOut' \in [Ops -> Rows]
      BY <1>5 DEF FlushStatus, Statuses, TypeInv, TypeOK
    <2>3. crashes' \in Nat /\ faults' \in Nat /\ admins' \in Nat
      BY <1>5 DEF FlushStatus, bounds, TypeInv, TypeOK
    <2>4. /\ statusLocal' \in [Executors -> [Ops -> Rows] \cup {NoRow}]
          /\ flushing' \in [Executors -> {"idle", "results", "status"}]
      BY <1>5 DEF FlushStatus, TypeInv, TypeOK
    <2> QED
      BY <1>2, <1>5, <2>1, <2>2, <2>3, <2>4
      DEF FlushStatus, FlushFrame, TypeInv, TypeOK, runVars
  <1>6. CASE Crash(x)
    BY <1>1, <1>6
    DEF Crash, TypeInv, TypeOK, OpStates, Doing, AtOp, RunStates, Ended, dbVars
  <1>7. CASE Restart(x)
    BY <1>2, <1>7 DEF Restart, TypeInv, TypeOK, dbVars, runVars, bounds
  <1> QED
    BY <1>3, <1>4, <1>5, <1>6, <1>7 DEF FlushStep

\* Every step preserves the type invariant.
LEMMA StepTypeInv == TypeInv /\ [Next]_vars => TypeInv'
  <1> SUFFICES ASSUME TypeInv, [Next]_vars PROVE TypeInv'
    OBVIOUS
  <1>1. CASE \E r \in Runs, x \in Executors :
                \/ \E given \in BOOLEAN, a \in Args : Invoke(r, x, given, a)
                \/ Recover(r, x)
                \/ Resume(r, x)
    BY <1>1, StartTypeInv
  <1>2. CASE \E r \in Runs : RunStep(r)
    BY <1>2, StartTypeInv, TxnTypeInv, OpTypeInv, EndTypeInv DEF RunStep
  <1>3. CASE \E x \in Executors : FlushStep(x) \/ Crash(x) \/ Restart(x)
    BY <1>3, ExecutorTypeInv
  <1>4. CASE Cancel
    BY <1>4
    DEF Cancel, TypeInv, TypeOK, OpStates, Doing, AtOp, Statuses, runVars, execVars
  <1>5. CASE UNCHANGED vars
    BY <1>5
    DEF vars, dbVars, runVars, execVars, bounds, TypeInv, TypeOK, OpStates, Doing, AtOp
  <1> QED
    BY <1>1, <1>2, <1>3, <1>4, <1>5 DEF Next

\* Every variable keeps its type, whatever fails, crashes or runs concurrently.
THEOREM TypeCorrect == Spec => []TypeOK
  <1>1. TypeInv => TypeOK
    BY DEF TypeInv
  <1> QED
    BY InitTypeInv, StepTypeInv, <1>1, PTL DEF Spec

-----------------------------------------------------------------------------
(* Arguments and recovery attempts.                                         *)

\* The states of an execution that is in the workflow function or ends it.
Executing == {"op", "txn", "txnErr", "check", "body", "record", "raise", "conflict"}

\* An execution on its way into the function brings arguments along, and one that
\* is in it runs with the recorded ones.
InputsInv ==
    \A r \in Runs :
        /\ st[r] \in {"init", "deadLetter", "inputs"} => arg[r] # NoRow
        /\ st[r] \in Executing => arg[r] = wfInputs /\ wfInputs # NoRow

\* The recoveries that were let through by initWorkflowStatus.
Admitted == {r \in Runs : rcv[r] /\ (pc[r] > 1 \/ st[r] \in Executing \cup {"inputs"})}

\* Unless a command reset them, the recovery attempts count the admitted recoveries.
AttemptsInv ==
    /\ \A r \in Runs :
          /\ rcv[r] => wfStatus # "NONE"
          /\ st[r] \in {"unused", "resume", "listed", "init"} => pc[r] = 1
          /\ st[r] = "resume" => admins > 0
    /\ admins = 0 => /\ IsFiniteSet(Admitted)
                     /\ Cardinality(Admitted) <= attempts
                     /\ Cardinality(Admitted) < MaxAttempts

\* How executions enter the workflow function.
EntryInv == TypeInv /\ InputsInv /\ AttemptsInv

\* While it executes operations and ends, an execution changes neither arguments
\* nor attempts, and stays in the function until it is done.
LEMMA ExecutingSteps ==
    ASSUME TypeInv, NEW r \in Runs, TxnStep(r) \/ OpStep(r) \/ EndStep(r)
    PROVE  /\ UNCHANGED <<arg, wfInputs, attempts, rcv, admins>>
           /\ st[r] \in Executing /\ st'[r] \in Executing \cup {"done"}
           /\ \A q \in Runs : q # r => st'[q] = st[q] /\ pc'[q] = pc[q]
           /\ wfStatus # "NONE" => wfStatus' # "NONE"
  <1> USE DEF Executing
  <1>1. st \in [Runs -> RunStates] /\ pc \in [Runs -> 1 .. NumOps + 1]
    BY DEF TypeInv, TypeOK
  <1>2. CASE TxnStep(r)
    <2> USE DEF GoTo, Advance, RunFrame, bounds
    <2>1. CASE TxnBegin(r)
      BY <1>1, <2>1 DEF TxnBegin
    <2>2. CASE TxnThrow(r)
      BY <1>1, <2>2 DEF TxnThrow
    <2>3. CASE TxnRetry(r)
      BY <1>1, <2>3 DEF TxnRetry
    <2>4. CASE TxnCommitRetry(r)
      BY <1>1, <2>4 DEF TxnCommitRetry
    <2>5. CASE TxnRecordError(r)
      BY <1>1, <2>5 DEF TxnRecordError
    <2>6. CASE \E v \in Vals : TxnReadOnly(r, v)
      BY <1>1, <2>6 DEF TxnReadOnly
    <2>7. CASE \E v \in Vals : TxnCommit(r, v)
      BY <1>1, <2>7 DEF TxnCommit
    <2> QED
      BY <1>2, <2>1, <2>2, <2>3, <2>4, <2>5, <2>6, <2>7 DEF TxnStep
  <1>3. CASE OpStep(r)
    <2> USE DEF GoTo, Advance, RunFrame, bounds
    <2>1. CASE FlushResultBuffer(r)
      BY <1>1, <2>1 DEF FlushResultBuffer
    <2>2. CASE CheckOperation(r)
      BY <1>1, <2>2 DEF CheckOperation
    <2>3. CASE StepThrows(r)
      BY <1>1, <2>3 DEF StepThrows
    <2>4. CASE RecordOperation(r)
      BY <1>1, <2>4 DEF RecordOperation
    <2>5. CASE NotifyThrows(r)
      BY <1>1, <2>5 DEF NotifyThrows
    <2>6. CASE \E v \in Vals : BodyReturns(r, v)
      BY <1>1, <2>6 DEF BodyReturns
    <2>7. CASE \E v \in Vals : NotifyCommit(r, v)
      BY <1>1, <2>7 DEF NotifyCommit
    <2>8. CASE \E v \in Vals : Sleep(r, v)
      BY <1>1, <2>8 DEF Sleep
    <2> QED
      BY <1>3, <2>1, <2>2, <2>3, <2>4, <2>5, <2>6, <2>7, <2>8 DEF OpStep
  <1>4. CASE EndStep(r)
    BY <1>1, <1>4
    DEF EndStep, Finish, RecordWorkflowError, ConflictResult, EndFrame, GoTo, bounds
  <1> QED
    BY <1>2, <1>3, <1>4

\* Where no recovery is admitted and no attempt forgotten, the bound stays.
LEMMA NoneAdmitted ==
    ASSUME EntryInv, TypeInv', Admitted' \subseteq Admitted, attempts' >= attempts,
           admins' = admins \/ admins' # 0
    PROVE  admins' = 0 => /\ IsFiniteSet(Admitted)'
                          /\ (Cardinality(Admitted) <= attempts)'
                          /\ (Cardinality(Admitted) < MaxAttempts)'

  <1> SUFFICES ASSUME admins' = 0
               PROVE  /\ IsFiniteSet(Admitted')
                      /\ Cardinality(Admitted') <= attempts'
                      /\ Cardinality(Admitted') < MaxAttempts
    OBVIOUS
  <1>1. IsFiniteSet(Admitted) /\ Cardinality(Admitted) <= attempts /\ Cardinality(Admitted) < MaxAttempts
    BY DEF EntryInv, AttemptsInv
  <1>2. IsFiniteSet(Admitted') /\ Cardinality(Admitted') <= Cardinality(Admitted)
    BY <1>1, FS_Subset
  <1>3. Cardinality(Admitted) \in Nat /\ Cardinality(Admitted') \in Nat
    BY ONLY <1>1, <1>2, FS_CardinalityType
  <1>4. attempts \in Nat /\ attempts' \in Nat /\ MaxAttempts \in Nat
    BY ConstantsAssumption DEF EntryInv, TypeInv, TypeOK
  <1> QED
    BY <1>1, <1>2, <1>3, <1>4

\* Invocation, recovery and initWorkflowStatus preserve the bound: InitStatus
\* admits one more recovery only together with one more attempt.
LEMMA StartEntryInv ==
    ASSUME EntryInv, TypeInv', NEW r \in Runs,
           \/ StartStep(r)
           \/ \E x \in Executors :
                 \/ \E given \in BOOLEAN, a \in Args : Invoke(r, x, given, a)
                 \/ Recover(r, x)
                 \/ Resume(r, x)
    PROVE  InputsInv' /\ AttemptsInv'
  <1>1. /\ st \in [Runs -> RunStates] /\ arg \in [Runs -> Args \cup {NoRow}] /\ rcv \in [Runs -> BOOLEAN]
        /\ attempts \in Nat /\ admins \in Nat /\ NoRow \notin Args /\ MaxAttempts \in Nat \ {0}
    BY ConstantsAssumption DEF EntryInv, TypeInv, TypeOK
  <1>2. CASE \E x \in Executors :
                \/ \E given \in BOOLEAN, a \in Args : Invoke(r, x, given, a)
                \/ Recover(r, x)
                \/ Resume(r, x)
    <2>1. /\ st[r] = "unused" /\ st'[r] \in {"init", "listed", "resume"}
          /\ \A q \in Runs : q # r => st'[q] = st[q] /\ rcv'[q] = rcv[q] /\ arg'[q] = arg[q]
          /\ st'[r] = "init" => arg'[r] # NoRow
          /\ st'[r] = "resume" => admins' = admins + 1
          /\ rcv'[r] = rcv[r] \/ wfStatus' # "NONE"
          /\ wfStatus' = wfStatus \/ wfStatus' = "PENDING"
          /\ UNCHANGED <<pc, attempts, wfInputs>>
          /\ admins' = admins \/ admins' = admins + 1
      <3>1. CASE \E x \in Executors, given \in BOOLEAN, a \in Args : Invoke(r, x, given, a)
        BY <1>1, <3>1 DEF Invoke, GoTo, dbVars, bounds
      <3>2. CASE \E x \in Executors : Recover(r, x)
        BY <1>1, <3>2 DEF Recover, GoTo, dbVars, bounds
      <3>3. CASE \E x \in Executors : Resume(r, x)
        BY <1>1, <3>3 DEF Resume, GoTo
      <3> QED
        BY <1>2, <3>1, <3>2, <3>3
    <2>2. InputsInv'
      BY <2>1 DEF EntryInv, InputsInv, Executing
    <2>3. Admitted' \subseteq Admitted
      BY <2>1 DEF Admitted, EntryInv, AttemptsInv, Executing
    <2>4. attempts' >= attempts /\ (admins' = admins \/ admins' # 0)
      BY <1>1, <2>1
    <2>5. \A q \in Runs :
             /\ rcv'[q] => wfStatus' # "NONE"
             /\ st'[q] \in {"unused", "resume", "listed", "init"} => pc'[q] = 1
             /\ st'[q] = "resume" => admins' > 0
      BY <1>1, <2>1 DEF EntryInv, AttemptsInv
    <2> QED
      BY <2>2, <2>3, <2>4, <2>5, NoneAdmitted DEF AttemptsInv
  <1>3. CASE ReadInputs(r) \/ DeadLetter(r) \/ InitInputs(r) \/ ResetAttempts(r)
    <2>1. InputsInv'
      BY <1>1, <1>3
      DEF EntryInv, InputsInv, ReadInputs, DeadLetter, InitInputs, ResetAttempts, RecordedInputs,
          GoTo, dbVars, Executing
    <2>2. Admitted' \subseteq Admitted
      BY <1>1, <1>3
      DEF Admitted, ReadInputs, DeadLetter, InitInputs, ResetAttempts, GoTo, Executing
    <2>3. \A q \in Runs :
             /\ rcv'[q] => wfStatus' # "NONE"
             /\ st'[q] \in {"unused", "resume", "listed", "init"} => pc'[q] = 1
             /\ st'[q] = "resume" => admins' > 0
      BY <1>1, <1>3
      DEF EntryInv, AttemptsInv, ReadInputs, DeadLetter, InitInputs, ResetAttempts, GoTo, dbVars, bounds
    <2>4. admins' = admins /\ (attempts' = attempts \/ admins > 0)
      BY <1>3 DEF EntryInv, AttemptsInv, ReadInputs, DeadLetter, InitInputs, ResetAttempts, dbVars, bounds
    <2> QED
      BY <1>1, <2>1, <2>2, <2>3, <2>4, NoneAdmitted DEF EntryInv, AttemptsInv
  <1>4. CASE InitStatus(r)
    <2>1. InputsInv'
      BY <1>1, <1>4 DEF EntryInv, InputsInv, InitStatus, GoTo, Executing
    <2>2. \A q \in Runs :
             /\ rcv'[q] => wfStatus' # "NONE"
             /\ st'[q] \in {"unused", "resume", "listed", "init"} => pc'[q] = 1
             /\ st'[q] = "resume" => admins' > 0
      BY <1>1, <1>4 DEF EntryInv, AttemptsInv, InitStatus, GoTo, bounds
    <2>3. admins' = admins /\ attempts' \in Nat /\ attempts' >= attempts
      BY <1>1, <1>4 DEF InitStatus, bounds
    <2>4. CASE ~rcv[r] \/ Exhausted(attempts')
      <3>1. Admitted' \subseteq Admitted
        BY <1>1, <1>4, <2>4 DEF Admitted, InitStatus, GoTo, Executing
      <3> QED
        BY <2>1, <2>2, <2>3, <3>1, NoneAdmitted DEF AttemptsInv
    <2>5. CASE rcv[r] /\ ~Exhausted(attempts')
      <3>1. attempts' = attempts + 1 /\ attempts' < MaxAttempts
        BY <1>1, <1>4, <2>5 DEF InitStatus, Exhausted, EntryInv, AttemptsInv
      <3>2. Admitted' \subseteq Admitted \cup {r}
        BY <1>1, <1>4 DEF Admitted, InitStatus, GoTo, Executing
      <3>3. ASSUME admins = 0
            PROVE  /\ IsFiniteSet(Admitted')
                   /\ Cardinality(Admitted') <= attempts + 1
        <4>1. IsFiniteSet(Admitted) /\ Cardinality(Admitted) <= attempts
          BY <3>3 DEF EntryInv, AttemptsInv
        <4>2. /\ IsFiniteSet(Admitted \cup {r})
              /\ \/ Cardinality(Admitted \cup {r}) = Cardinality(Admitted)
                 \/ Cardinality(Admitted \cup {r}) = Cardinality(Admitted) + 1
          BY <4>1, FS_AddElement
        <4>3. IsFiniteSet(Admitted') /\ Cardinality(Admitted') <= Cardinality(Admitted \cup {r})
          BY <3>2, <4>2, FS_Subset
        <4>4. Cardinality(Admitted) \in Nat /\ Cardinality(Admitted') \in Nat
          BY <4>1, <4>3, FS_CardinalityType
        <4> QED
          BY <1>1, <4>1, <4>2, <4>3, <4>4
      <3>4. IsFiniteSet(Admitted') => Cardinality(Admitted') \in Nat
        BY FS_CardinalityType
      <3> QED
        BY <1>1, <2>1, <2>2, <2>3, <3>1, <3>3, <3>4 DEF AttemptsInv
    <2> QED
      BY <2>4, <2>5
  <1> QED
    BY <1>2, <1>3, <1>4 DEF StartStep

\* The invariant holds when no execution has started.
LEMMA InitEntryInv == Init => EntryInv
  <1> SUFFICES ASSUME Init PROVE EntryInv
    OBVIOUS
  <1>1. TypeInv
    BY InitTypeInv
  <1>2. InputsInv
    BY DEF Init, InputsInv, Executing
  <1>3. Admitted = {}
    BY DEF Init, Admitted
  <1>4. AttemptsInv
    BY <1>3, FS_EmptySet, ConstantsAssumption DEF Init, AttemptsInv
  <1> QED
    BY <1>1, <1>2, <1>4 DEF EntryInv

\* Every step preserves it.
LEMMA StepEntryInv == EntryInv /\ [Next]_vars => EntryInv'
  <1> SUFFICES ASSUME EntryInv, [Next]_vars PROVE EntryInv'
    OBVIOUS
  <1>1. TypeInv'
    BY StepTypeInv DEF EntryInv
  <1>2. /\ st \in [Runs -> RunStates] /\ attempts \in Nat /\ admins \in Nat
        /\ attempts' \in Nat
    BY <1>1 DEF EntryInv, TypeInv, TypeOK
  <1>3. CASE \E r \in Runs, x \in Executors :
                \/ \E given \in BOOLEAN, a \in Args : Invoke(r, x, given, a)
                \/ Recover(r, x)
                \/ Resume(r, x)
    BY <1>1, <1>3, StartEntryInv DEF EntryInv
  <1>4. CASE \E r \in Runs : StartStep(r)
    BY <1>1, <1>4, StartEntryInv DEF EntryInv
  <1>5. CASE \E r \in Runs : TxnStep(r) \/ OpStep(r) \/ EndStep(r)
    <2>1. PICK r \in Runs :
             /\ UNCHANGED <<arg, wfInputs, attempts, rcv, admins>>
             /\ st[r] \in Executing /\ st'[r] \in Executing \cup {"done"}
             /\ \A q \in Runs : q # r => st'[q] = st[q] /\ pc'[q] = pc[q]
             /\ wfStatus # "NONE" => wfStatus' # "NONE"
      BY <1>5, ExecutingSteps DEF EntryInv
    <2>2. InputsInv'
      BY <2>1 DEF EntryInv, InputsInv, Executing
    <2>3. Admitted' \subseteq Admitted
      BY <2>1 DEF Admitted
    <2>4. AttemptsInv'
      BY <1>1, <1>2, <2>1, <2>3, NoneAdmitted DEF EntryInv, AttemptsInv, Executing
    <2> QED
      BY <1>1, <2>2, <2>4 DEF EntryInv
  <1>6. CASE \/ \E x \in Executors : FlushStep(x) \/ Crash(x) \/ Restart(x)
             \/ Cancel
             \/ UNCHANGED vars
    <2>1. /\ UNCHANGED <<arg, wfInputs, attempts, rcv, pc>>
          /\ admins' = admins \/ admins' = admins + 1
          /\ \A q \in Runs : st'[q] = st[q] \/ st'[q] = "crashed"
          /\ wfStatus # "NONE" => wfStatus' # "NONE"
      <3>1. CASE \E x \in Executors : FlushStep(x)
        BY <3>1 DEF FlushStep, FlushTake, FlushResults, FlushStatus, FlushFrame, runVars, bounds
      <3>2. CASE \E x \in Executors : Crash(x) \/ Restart(x)
        BY <1>2, <3>2 DEF Crash, Restart, dbVars, runVars, bounds
      <3>3. CASE Cancel \/ UNCHANGED vars
        BY <3>3 DEF Cancel, vars, dbVars, runVars, bounds
      <3> QED
        BY <1>6, <3>1, <3>2, <3>3
    <2>2. InputsInv'
      BY <2>1 DEF EntryInv, InputsInv, Executing
    <2>3. Admitted' \subseteq Admitted
      BY <2>1 DEF Admitted, Executing
    <2>4. AttemptsInv'
      BY <1>1, <1>2, <2>1, <2>3, NoneAdmitted DEF EntryInv, AttemptsInv
    <2> QED
      BY <1>1, <2>2, <2>4 DEF EntryInv
  <1> QED
    BY <1>3, <1>4, <1>5, <1>6 DEF Next, RunStep

\* All executions of a UUID run with the arguments that initWorkflowStatus recorded
\* first, whoever invokes or recovers it, and whatever arguments a caller passes.
THEOREM ArgumentsShared == Spec => []SharedInputs
  <1>1. EntryInv => SharedInputs
    BY DEF EntryInv, TypeInv, TypeOK, InputsInv, SharedInputs, Executing, RunStates, Ended
  <1> QED
    BY InitEntryInv, StepEntryInv, <1>1, PTL DEF Spec

\* Without a resume command, fewer than maxRecoveryAttempts recoveries get past
\* the first operation, however many crash and however many run concurrently.
THEOREM RecoveryGivesUp == Spec => []RecoveriesBounded
  <1>1. EntryInv => RecoveriesBounded
    <2> SUFFICES ASSUME EntryInv, admins = 0
                 PROVE  Cardinality({r \in Runs : rcv[r] /\ pc[r] > 1}) < MaxAttempts
      BY DEF RecoveriesBounded
    <2> DEFINE Past == {r \in Runs : rcv[r] /\ pc[r] > 1}
    <2>1. IsFiniteSet(Admitted) /\ Cardinality(Admitted) < MaxAttempts
      BY DEF EntryInv, AttemptsInv
    <2>2. Past \subseteq Admitted
      BY DEF Admitted
    <2>3. IsFiniteSet(Past) /\ Cardinality(Past) <= Cardinality(Admitted)
      BY <2>1, <2>2, FS_Subset
    <2>4. Cardinality(Past) \in Nat /\ Cardinality(Admitted) \in Nat
      BY <2>1, <2>3, FS_CardinalityType
    <2> HIDE DEF Past
    <2>5. Cardinality(Past) < MaxAttempts
      BY <2>1, <2>3, <2>4, ConstantsAssumption
    <2> QED
      BY <2>5 DEF Past
  <1> QED
    BY InitEntryInv, StepEntryInv, <1>1, PTL DEF Spec

=============================================================================
