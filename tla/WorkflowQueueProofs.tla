------------------------ MODULE WorkflowQueueProofs ------------------------
(***************************************************************************)
(* What holds of a workflow queue for any number of processes, workflows,  *)
(* calls and crashes: no workflow is claimed twice, and no loop meets a    *)
(* row it cannot execute.                                                  *)
(*                                                                         *)
(* The claim is safe because of two facts that hold together.  A workflow  *)
(* that still has status NONE or ENQUEUED was never claimed (Unclaimed);   *)
(* and what an open transaction believes to be ENQUEUED still is, unless   *)
(* the row was written since and the transaction can no longer commit      *)
(* (Fresh).                                                                *)
(***************************************************************************)
EXTENDS WorkflowQueue, TLAPS

PcStates == {"down", "recover", "sleep", "begin", "mark", "collect", "start"}
CallStates == {"none", "inputs", "enqueue", "insert"}
TxnFields == {"picked", "waiting", "recent", "dirty"}

\* The types the argument needs: of transactions only their fields, sequences not
\* at all.
Types ==
    /\ status \in [Workflows -> Statuses]
    /\ inputs \in [Workflows -> BOOLEAN]
    /\ rows \in [Workflows -> QueueRows \cup {NoRow}]
    /\ clock \in Nat
    /\ pc \in [Executors -> PcStates]
    /\ now \in [Executors -> Nat]
    /\ txn = [e \in Executors |-> txn[e]]
    /\ \A e \in Executors : txn[e] = [f \in TxnFields |-> txn[e][f]]
    /\ calls \in [Executors -> [Workflows -> CallStates]]
    /\ insertAt \in [Executors -> [Workflows -> Nat]]
    /\ claims \in [Workflows -> Nat]

\* A workflow that waits to be claimed has not been.
Unclaimed ==
    \A w \in Workflows : status[w] \in {"NONE", "ENQUEUED"} => claims[w] = 0

\* What a transaction saw as ENQUEUED is ENQUEUED, or was written since.
Fresh ==
    \A e \in Executors : pc[e] = "mark" =>
        \A w \in txn[e].waiting :
            w \in Workflows /\ (w \in txn[e].dirty \/ status[w] = "ENQUEUED")

\* A startWorkflow call has recorded what the statements behind it record.
CallsRecorded ==
    \A e \in Executors, w \in Workflows :
        /\ calls[e][w] # "none" => status[w] # "NONE"
        /\ calls[e][w] \in {"enqueue", "insert"} => inputs[w]

Inv ==
    /\ Types
    /\ Unclaimed
    /\ Fresh
    /\ CallsRecorded
    /\ ClaimedOnce
    /\ RowsHaveInputs

\* The invariant holds when the database is empty.
LEMMA InitInv == Init => Inv
  <1> SUFFICES ASSUME Init PROVE Inv
    OBVIOUS
  <1>1. Types
    BY DEF Init, Types, Statuses, QueueRows, PcStates, CallStates, TxnFields, NoTxn
  <1>2. Unclaimed /\ ClaimedOnce /\ RowsHaveInputs
    BY DEF Init, Unclaimed, ClaimedOnce, RowsHaveInputs
  <1>3. Fresh /\ CallsRecorded
    BY DEF Init, Fresh, CallsRecorded
  <1> QED
    BY <1>1, <1>2, <1>3 DEF Inv

\* Writing status rows marks them in the open transactions and changes nothing else
\* about those.
LEMMA TouchedFacts ==
    ASSUME Types, NEW ws
    PROVE  /\ Touched(ws) = [e \in Executors |-> Touched(ws)[e]]
           /\ \A e \in Executors :
                 /\ Touched(ws)[e] = [f \in TxnFields |-> Touched(ws)[e][f]]
                 /\ Touched(ws)[e].waiting = txn[e].waiting
                 /\ pc[e] = "mark" =>
                       Touched(ws)[e].dirty = txn[e].dirty \cup (ws \cap txn[e].waiting)
  <1>1. Touched(ws) = [e \in Executors |-> Touched(ws)[e]]
    BY DEF Touched
  <1>2. ASSUME NEW e \in Executors
        PROVE  /\ Touched(ws)[e] = [f \in TxnFields |-> Touched(ws)[e][f]]
               /\ Touched(ws)[e].waiting = txn[e].waiting
               /\ pc[e] = "mark" =>
                     Touched(ws)[e].dirty = txn[e].dirty \cup (ws \cap txn[e].waiting)
    <2>1. txn[e] = [f \in TxnFields |-> txn[e][f]]
      BY <1>2 DEF Types
    <2>2. CASE pc[e] = "mark"
      <3>1. Touched(ws)[e] = [txn[e] EXCEPT !.dirty = @ \cup (ws \cap txn[e].waiting)]
        BY <1>2, <2>2 DEF Touched
      <3> QED
        BY <2>1, <3>1 DEF TxnFields
    <2>3. CASE pc[e] # "mark"
      <3>1. Touched(ws)[e] = txn[e]
        BY <1>2, <2>3 DEF Touched
      <3> QED
        BY <2>1, <2>3, <3>1
    <2> QED
      BY <2>2, <2>3
  <1> QED
    BY <1>1, <1>2

\* The same of a step that writes the status of w and leaves the loops where they are.
TxnAfter(w) ==
    /\ txn' = [e \in Executors |-> txn'[e]]
    /\ \A e \in Executors :
          /\ txn'[e] = [f \in TxnFields |-> txn'[e][f]]
          /\ txn'[e].waiting = txn[e].waiting
          /\ pc[e] = "mark" =>
                txn'[e].dirty = txn[e].dirty \cup ({w} \cap txn[e].waiting)

\* Such a step leaves the transactions as TxnAfter says.
LEMMA TouchedAfter ==
    ASSUME Types, NEW w, txn' = Touched({w})
    PROVE  TxnAfter(w)
  <1> DEFINE ws == {w}
  <1>1. /\ Touched(ws) = [e \in Executors |-> Touched(ws)[e]]
        /\ \A e \in Executors :
              /\ Touched(ws)[e] = [f \in TxnFields |-> Touched(ws)[e][f]]
              /\ Touched(ws)[e].waiting = txn[e].waiting
              /\ pc[e] = "mark" =>
                    Touched(ws)[e].dirty = txn[e].dirty \cup (ws \cap txn[e].waiting)
    BY TouchedFacts
  <1> QED
    BY <1>1 DEF TxnAfter

\* What a step other than Snapshot and Mark does: nothing is claimed, nothing goes
\* back to waiting, and every status it changes is marked in the open transactions.
QuietRows ==
    /\ claims' = claims
    /\ \A w \in Workflows :
          /\ status'[w] = "NONE" => status[w] = "NONE"
          /\ status'[w] = "ENQUEUED" => status[w] \in {"NONE", "ENQUEUED"}
          /\ inputs[w] => inputs'[w]
          /\ rows'[w] # NoRow /\ rows[w] = NoRow => status'[w] # "NONE" /\ inputs'[w]

QuietLoops ==
    \A e \in Executors : pc'[e] = "mark" =>
        /\ pc[e] = "mark" /\ txn'[e].waiting = txn[e].waiting
        /\ txn[e].dirty \subseteq txn'[e].dirty
        /\ \A w \in txn[e].waiting : w \in txn'[e].dirty \/ status'[w] = status[w]

Quiet == QuietRows /\ QuietLoops

\* Writing one status row, with the loops where they were or one of them gone.
LEMMA WriteQuiet ==
    ASSUME Inv, NEW w, TxnAfter(w),
           \A v \in Workflows : v # w => status'[v] = status[v],
           \A e \in Executors : pc'[e] = "mark" => pc[e] = "mark"
    PROVE  QuietLoops
  BY DEF Inv, Fresh, QuietLoops, TxnAfter

\* Such a step preserves the invariant.
LEMMA QuietInv ==
    ASSUME Inv, Types', CallsRecorded', Quiet
    PROVE  Inv'
  <1>1. Unclaimed' /\ ClaimedOnce'
    BY DEF Inv, Quiet, QuietRows, Unclaimed, ClaimedOnce
  <1>2. RowsHaveInputs'
    BY DEF Inv, Quiet, QuietRows, RowsHaveInputs
  <1>3. Fresh'
    BY DEF Inv, Quiet, QuietLoops, Fresh
  <1> QED
    BY <1>1, <1>2, <1>3 DEF Inv

\* The statements of startWorkflow preserve the invariant.
LEMMA CallInv ==
    ASSUME Inv, NEW e \in Executors, NEW w \in Workflows, Call(e, w)
    PROVE  Inv'
  <1> USE DEF Inv
  <1>1. CASE InitStatus(e, w)
    <2>0. TxnAfter(w)
      BY <1>1, TouchedAfter DEF InitStatus
    <2>1. Types'
      BY <1>1, <2>0
      DEF InitStatus, TxnAfter, Types, StatusAfterInit, Statuses, CallStates, history
    <2>2. CallsRecorded'
      BY <1>1 DEF InitStatus, CallsRecorded, Types, StatusAfterInit
    <2>3. QuietRows
      BY <1>1 DEF InitStatus, QuietRows, Types, StatusAfterInit, history
    <2>4. QuietLoops
      BY <1>1, <2>0, WriteQuiet DEF InitStatus, Types
    <2> QED
      BY <2>1, <2>2, <2>3, <2>4, QuietInv DEF Quiet
  <1>2. CASE InitInputs(e, w)
    <2>1. Types' /\ CallsRecorded'
      BY <1>2 DEF InitInputs, Types, CallsRecorded, CallStates, loopVars, history
    <2>2. Quiet
      BY <1>2 DEF InitInputs, Quiet, QuietRows, QuietLoops, Types, loopVars, history
    <2> QED
      BY <2>1, <2>2, QuietInv
  <1>3. CASE InsertBegin(e, w)
    <2>1. Types' /\ CallsRecorded'
      BY <1>3 DEF InsertBegin, Types, CallsRecorded, CallStates, dbVars, loopVars, history
    <2>2. Quiet
      BY <1>3 DEF InsertBegin, Quiet, QuietRows, QuietLoops, Types, dbVars, loopVars, history
    <2> QED
      BY <2>1, <2>2, QuietInv
  <1>4. CASE InsertCommit(e, w)
    <2>1. Types'
      BY <1>4 DEF InsertCommit, Types, QueueRow, QueueRows, CallStates, loopVars, history
    <2>2. CallsRecorded'
      BY <1>4 DEF InsertCommit, Types, CallsRecorded, loopVars
    <2>3. Quiet
      BY <1>4 DEF InsertCommit, Quiet, QuietRows, QuietLoops, Types, CallsRecorded, loopVars, history
    <2> QED
      BY <2>1, <2>2, <2>3, QuietInv
  <1> QED
    BY <1>1, <1>2, <1>3, <1>4 DEF Call

\* A step that leaves the database and the calls alone and ends no loop's sleep
\* with an open transaction.
LEMMA IdleInv ==
    ASSUME Inv, UNCHANGED <<status, inputs, rows, calls, insertAt, claims>>,
           clock' \in Nat, now' \in [Executors -> Nat], pc' \in [Executors -> PcStates],
           txn' = txn, \A e \in Executors : pc'[e] = "mark" => pc[e] = "mark"
    PROVE  Inv'
  <1>1. Types' /\ CallsRecorded'
    BY DEF Inv, Types, CallsRecorded
  <1>2. QuietRows /\ QuietLoops
    BY DEF QuietRows, QuietLoops
  <1> QED
    BY <1>1, <1>2, QuietInv DEF Quiet

\* A process that goes down leaves the invariant to the others.
LEMMA LostInv ==
    ASSUME Inv, NEW e \in Executors, Lost(e), UNCHANGED <<inputs, rows, clock, claims>>,
           status' \in [Workflows -> Statuses],
           \/ status' = status
           \/ \E w \in Workflows : /\ status' = [status EXCEPT ![w] = status'[w]]
                                  /\ status[w] = "PENDING" /\ status'[w] # "NONE"
                                  /\ status'[w] # "ENQUEUED"
    PROVE  Inv'
  <1>1. Types'
    BY DEF Inv, Types, Lost, PcStates, CallStates, TxnFields, NoTxn
  <1>2. CallsRecorded'
    BY DEF Inv, Types, CallsRecorded, Lost
  <1>3. QuietRows
    BY DEF Inv, Types, QuietRows
  <1>4. QuietLoops
    BY DEF Inv, Types, QuietLoops, Lost, Fresh
  <1> QED
    BY <1>1, <1>2, <1>3, <1>4, QuietInv DEF Quiet

\* A step that writes the status of one claimed or ended workflow, or only touches
\* its row, and leaves the calls alone.
LEMMA WriteInv ==
    ASSUME Inv, NEW w \in Workflows, TxnAfter(w),
           UNCHANGED <<inputs, rows, clock, pc, now, calls, insertAt, claims>>,
           \/ status' = status
           \/ \E x \in Statuses \ {"NONE", "ENQUEUED"} : status' = [status EXCEPT ![w] = x]
    PROVE  Inv'
  <1>1. Types'
    BY DEF Inv, Types, TxnAfter
  <1>2. CallsRecorded'
    BY DEF Inv, Types, CallsRecorded
  <1>3. QuietRows
    BY DEF Inv, Types, QuietRows
  <1>4. QuietLoops
    BY WriteQuiet DEF Inv, Types
  <1> QED
    BY <1>1, <1>2, <1>3, <1>4, QuietInv DEF Quiet

\* Releasing or collecting rows preserves the invariant.
LEMMA RowsInv ==
    ASSUME Inv, UNCHANGED <<status, inputs, clock, txn, calls, insertAt, claims>>,
           rows' \in [Workflows -> QueueRows \cup {NoRow}],
           \A w \in Workflows : rows[w] = NoRow => rows'[w] = NoRow,
           now' \in [Executors -> Nat], pc' \in [Executors -> PcStates],
           \A e \in Executors : pc'[e] = "mark" => pc[e] = "mark"
    PROVE  Inv'
  <1>1. Types' /\ CallsRecorded'
    BY DEF Inv, Types, CallsRecorded
  <1>2. QuietRows /\ QuietLoops
    BY DEF QuietRows, QuietLoops
  <1> QED
    BY <1>1, <1>2, QuietInv DEF Quiet

\* The claiming transaction: what it reads is fresh.
LEMMA SnapshotInv ==
    ASSUME Inv, NEW e \in Executors, Snapshot(e)
    PROVE  Inv'
  <1>1. PICK p, n : txn' = [txn EXCEPT ![e] =
                        [picked |-> p, recent |-> n, dirty |-> {},
                         waiting |-> {w \in Workflows : status[w] = "ENQUEUED"}]]
    BY DEF Snapshot
  <1>2. /\ txn' = [x \in Executors |-> txn'[x]]
        /\ \A x \in Executors : txn'[x] = [f \in TxnFields |-> txn'[x][f]]
    BY <1>1 DEF Inv, Types, TxnFields
  <1>3. Types'
    BY <1>2 DEF Inv, Types, Snapshot, PcStates, dbVars, callVars, history
  <1>4. Fresh'
    BY <1>1 DEF Inv, Types, Fresh, Snapshot, dbVars
  <1>5. CallsRecorded' /\ Unclaimed' /\ ClaimedOnce' /\ RowsHaveInputs'
    BY DEF Inv, Snapshot, CallsRecorded, Unclaimed, ClaimedOnce, RowsHaveInputs, dbVars,
           callVars, history
  <1> QED
    BY <1>3, <1>4, <1>5 DEF Inv

\* The claiming transaction: what it claims was never claimed before, and the other
\* open transactions are told.
LEMMA MarkInv ==
    ASSUME Inv, NEW e \in Executors, Mark(e)
    PROVE  Inv'
  <1> DEFINE won == Won(e)
  <1>1. won \subseteq Workflows /\ \A w \in won : status[w] = "ENQUEUED"
    BY DEF Inv, Fresh, Mark, Won
  <1>2. /\ claims' = [w \in Workflows |-> IF w \in won THEN claims[w] + 1 ELSE claims[w]]
        /\ status' = [w \in Workflows |-> IF w \in won THEN "PENDING" ELSE status[w]]
        /\ txn' = [Touched(won) EXCEPT ![e] = NoTxn]
        /\ rows' = [w \in Workflows |->
                        IF w \in won /\ rows[w] # NoRow
                        THEN [rows[w] EXCEPT !.started = now[e]] ELSE rows[w]]
        /\ pc' = [pc EXCEPT ![e] = IF Limited THEN "collect" ELSE "start"]
        /\ now' = [now EXCEPT ![e] = IF Limited THEN @ ELSE 0]
        /\ UNCHANGED <<inputs, clock, calls, insertAt>>
    BY DEF Mark, callVars
  <1>3. /\ Touched(won) = [x \in Executors |-> Touched(won)[x]]
        /\ \A x \in Executors :
              /\ Touched(won)[x] = [f \in TxnFields |-> Touched(won)[x][f]]
              /\ Touched(won)[x].waiting = txn[x].waiting
              /\ pc[x] = "mark" =>
                    Touched(won)[x].dirty = txn[x].dirty \cup (won \cap txn[x].waiting)
    BY TouchedFacts DEF Inv
  <1> HIDE DEF won
  <1>4. /\ txn' = [x \in Executors |-> txn'[x]]
        /\ \A x \in Executors : txn'[x] = [f \in TxnFields |-> txn'[x][f]]
    BY <1>2, <1>3 DEF TxnFields, NoTxn
  <1>5. rows' \in [Workflows -> QueueRows \cup {NoRow}]
    BY <1>2 DEF Inv, Types, QueueRows
  <1>6. Types'
    BY <1>2, <1>4, <1>5 DEF Inv, Types, Statuses, PcStates
  <1>7. Unclaimed' /\ ClaimedOnce'
    BY <1>1, <1>2 DEF Inv, Types, Unclaimed, ClaimedOnce
  <1>8. Fresh'
    <2> SUFFICES ASSUME NEW x \in Executors, pc'[x] = "mark", NEW w \in txn'[x].waiting
                 PROVE  w \in Workflows /\ (w \in txn'[x].dirty \/ status'[w] = "ENQUEUED")
      BY DEF Fresh
    <2>1. x # e /\ pc[x] = "mark"
      BY <1>2 DEF Inv, Types
    <2>2. txn'[x] = Touched(won)[x]
      BY <1>2, <1>3, <2>1
    <2> QED
      BY <1>2, <1>3, <2>1, <2>2 DEF Inv, Fresh
  <1>9. CallsRecorded' /\ RowsHaveInputs'
    BY <1>1, <1>2 DEF Inv, Types, CallsRecorded, RowsHaveInputs
  <1> QED
    BY <1>6, <1>7, <1>8, <1>9 DEF Inv

\* The dispatch loop preserves the invariant.
LEMMA DispatchInv ==
    ASSUME Inv, NEW e \in Executors, Dispatch(e)
    PROVE  Inv'
  <1>1. CASE Wake(e)
    BY <1>1, IdleInv DEF Wake, Inv, Types, PcStates, dbVars, callVars, history
  <1>2. CASE Snapshot(e)
    BY <1>2, SnapshotInv
  <1>3. CASE Mark(e)
    BY <1>3, MarkInv
  <1>4. CASE MarkFails(e)
    BY <1>4, LostInv DEF MarkFails, Inv, Types, dbVars, history
  <1>5. CASE Collect(e)
    BY <1>5, RowsInv DEF Collect, Inv, Types, PcStates, callVars, history
  <1>6. CASE StartClaimed(e)
    <2>1. txn' = Touched({Head(claimed[e])})
      BY <1>6 DEF StartClaimed, Begins
    <2>2. TxnAfter(Head(claimed[e]))
      BY <2>1, TouchedAfter DEF Inv
    <2>3. Types' /\ CallsRecorded'
      BY <1>6, <2>2 DEF StartClaimed, Inv, Types, CallsRecorded, TxnAfter, callVars, history
    <2>4. QuietRows
      BY <1>6 DEF StartClaimed, QuietRows, history
    <2>5. QuietLoops
      BY <1>6, <2>2, WriteQuiet DEF StartClaimed
    <2> QED
      BY <2>3, <2>4, <2>5, QuietInv DEF Quiet
  <1>7. CASE Sleep(e)
    BY <1>7, IdleInv DEF Sleep, Inv, Types, PcStates, dbVars, callVars, history
  <1> QED
    BY <1>1, <1>2, <1>3, <1>4, <1>5, <1>6, <1>7 DEF Dispatch

\* Executions preserve the invariant.
LEMMA ExecuteInv ==
    ASSUME Inv, NEW e \in Executors, NEW w \in Workflows, Execute(e, w) \/ Conflict(e, w)
    PROVE  Inv'
  <1>0. Types
    BY DEF Inv
  <1>1. CASE DeadLetter(e, w)
    <2>1. status' = [status EXCEPT ![w] = DeadLetterStatus(w)]
      BY <1>1 DEF DeadLetter
    <2>2. \/ status' = status
          \/ /\ status[w] = "PENDING"
             /\ status' = [status EXCEPT ![w] = "RETRIES_EXCEEDED"]
      BY <1>0, <2>1 DEF DeadLetterStatus, Types
    <2>3. CASE pc[e] = "start"
      BY <1>0, <1>1, <2>2, <2>3, LostInv DEF DeadLetter, Types, Statuses, history
    <2>4. CASE pc[e] = "recover"
      <3>1. TxnAfter(w)
        BY <1>0, <1>1, <2>4, TouchedAfter DEF DeadLetter
      <3> QED
        BY <1>1, <2>2, <2>4, <3>1, WriteInv DEF DeadLetter, Statuses, history
    <2> QED
      BY <1>1, <2>3, <2>4 DEF DeadLetter
  <1>2. CASE Succeed(e, w) \/ Fail(e, w)
    <2>1. rows' = Dequeued(w)
      BY <1>2 DEF Succeed, Fail
    <2>2. rows' \in [Workflows -> QueueRows \cup {NoRow}]
      BY ZenonT(30), <1>0, <2>1 DEF Dequeued, Types, QueueRows
    <2>3. \A v \in Workflows : rows[v] = NoRow => rows'[v] = NoRow
      BY <1>0, <2>1 DEF Dequeued, Types
    <2> QED
      BY <1>0, <1>2, <2>2, <2>3, RowsInv
      DEF Succeed, Fail, Types, loopVars, callVars, history
  <1>3. CASE FlushStatus(e, w)
    <2>1. TxnAfter(w)
      BY <1>0, <1>3, TouchedAfter DEF FlushStatus
    <2> QED
      BY <1>3, <2>1, WriteInv DEF FlushStatus, Statuses, callVars, history
  <1>4. CASE RecordError(e, w)
    <2>1. TxnAfter(w)
      BY <1>0, <1>4, TouchedAfter DEF RecordError
    <2> QED
      BY <1>4, <2>1, WriteInv DEF RecordError, Statuses, callVars, history
  <1>5. CASE PollReturns(e, w) \/ Conflict(e, w)
    BY <1>0, <1>5, IdleInv
    DEF PollReturns, Conflict, Types, dbVars, loopVars, callVars, history
  <1> QED
    BY <1>1, <1>2, <1>3, <1>4, <1>5 DEF Execute

\* Start-up, crashes, cancel commands and the clock preserve the invariant.
LEMMA ProcessInv ==
    ASSUME Inv, \/ \E e \in Executors : StartUp(e) \/ Crash(e)
                \/ \E w \in Workflows : Cancel(w)
                \/ Tick
    PROVE  Inv'
  <1>0. Types
    BY DEF Inv
  <1>1. CASE \E e \in Executors : Restart(e) \/ Recovered(e)
    BY <1>0, <1>1, IdleInv
    DEF Restart, Recovered, Types, PcStates, dbVars, callVars, history
  <1>2. CASE \E e \in Executors, w \in Workflows : Recover(e, w)
    <2>1. PICK e \in Executors, w \in Workflows : Recover(e, w)
      BY <1>2
    <2>2. TxnAfter(w)
      BY <1>0, <2>1, TouchedAfter DEF Recover, Begins
    <2> QED
      BY <2>1, <2>2, WriteInv DEF Recover, callVars, history
  <1>3. CASE \E e \in Executors : Crash(e)
    BY <1>0, <1>3, LostInv DEF Crash, Types, dbVars, history
  <1>4. CASE \E w \in Workflows : Cancel(w)
    <2>1. PICK w \in Workflows : Cancel(w)
      BY <1>4
    <2>2. TxnAfter(w)
      BY <1>0, <2>1, TouchedAfter DEF Cancel
    <2> QED
      BY <2>1, <2>2, WriteInv DEF Cancel, Statuses, callVars, history
  <1>5. CASE Tick
    BY <1>0, <1>5, IdleInv DEF Tick, Types, dbVars, loopVars, callVars, history
  <1> QED
    BY <1>1, <1>2, <1>3, <1>4, <1>5 DEF StartUp

\* Every step preserves the invariant.
LEMMA StepInv == Inv /\ [Next]_vars => Inv'
  <1> SUFFICES ASSUME Inv, [Next]_vars PROVE Inv'
    OBVIOUS
  <1>1. CASE \E e \in Executors, w \in Workflows : Call(e, w) \/ Execute(e, w) \/ Conflict(e, w)
    BY <1>1, CallInv, ExecuteInv
  <1>2. CASE \E e \in Executors : Dispatch(e)
    BY <1>2, DispatchInv
  <1>3. CASE \/ \E e \in Executors : StartUp(e) \/ Crash(e)
             \/ \E w \in Workflows : Cancel(w)
             \/ Tick
    BY <1>3, ProcessInv
  <1>4. CASE UNCHANGED vars
    BY <1>4, IdleInv
    DEF Inv, Types, vars, dbVars, loopVars, callVars, history
  <1> QED
    BY <1>1, <1>2, <1>3, <1>4 DEF Next

\* The inductive invariant holds throughout.
THEOREM Invariant == Spec => []Inv
  <1> QED
    BY InitInv, StepInv, PTL DEF Spec

\* findAndMarkStartableWorkflows claims a workflow at most once, for any number of
\* dispatch loops, crashes, repeated calls and cancel commands, with or without
\* limits and whatever the times of the rows.
THEOREM ClaimedAtMostOnce == Spec => []ClaimedOnce
  <1>1. Inv => ClaimedOnce
    BY DEF Inv
  <1> QED
    BY <1>1, Invariant, PTL

\* A row in workflow_queue always has its status and inputs recorded: the dispatch
\* loop never dies of executeWorkflowUUID not finding them.
THEOREM RowsExecutable == Spec => []RowsHaveInputs
  <1>1. Inv => RowsHaveInputs
    BY DEF Inv
  <1> QED
    BY <1>1, Invariant, PTL

=============================================================================
