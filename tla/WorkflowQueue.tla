--------------------------- MODULE WorkflowQueue ---------------------------
(***************************************************************************)
(* One workflow queue, from src/wfqueue.ts and the queue operations of     *)
(* src/system_database.ts and src/dbos-executor.ts.                        *)
(*                                                                         *)
(* A workflow started on a queue is not run by its caller: the caller      *)
(* writes its status (ENQUEUED), its inputs and a row of workflow_queue,   *)
(* in three statements.  Every executor process has a dispatch loop that   *)
(* claims rows in a repeatable-read transaction, marks them started and    *)
(* then executes the workflows it claimed through the recovery path.  A    *)
(* workflow that ends gives its row back.                                  *)
(*                                                                         *)
(* The workflow function is abstracted to how it ends; DurableWorkflow     *)
(* models what happens inside it.                                          *)
(***************************************************************************)
EXTENDS Integers, Sequences, FiniteSets

CONSTANTS
    Executors,      \* executor processes, each with a dispatch loop
    Workflows,      \* workflow UUIDs
    Id,             \* Id[e]: executor ID of process e ("local", or its VM)
    Concurrency,    \* concurrency of the queue, |Workflows| for "no limit"
    Limited,        \* TRUE: the queue has a rateLimit
    Limit,          \* rateLimit.limitPerPeriod
    Period,         \* rateLimit.periodSec, in ticks of the clock
    MaxAttempts,    \* maxRecoveryAttempts of the workflows
    NoRow,          \* "no row in workflow_queue"
    MaxDispatch,    \* bound: ticks between reading the clock and committing
    MaxTime,        \* bound: the clock
    MaxCalls,       \* bound: startWorkflow calls per workflow UUID
    MaxCrashes,     \* bound: crashes
    MaxCancels      \* bound: cancel commands

ASSUME ConstantsAssumption ==
    /\ IsFiniteSet(Workflows)
    /\ Concurrency \in Nat \ {0} /\ MaxAttempts \in Nat \ {0}
    /\ Limited \in BOOLEAN /\ Limit \in Nat \ {0} /\ Period \in Nat \ {0}
    /\ MaxDispatch \in Nat
    /\ MaxTime \in Nat \ {0} /\ MaxCalls \in Nat
    /\ MaxCrashes \in Nat /\ MaxCancels \in Nat
    /\ NoRow \notin [created : Nat, started : Nat, completed : BOOLEAN]

VARIABLES
    \* System database.
    status,     \* workflow_status.status, "NONE" when there is no row
    owner,      \* workflow_status.executor_id
    inputs,     \* workflow_inputs has a row
    attempts,   \* workflow_status.recovery_attempts
    rows,       \* workflow_queue; 0 stands for NULL in started_at_epoch_ms
    clock,
    \* Executor processes.
    pc,         \* pc[e]: where process e's start-up or dispatch loop is
    now,        \* now[e]: startTimeMs
    txn,        \* txn[e]: what the claiming transaction has read
    claimed,    \* claimed[e]: claimed, not yet executed
    todo,       \* todo[e]: pending workflows found by recovery, not yet executed
    runs,       \* runs[e][w]: the execution of w in process e
    calls,      \* calls[e][w]: the startWorkflow call for w in process e
    insertAt,   \* insertAt[e][w]: now() in that call's INSERT into workflow_queue
    \* What happened so far.
    claims,     \* claims[w]: how often w was claimed
    startTime,  \* startTime[w]: when its claim was committed, with a rate limit
    inOrder,    \* every row that appeared in workflow_queue was newer than those there
    called, crashes, cancels

dbVars   == <<status, owner, inputs, attempts, rows>>
loopVars == <<pc, now, txn, claimed, todo>>
callVars == <<calls, insertAt>>
history  == <<claims, startTime, inOrder>>
bounds   == <<called, crashes, cancels>>
vars     == <<dbVars, clock, loopVars, runs, callVars, history, bounds>>

Statuses == {"NONE", "ENQUEUED", "PENDING", "SUCCESS", "ERROR",
             "RETRIES_EXCEEDED", "CANCELLED"}

Final == {"SUCCESS", "ERROR", "RETRIES_EXCEEDED", "CANCELLED"}

QueueRows == [created : Nat, started : Nat, completed : BOOLEAN]

RunStates ==
    {"none",
     "exceeded",   \* too many attempts, about to be dead-lettered
     "running",    \* in the workflow function
     "failed",     \* it threw, the row is released, the error not yet recorded
     "buffered",   \* it returned, the row is released, SUCCESS in the buffer
     "polling"}    \* lost to another execution, polls for its result

\* No transaction is open.
NoTxn == [picked |-> <<>>, waiting |-> {}, recent |-> 0, dirty |-> {}]

TypeOK ==
    /\ status \in [Workflows -> Statuses]
    /\ owner \in [Workflows -> {Id[e] : e \in Executors} \cup {NoRow}]
    /\ inputs \in [Workflows -> BOOLEAN]
    /\ attempts \in [Workflows -> Nat]
    /\ rows \in [Workflows -> QueueRows \cup {NoRow}]
    /\ clock \in Nat
    /\ pc \in [Executors -> {"down", "recover", "sleep", "begin", "mark", "collect", "start"}]
    /\ now \in [Executors -> Nat]
    /\ txn \in [Executors -> [picked : Seq(Workflows), waiting : SUBSET Workflows,
                              recent : Nat, dirty : SUBSET Workflows]]
    /\ claimed \in [Executors -> Seq(Workflows)]
    /\ todo \in [Executors -> SUBSET Workflows]
    /\ runs \in [Executors -> [Workflows -> RunStates]]
    /\ calls \in [Executors -> [Workflows -> {"none", "inputs", "enqueue", "insert"}]]
    /\ insertAt \in [Executors -> [Workflows -> Nat]]
    /\ claims \in [Workflows -> Nat]
    /\ startTime \in [Workflows -> Nat] /\ inOrder \in BOOLEAN
    /\ called \in [Workflows -> Nat] /\ crashes \in Nat /\ cancels \in Nat

Init ==
    /\ status = [w \in Workflows |-> "NONE"]
    /\ owner = [w \in Workflows |-> NoRow]
    /\ inputs = [w \in Workflows |-> FALSE]
    /\ attempts = [w \in Workflows |-> 0]
    /\ rows = [w \in Workflows |-> NoRow]
    /\ clock = 1
    /\ pc = [e \in Executors |-> "sleep"]
    /\ now = [e \in Executors |-> 0]
    /\ txn = [e \in Executors |-> NoTxn]
    /\ claimed = [e \in Executors |-> <<>>]
    /\ todo = [e \in Executors |-> {}]
    /\ runs = [e \in Executors |-> [w \in Workflows |-> "none"]]
    /\ calls = [e \in Executors |-> [w \in Workflows |-> "none"]]
    /\ insertAt = [e \in Executors |-> [w \in Workflows |-> 0]]
    /\ claims = [w \in Workflows |-> 0]
    /\ startTime = [w \in Workflows |-> 0] /\ inOrder = TRUE
    /\ called = [w \in Workflows |-> 0] /\ crashes = 0 /\ cancels = 0

\* A process serves calls and executes workflows once its start-up is over.
Up(e) == pc[e] \notin {"down", "recover"}

\* Mutant of Touched: an isolation level that does not notice other writers.
TouchedUnnoticed(ws) == txn

\* The transactions that are open when the status rows of ws are written can no
\* longer update them (PostgreSQL reports serialization_failure).
Touched(ws) ==
    [e \in Executors |->
        IF pc[e] = "mark" THEN [txn[e] EXCEPT !.dirty = @ \cup (ws \cap txn[e].waiting)]
        ELSE txn[e]]

----------------------------------------------------------------------------
(* startWorkflow on the queue: three statements, nothing ties them.          *)

\* initWorkflowStatus, first statement: inserts the status row; when there is one
\* it is written back as it was.
StatusAfterInit(w) == IF status[w] = "NONE" THEN "ENQUEUED" ELSE status[w]

InitStatus(e, w) ==
    /\ Up(e) /\ calls[e][w] = "none" /\ called[w] < MaxCalls
    /\ called' = [called EXCEPT ![w] = @ + 1]
    /\ status' = [status EXCEPT ![w] = StatusAfterInit(w)]
    /\ owner' = [owner EXCEPT ![w] = IF status[w] = "NONE" THEN Id[e] ELSE @]
    /\ txn' = Touched({w})
    /\ calls' = [calls EXCEPT ![e][w] = "inputs"]
    /\ UNCHANGED <<inputs, attempts, rows, clock, pc, now, claimed, todo, runs,
                   insertAt, history, crashes, cancels>>

\* initWorkflowStatus, last statement: the inputs.
InitInputs(e, w) ==
    /\ calls[e][w] = "inputs"
    /\ inputs' = [inputs EXCEPT ![w] = TRUE]
    /\ calls' = [calls EXCEPT ![e][w] = "enqueue"]
    /\ UNCHANGED <<status, owner, attempts, rows, clock, loopVars, runs, insertAt,
                   history, bounds>>

\* Mutant of InsertBegin: does not wait for the inputs.
InsertBeginEarly(e, w) ==
    /\ calls[e][w] \in {"inputs", "enqueue"}
    /\ calls' = [calls EXCEPT ![e][w] = "insert"]
    /\ insertAt' = [insertAt EXCEPT ![e][w] = clock]
    /\ UNCHANGED <<dbVars, clock, loopVars, runs, history, bounds>>

\* enqueueWorkflow: the row gets the time its INSERT began (created_at_epoch_ms
\* defaults to now()) ...
InsertBegin(e, w) ==
    /\ calls[e][w] = "enqueue"
    /\ calls' = [calls EXCEPT ![e][w] = "insert"]
    /\ insertAt' = [insertAt EXCEPT ![e][w] = clock]
    /\ UNCHANGED <<dbVars, clock, loopVars, runs, history, bounds>>

\* ... and becomes visible when it commits, unless the workflow has a row.  Times are
\* in milliseconds and nothing orders the commits: a row may appear that is as old as
\* another, or older.
QueueRow(e, w) == [created |-> insertAt[e][w], started |-> 0, completed |-> FALSE]

InsertCommit(e, w) ==
    /\ calls[e][w] = "insert"
    /\ rows' = [rows EXCEPT ![w] = IF @ = NoRow THEN QueueRow(e, w) ELSE @]
    /\ calls' = [calls EXCEPT ![e][w] = "none"]
    /\ insertAt' = [insertAt EXCEPT ![e][w] = 0]
    /\ inOrder' = (inOrder /\ (rows[w] = NoRow =>
                      \A v \in Workflows : rows[v] # NoRow => rows[v].created < insertAt[e][w]))
    /\ UNCHANGED <<status, owner, inputs, attempts, clock, loopVars, runs, claims, startTime,
                   bounds>>

----------------------------------------------------------------------------
(* The dispatch loop.                                                        *)

\* The timer fires; findAndMarkStartableWorkflows reads the clock.
Wake(e) ==
    /\ pc[e] = "sleep"
    /\ pc' = [pc EXCEPT ![e] = "begin"]
    /\ now' = [now EXCEPT ![e] = clock]
    /\ UNCHANGED <<dbVars, clock, txn, claimed, todo, runs, callVars, history, bounds>>

\* Rows that count towards the concurrency limit.
Open == {w \in Workflows : rows[w] # NoRow /\ ~rows[w].completed}

\* ORDER BY created_at_epoch_ms: equal times come in any order.
Sorted(s) ==
    /\ \A i, j \in DOMAIN s : i < j => s[i] # s[j]
    /\ \A i, j \in DOMAIN s : i < j => rows[s[i]].created <= rows[s[j]].created

OldestFirst == {s \in [1 .. Cardinality(Open) -> Open] : Sorted(s)}

First(s, n) == SubSeq(s, 1, IF n < Len(s) THEN n ELSE Len(s))

\* How many workflows of the queue started within the period.
RecentlyStarted(t) ==
    Cardinality({w \in Workflows : rows[w] # NoRow /\ rows[w].started > 0
                                   /\ rows[w].started > t - Period})

OutOfBudget(n) == Limited /\ n >= Limit

\* The members of s that are in S, in the order they have there: as s repeats
\* nothing, one sequence.
Filtered(s, S) ==
    LET kept == {i \in DOMAIN s : s[i] \in S}
    IN {t \in [1 .. Cardinality(kept) -> {s[i] : i \in kept}] :
          \A i, j \in DOMAIN t : i < j => \E k, l \in kept : k < l /\ t[i] = s[k] /\ t[j] = s[l]}

Unstarted == {w \in Open : rows[w].started = 0}

\* Mutant of Startable: filters before it applies the limit.
StartableFiltered(s) == {First(t, Concurrency) : t \in Filtered(s, Unstarted)}

\* The rows the transaction will try to claim: of the oldest Concurrency ones,
\* those that have not been started.
Startable(s) == Filtered(First(s, Concurrency), Unstarted)

\* The transaction takes its snapshot and reads; repeatable read keeps it.
Snapshot(e) ==
    /\ pc[e] = "begin"
    /\ pc' = [pc EXCEPT ![e] = "mark"]
    /\ LET n == RecentlyStarted(now[e])
       IN \E s \in OldestFirst :
             \E ids \in IF OutOfBudget(n) THEN {<<>>} ELSE Startable(s) :
                txn' = [txn EXCEPT ![e] =
                          [picked  |-> ids,
                           waiting |-> {w \in Workflows : status[w] = "ENQUEUED"},
                           recent  |-> n,
                           dirty   |-> {}]]
    /\ UNCHANGED <<dbVars, clock, now, claimed, todo, runs, callVars, history, bounds>>

\* The rows the loop over workflowIDs gets to: every row it looks at, claimed or
\* not, takes one of the starts left in the period.
Reached(e) ==
    IF Limited THEN First(txn[e].picked, Limit - txn[e].recent) ELSE txn[e].picked

\* Those of them whose status is ENQUEUED, as the transaction sees it.
Won(e) == {w \in txn[e].waiting : \E i \in DOMAIN Reached(e) : Reached(e)[i] = w}

\* The claiming transaction commits.
Mark(e) ==
    /\ pc[e] = "mark"
    /\ LET won == Won(e)
       IN /\ won \cap txn[e].dirty = {}
          /\ status' = [w \in Workflows |-> IF w \in won THEN "PENDING" ELSE status[w]]
          /\ rows' = [w \in Workflows |->
                        IF w \in won /\ rows[w] # NoRow
                        THEN [rows[w] EXCEPT !.started = now[e]] ELSE rows[w]]
          /\ \E ids \in Filtered(Reached(e), won) : claimed' = [claimed EXCEPT ![e] = ids]
          /\ txn' = [Touched(won) EXCEPT ![e] = NoTxn]
          /\ claims' = [w \in Workflows |-> IF w \in won THEN claims[w] + 1 ELSE claims[w]]
          /\ startTime' = [w \in Workflows |->
                              IF Limited /\ w \in won THEN clock ELSE startTime[w]]
    /\ pc' = [pc EXCEPT ![e] = IF Limited THEN "collect" ELSE "start"]
    /\ now' = [now EXCEPT ![e] = IF Limited THEN @ ELSE 0]
    /\ UNCHANGED <<owner, inputs, attempts, clock, todo, runs, callVars, inOrder, bounds>>

\* What a process loses when it goes down.
Lost(e) ==
    /\ pc' = [pc EXCEPT ![e] = "down"]
    /\ now' = [now EXCEPT ![e] = 0]
    /\ txn' = [txn EXCEPT ![e] = NoTxn]
    /\ claimed' = [claimed EXCEPT ![e] = <<>>]
    /\ todo' = [todo EXCEPT ![e] = {}]
    /\ runs' = [runs EXCEPT ![e] = [w \in Workflows |-> "none"]]
    /\ calls' = [calls EXCEPT ![e] = [w \in Workflows |-> "none"]]
    /\ insertAt' = [insertAt EXCEPT ![e] = [w \in Workflows |-> 0]]

\* A row it wants was written since its snapshot: the transaction fails, the
\* error leaves dispatchLoop, nobody handles the rejection and the process exits.
MarkFails(e) ==
    /\ pc[e] = "mark"
    /\ Won(e) \cap txn[e].dirty # {}
    /\ Lost(e)
    /\ UNCHANGED <<dbVars, clock, history, bounds>>

\* Mutant of Collectable: does not wait for the period.
CollectableAtOnce(e, w) == rows[w] # NoRow /\ rows[w].completed

\* With a rate limit, rows stay until they no longer count.
Collectable(e, w) ==
    /\ rows[w] # NoRow /\ rows[w].completed
    /\ rows[w].started > 0 /\ rows[w].started < now[e] - Period

Collect(e) ==
    /\ pc[e] = "collect"
    /\ rows' = [w \in Workflows |-> IF Collectable(e, w) THEN NoRow ELSE rows[w]]
    /\ pc' = [pc EXCEPT ![e] = "start"]
    /\ now' = [now EXCEPT ![e] = 0]
    /\ UNCHANGED <<status, owner, inputs, attempts, clock, txn, claimed, todo, runs,
                   callVars, history, bounds>>

\* executeWorkflowUUID: it finds status and inputs, then initWorkflowStatus counts
\* the execution as a recovery.
Begins(e, w) ==
    /\ inputs[w]
    /\ attempts' = [attempts EXCEPT ![w] = @ + 1]
    /\ runs' = [runs EXCEPT ![e][w] =
                  IF attempts[w] + 1 >= MaxAttempts THEN "exceeded" ELSE "running"]
    /\ txn' = Touched({w})

StartClaimed(e) ==
    /\ pc[e] = "start" /\ claimed[e] # <<>>
    /\ \A w \in Workflows : runs[e][w] # "exceeded"
    /\ Begins(e, Head(claimed[e]))
    /\ claimed' = [claimed EXCEPT ![e] = Tail(@)]
    /\ UNCHANGED <<status, owner, inputs, rows, clock, pc, now, todo, callVars,
                   history, bounds>>

\* Nothing left to start: the loop waits for its timer again.
Sleep(e) ==
    /\ pc[e] = "start" /\ claimed[e] = <<>>
    /\ \A w \in Workflows : runs[e][w] # "exceeded"
    /\ pc' = [pc EXCEPT ![e] = "sleep"]
    /\ UNCHANGED <<dbVars, clock, now, txn, claimed, todo, runs, callVars, history, bounds>>

\* initWorkflowStatus gives the workflow up.  recoverPendingWorkflows catches the
\* error; dispatchLoop does not, and the process exits.
DeadLetterStatus(w) == IF status[w] = "PENDING" THEN "RETRIES_EXCEEDED" ELSE status[w]

DeadLetter(e, w) ==
    /\ runs[e][w] = "exceeded"
    /\ status' = [status EXCEPT ![w] = DeadLetterStatus(w)]
    /\ \/ /\ pc[e] = "recover"
          /\ runs' = [runs EXCEPT ![e][w] = "none"]
          /\ txn' = Touched({w})
          /\ UNCHANGED <<pc, now, claimed, todo, calls, insertAt>>
       \/ /\ pc[e] = "start"
          /\ Lost(e)
    /\ UNCHANGED <<owner, inputs, attempts, rows, clock, history, bounds>>

----------------------------------------------------------------------------
(* Executions.                                                               *)

\* dequeueWorkflow: with a rate limit the row is kept and marked completed.
Dequeued(w) ==
    [rows EXCEPT ![w] = IF @ = NoRow \/ ~Limited THEN NoRow
                        ELSE [@ EXCEPT !.completed = TRUE]]

\* The function returns: the row is released, the status only buffered.
Succeed(e, w) ==
    /\ runs[e][w] = "running"
    /\ rows' = Dequeued(w)
    /\ runs' = [runs EXCEPT ![e][w] = "buffered"]
    /\ UNCHANGED <<status, owner, inputs, attempts, clock, loopVars, callVars, history, bounds>>

\* The periodic flush writes the buffered status.
FlushStatus(e, w) ==
    /\ runs[e][w] = "buffered"
    /\ status' = [status EXCEPT ![w] = "SUCCESS"]
    /\ txn' = Touched({w})
    /\ runs' = [runs EXCEPT ![e][w] = "none"]
    /\ UNCHANGED <<owner, inputs, attempts, rows, clock, pc, now, claimed, todo, callVars,
                   history, bounds>>

\* Mutant of Fail: keeps the row.
FailKeepsRow(e, w) ==
    /\ runs[e][w] = "running"
    /\ runs' = [runs EXCEPT ![e][w] = "failed"]
    /\ UNCHANGED <<dbVars, clock, loopVars, callVars, history, bounds>>

\* The function throws: the row is released, then the error is recorded.
Fail(e, w) ==
    /\ runs[e][w] = "running"
    /\ rows' = Dequeued(w)
    /\ runs' = [runs EXCEPT ![e][w] = "failed"]
    /\ UNCHANGED <<status, owner, inputs, attempts, clock, loopVars, callVars, history, bounds>>

\* Mutant of RecordError: the error is not recorded.
RecordErrorLost(e, w) ==
    /\ runs[e][w] = "failed"
    /\ runs' = [runs EXCEPT ![e][w] = "none"]
    /\ UNCHANGED <<dbVars, clock, loopVars, callVars, history, bounds>>

RecordError(e, w) ==
    /\ runs[e][w] = "failed"
    /\ status' = [status EXCEPT ![w] = "ERROR"]
    /\ txn' = Touched({w})
    /\ runs' = [runs EXCEPT ![e][w] = "none"]
    /\ UNCHANGED <<owner, inputs, attempts, rows, clock, pc, now, claimed, todo, callVars,
                   history, bounds>>

\* An operation was recorded by another execution of w: this one polls for the
\* result and leaves the queue alone.
Conflict(e, w) ==
    /\ runs[e][w] = "running"
    /\ \E x \in Executors \ {e} : runs[x][w] \in {"running", "failed", "buffered"}
    /\ runs' = [runs EXCEPT ![e][w] = "polling"]
    /\ UNCHANGED <<dbVars, clock, loopVars, callVars, history, bounds>>

PollReturns(e, w) ==
    /\ runs[e][w] = "polling" /\ status[w] \in {"SUCCESS", "ERROR"}
    /\ runs' = [runs EXCEPT ![e][w] = "none"]
    /\ UNCHANGED <<dbVars, clock, loopVars, callVars, history, bounds>>

----------------------------------------------------------------------------
(* Processes and administration.                                             *)

Crash(e) ==
    /\ pc[e] # "down" /\ crashes < MaxCrashes
    /\ crashes' = crashes + 1
    /\ Lost(e)
    /\ UNCHANGED <<dbVars, clock, history, called, cancels>>

\* The process comes back; the pending workflows of its executor ID are looked up:
\* by init for "local", on a VM by the recovery request that names the VM.
Restart(e) ==
    /\ pc[e] = "down"
    /\ pc' = [pc EXCEPT ![e] = "recover"]
    /\ todo' = [todo EXCEPT ![e] =
                  {w \in Workflows : status[w] = "PENDING" /\ owner[w] = Id[e]}]
    /\ UNCHANGED <<dbVars, clock, now, txn, claimed, runs, callVars, history, bounds>>

Recover(e, w) ==
    /\ pc[e] = "recover" /\ w \in todo[e]
    /\ \A v \in Workflows : runs[e][v] # "exceeded"
    /\ Begins(e, w)
    /\ todo' = [todo EXCEPT ![e] = @ \ {w}]
    /\ UNCHANGED <<status, owner, inputs, rows, clock, pc, now, claimed, callVars,
                   history, bounds>>

\* Start-up is over: the dispatch loop begins.
Recovered(e) ==
    /\ pc[e] = "recover" /\ todo[e] = {}
    /\ \A v \in Workflows : runs[e][v] # "exceeded"
    /\ pc' = [pc EXCEPT ![e] = "sleep"]
    /\ UNCHANGED <<dbVars, clock, now, txn, claimed, todo, runs, callVars, history, bounds>>

\* cancelWorkflow sets the status whatever it was, and nothing else.
Cancel(w) ==
    /\ status[w] # "NONE" /\ cancels < MaxCancels
    /\ cancels' = cancels + 1
    /\ status' = [status EXCEPT ![w] = "CANCELLED"]
    /\ txn' = Touched({w})
    /\ UNCHANGED <<owner, inputs, attempts, rows, clock, pc, now, claimed, todo, runs,
                   callVars, history, called, crashes>>

\* Time passes, but a claiming transaction takes at most MaxDispatch.
Tick ==
    /\ clock < MaxTime
    /\ \A e \in Executors : pc[e] \in {"begin", "mark"} => clock - now[e] < MaxDispatch
    /\ clock' = clock + 1
    /\ UNCHANGED <<dbVars, loopVars, runs, callVars, history, bounds>>

----------------------------------------------------------------------------

Call(e, w) == InitStatus(e, w) \/ InitInputs(e, w) \/ InsertBegin(e, w) \/ InsertCommit(e, w)

Dispatch(e) == \/ Wake(e) \/ Snapshot(e) \/ Mark(e) \/ MarkFails(e)
               \/ Collect(e) \/ StartClaimed(e) \/ Sleep(e)

Execute(e, w) == \/ DeadLetter(e, w) \/ Succeed(e, w) \/ FlushStatus(e, w)
                 \/ Fail(e, w) \/ RecordError(e, w) \/ PollReturns(e, w)

StartUp(e) == Restart(e) \/ (\E w \in Workflows : Recover(e, w)) \/ Recovered(e)

Next ==
    \/ \E e \in Executors, w \in Workflows : Call(e, w) \/ Execute(e, w) \/ Conflict(e, w)
    \/ \E e \in Executors : Dispatch(e) \/ StartUp(e) \/ Crash(e)
    \/ \E w \in Workflows : Cancel(w)
    \/ Tick

Spec == Init /\ [][Next]_vars

\* Loops, executions and processes keep going; calls, crashes, conflicts and
\* cancel commands need not happen.
FairSpec ==
    /\ Spec
    /\ \A e \in Executors :
          /\ WF_vars(Dispatch(e)) /\ WF_vars(StartUp(e))
          /\ \A w \in Workflows : WF_vars(Execute(e, w))
                                  /\ WF_vars(calls[e][w] # "none" /\ Call(e, w))

----------------------------------------------------------------------------
(* Properties.                                                               *)

\* Rows of workflows that have been started and not given back.
Holding == {w \in Open : rows[w].started > 0}

\* findAndMarkStartableWorkflows has no more than the queue's concurrency of started
\* workflows, however many dispatch loops run it at the same time, as long as rows have
\* appeared in the order of their times.  created_at_epoch_ms does not ensure that: with
\* two rows of one millisecond, or one that appears late, a started row can fall out of
\* the first Concurrency rows and another take its place.
ConcurrencyRespected == inOrder => Cardinality(Holding) <= Concurrency

\* A rate-limited queue starts no more than limitPerPeriod workflows in a period, less
\* the time a dispatch may take between reading the clock and committing, under the same
\* condition: out of order, two loops can claim different rows without a conflict.
RateRespected ==
    inOrder /\ Limited => \A t \in 1 .. clock :
        Cardinality({w \in Workflows : startTime[w] >= t
                        /\ startTime[w] < t + Period - MaxDispatch}) <= Limit

\* Two dispatch loops never both claim a workflow, and no loop claims one twice.
ClaimedOnce == \A w \in Workflows : claims[w] <= 1

\* A row in workflow_queue belongs to a workflow whose status and inputs are
\* recorded: executeWorkflowUUID would throw on another one and end the process.
RowsHaveInputs ==
    \A w \in Workflows : rows[w] # NoRow => status[w] # "NONE" /\ inputs[w]

\* No execution will give the row of w back: the workflow was cancelled, or given up by
\* initWorkflowStatus, before one ended, or had ended before its row was inserted.
Abandoned(w) ==
    \/ status[w] \in {"CANCELLED", "RETRIES_EXCEEDED"}
    \/ status[w] \in {"SUCCESS", "ERROR"} /\ rows[w].started = 0

\* Every row of workflow_queue is given back, through crashes, cancel commands, failing
\* transactions and repeated calls, unless the queue is held up for ever by an abandoned
\* row, which dequeueWorkflow is never called for and the first Concurrency rows include.
RowsReleased ==
    \A w \in Workflows :
        []<>(w \notin Open) \/ <>[](\E v \in Open : Abandoned(v))

\* Recovery runs to completion the workflows that were executing when a process
\* failed.
PendingEnds == \A w \in Workflows : (status[w] = "PENDING") ~> (status[w] \in Final)

=============================================================================
