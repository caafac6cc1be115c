------------------------ MODULE DurableSafetyProofs ------------------------
(***************************************************************************)
(* The safety properties of durable execution, proved from one inductive   *)
(* invariant.  Every step that touches the record has the same shape: some *)
(* execution r inserts, for a set S of function IDs that have no row yet,  *)
(* the results it has seen (Records), and moves on by at most one          *)
(* operation (Behind).  What the invariant needs of a step is proved once  *)
(* for that shape; per action only the shape is left to show.              *)
(***************************************************************************)
EXTENDS DurableWorkflowProofs, WellFoundedInduction

-----------------------------------------------------------------------------
(* The inductive invariant.                                                 *)

\* What execution r has seen: buffered reads lie behind it, and of the other
\* operations behind it exactly the recorded results.  The buffer is empty while
\* an operation that flushed it executes.
RunInv(r) ==
    /\ \A g \in buf[r] : ~Durable(g) /\ g < pc[r] /\ obs[r][g] \in Vals
    /\ \A f \in Ops : f < pc[r] /\ Durable(f) => obs[r][f] = rec[f] /\ rec[f] \in Vals
    /\ st[r] = "txnErr" => obs[r][pc[r]] = Err
    /\ st[r] = "record" => obs[r][pc[r]] \in Results
    /\ st[r] \in {"check", "body", "record"} /\ Flushes(pc[r]) => buf[r] = {}

\* Where no retry forgets the buffer, the reads behind r that are not in it are
\* recorded as r has seen them, too.
RunReads(r) ==
    \A g \in Ops : g < pc[r] /\ ~Durable(g) /\ g \notin buf[r]
          => obs[r][g] = rec[g] /\ rec[g] # NoRow

\* The entry of an executor's workflowResultBuffer was left by some execution.
LeftBy(rows, r) ==
    st[r] = "done" /\ rows = [g \in Ops |-> IF g \in buf[r] THEN obs[r][g] ELSE NoRow]
Left(rows) == rows = NoRows \/ \E r \in Runs : LeftBy(rows, r)
ResInv == \A x \in Executors : Left(resBuf[x]) /\ Left(resLocal[x])

\* A sleep is never recorded as failed.
SleepRows == \A f \in Ops : Kind[f] = "sleep" => rec[f] # Err

RunsInv == \A r \in Runs : RunInv(r) /\ (~CommitAborts => RunReads(r))

Inv ==
    /\ TypeInv
    /\ RunsInv
    /\ ResInv
    /\ SleepRows
    /\ ExactlyOnce
    /\ OutcomeRecorded
    /\ ~CommitAborts => NoGaps

\* The invariant holds when nothing has been executed.
LEMMA InitInv == Init => Inv
  <1> SUFFICES ASSUME Init PROVE Inv
    OBVIOUS
  <1>1. TypeInv
    BY InitTypeInv
  <1>2. RunsInv
    BY ConstantsAssumption DEF Init, RunsInv, RunInv, RunReads, NoRows, Ops
  <1>3. ResInv
    BY DEF Init, ResInv, Left
  <1>4. SleepRows /\ ExactlyOnce /\ OutcomeRecorded /\ NoGaps
    BY RowFacts DEF Init, SleepRows, ExactlyOnce, OutcomeRecorded, NoGaps, NoRows
  <1> QED
    BY <1>1, <1>2, <1>3, <1>4 DEF Inv

-----------------------------------------------------------------------------
(* The shape of the steps that change the record.                           *)

\* Execution r inserts what it has seen for the operations in S.
Records(r, S) ==
    /\ S \subseteq Ops /\ S \subseteq buf[r] \cup {pc[r]} /\ KeysFree(S)
    /\ rec' = Inserted(S, obs'[r])
    /\ pc[r] \in S => /\ obs'[r][pc[r]] \in Results
                      /\ Kind[pc[r]] = "sleep" => obs'[r][pc[r]] # Err
    /\ effects' = IF pc[r] \in S /\ Effectful(pc[r]) /\ obs'[r][pc[r]] \in Vals
                  THEN [effects EXCEPT ![pc[r]] = @ + 1] ELSE effects
    /\ \A f \in Ops : f < pc[r] => obs'[r][f] = obs[r][f]
    /\ S # {} => IF pc[r] \in S /\ ~Flushes(pc[r]) THEN S = {pc[r]} ELSE buf[r] \subseteq S

\* Execution r goes on by at most one operation, whose result it has seen.
Behind(r, S) ==
    /\ pc'[r] = pc[r] \/ pc'[r] = pc[r] + 1
    /\ \A g \in buf'[r] : \/ g \in buf[r]
                          \/ /\ g = pc[r] /\ pc'[r] = pc[r] + 1
                             /\ ~Durable(g) /\ obs'[r][g] \in Vals
    /\ ~CommitAborts => \A g \in buf[r] : g \in buf'[r] \/ g \in S
    /\ pc'[r] = pc[r] + 1 =>
          \/ Durable(pc[r]) /\ obs'[r][pc[r]] = rec'[pc[r]] /\ rec'[pc[r]] \in Vals
          \/ ~Durable(pc[r]) /\ pc[r] \in buf'[r]
          \/ ~Durable(pc[r]) /\ obs'[r][pc[r]] = rec'[pc[r]] /\ rec'[pc[r]] # NoRow
    /\ st'[r] = "txnErr" => obs'[r][pc'[r]] = Err
    /\ st'[r] = "record" => obs'[r][pc'[r]] \in Results
    /\ st'[r] \in {"check", "body", "record"} /\ Flushes(pc'[r]) => buf'[r] = {}

\* The other executions do nothing.
Alone(r) ==
    \A q \in Runs : q # r => /\ st'[q] = st[q] /\ pc'[q] = pc[q]
                             /\ obs'[q] = obs[q] /\ buf'[q] = buf[q]

\* No row is ever changed or removed.
RecGrows == \A f \in Ops : rec[f] # NoRow => rec'[f] = rec[f]

\* What rec holds after an insertion: new rows at S, the old ones elsewhere.
LEMMA RecordsRows ==
    ASSUME Inv, OpTypes', NEW r \in Runs, NEW S, Records(r, S)
    PROVE  /\ RecGrows
           /\ \A f \in Ops : rec'[f] = IF f \in S THEN obs'[r][f] ELSE rec[f]
           /\ \A f \in S : rec[f] = NoRow
           /\ \A f \in S : f \in buf[r] => /\ ~Durable(f) /\ f < pc[r]
                                           /\ obs'[r][f] = obs[r][f] /\ obs[r][f] \in Vals
           /\ \A f \in S : f \in buf[r] \/ f = pc[r]
  <1>1. rec \in [Ops -> Rows] /\ obs'[r] \in [Ops -> Rows]
    BY DEF Inv, TypeInv, TypeOK, OpTypes
  <1>2. \A f \in Ops : rec'[f] = IF f \in S THEN obs'[r][f] ELSE rec[f]
    BY <1>1, InsertedFacts DEF Records
  <1>3. \A f \in S : rec[f] = NoRow
    BY DEF Records, KeysFree
  <1>4. \A g \in buf[r] : ~Durable(g) /\ g < pc[r] /\ obs[r][g] \in Vals
    BY DEF Inv, RunsInv, RunInv
  <1>5. \A f \in S : f \in buf[r] \/ f = pc[r]
    BY DEF Records
  <1> QED
    BY <1>2, <1>3, <1>4, <1>5 DEF Records, RecGrows

\* A result is recorded only together with, or after, what precedes it, exactly as
\* its execution has seen it.
LEMMA RecordsCausal ==
    ASSUME Inv, OpTypes', NEW r \in Runs, NEW S, Records(r, S), ~CommitAborts,
           NEW f \in Ops, rec[f] = NoRow, rec'[f] # NoRow,
           NEW g \in Ops, g = f \/ Precedes(g, f)
    PROVE  obs'[r][g] = rec'[g] /\ rec'[g] # NoRow
  <1>1. /\ \A h \in Ops : rec'[h] = IF h \in S THEN obs'[r][h] ELSE rec[h]
        /\ \A h \in S : h \in buf[r] => ~Durable(h) /\ h < pc[r] /\ obs[r][h] \in Vals
        /\ \A h \in S : h \in buf[r] \/ h = pc[r]
        /\ \A h \in S : rec[h] = NoRow
        /\ \A h \in S : h \in buf[r] => obs'[r][h] = obs[r][h]
    BY RecordsRows DEF Inv
  <1>2. f \in S /\ f \in Nat /\ g \in Nat /\ g <= f
    BY <1>1, ConstantsAssumption DEF Ops, Precedes
  <1>3. pc[r] \in Nat
    BY ConstantsAssumption DEF Inv, TypeInv, TypeOK
  <1>4. g < pc[r] \/ (g = pc[r] /\ f = g)
    BY <1>1, <1>2, <1>3
  <1>5. CASE g \in S
    <2>1. obs'[r][g] \in Vals \cup Results
      BY <1>1, <1>5 DEF Records
    <2> QED
      BY <1>1, <1>2, <1>5, <2>1, RowFacts, ConstantsAssumption DEF Results
  <1>6. CASE g \notin S
    <2>1. g < pc[r] /\ Precedes(g, f)
      BY <1>2, <1>4, <1>6
    <2>2. obs[r][g] = rec[g] /\ rec[g] # NoRow
      <3>1. CASE Durable(g)
        BY <2>1, <3>1, RowFacts DEF Inv, RunsInv, RunInv
      <3>2. CASE ~Durable(g)
        <4>1. Flushes(f)
          BY <2>1, <3>2 DEF Precedes
        <4>2. g \notin buf[r]
          BY <1>2, <1>6, <4>1 DEF Records
        <4> QED
          BY <2>1, <3>2, <4>2 DEF Inv, RunsInv, RunReads
      <3> QED
        BY <3>1, <3>2
    <2> QED
      BY <1>1, <1>2, <1>6, <2>1, <2>2 DEF Records
  <1> QED
    BY <1>5, <1>6

\* Inserting all of r's buffered reads together with an operation, or a getEvent or
\* a sleep alone, leaves no gap.
LEMMA RecordsNoGaps ==
    ASSUME Inv, OpTypes', NEW r \in Runs, NEW S, Records(r, S), ~CommitAborts
    PROVE  NoGaps'
  <1> SUFFICES ASSUME NEW f \in Ops, NEW g \in Ops, Precedes(g, f), rec'[f] # NoRow
               PROVE  rec'[g] # NoRow
    BY DEF NoGaps, Precedes, Flushes, Durable
  <1>1. CASE rec[f] # NoRow
    BY <1>1, RecordsRows DEF Inv, NoGaps, RecGrows
  <1>2. CASE rec[f] = NoRow
    BY <1>2, RecordsCausal
  <1> QED
    BY <1>1, <1>2

\* An insertion counts one effect for each new row of an effectful operation that
\* did not fail, which keeps ExactlyOnce.
LEMMA RecordsExactlyOnce ==
    ASSUME Inv, OpTypes', NEW r \in Runs, NEW S, Records(r, S)
    PROVE  ExactlyOnce'
  <1> SUFFICES ASSUME NEW f \in Ops, Effectful(f)
               PROVE  effects'[f] = IF rec'[f] \in Vals THEN 1 ELSE 0
    BY DEF ExactlyOnce, Effectful
  <1>1. effects[f] = IF rec[f] \in Vals THEN 1 ELSE 0
    BY DEF Inv, ExactlyOnce
  <1>2. effects \in [Ops -> Nat]
    BY DEF Inv, TypeInv, TypeOK
  <1>3. CASE f \in S
    <2>1. f = pc[r]
      BY <1>3, RecordsRows DEF Durable, Effectful
    <2>2. rec'[f] = obs'[r][f] /\ effects[f] = 0
      BY <1>1, <1>3, RecordsRows, RowFacts
    <2> QED
      BY <1>2, <1>3, <2>1, <2>2 DEF Records
  <1>4. CASE f \notin S
    <2>1. rec'[f] = rec[f]
      BY <1>4, RecordsRows
    <2>2. effects'[f] = effects[f]
      BY <1>2, <1>4 DEF Records
    <2> QED
      BY <1>1, <2>1, <2>2
  <1> QED
    BY <1>3, <1>4

\* An insertion keeps sleeps free of errors.
LEMMA RecordsSleepRows ==
    ASSUME Inv, OpTypes', NEW r \in Runs, NEW S, Records(r, S)
    PROVE  SleepRows'
  <1> SUFFICES ASSUME NEW f \in Ops, Kind[f] = "sleep" PROVE rec'[f] # Err
    BY DEF SleepRows
  <1>1. CASE f \in S
    <2>1. f = pc[r] /\ rec'[f] = obs'[r][f]
      BY <1>1, RecordsRows DEF Durable
    <2> QED
      BY <1>1, <2>1 DEF Records
  <1>2. CASE f \notin S
    BY <1>2, RecordsRows DEF Inv, SleepRows
  <1> QED
    BY <1>1, <1>2

\* An insertion by r leaves what the other executions have seen in agreement with
\* the record: its keys were free, so nobody has passed those operations yet.
LEMMA RecordsRuns ==
    ASSUME Inv, OpTypes', NEW r \in Runs, NEW S, Records(r, S), Behind(r, S), Alone(r)
    PROVE  RunsInv'
  <1>0. RecGrows
    BY RecordsRows
  <1>1. ASSUME NEW q \in Runs, q # r
        PROVE  RunInv(q)' /\ (~CommitAborts => RunReads(q)')
    <2>1. RunInv(q) /\ (~CommitAborts => RunReads(q))
      BY DEF Inv, RunsInv
    <2>2. st'[q] = st[q] /\ pc'[q] = pc[q] /\ obs'[q] = obs[q] /\ buf'[q] = buf[q]
      BY <1>1 DEF Alone
    <2>3. RunInv(q)'
      BY <1>0, <2>1, <2>2, RowFacts DEF RunInv, RecGrows, Durable, Flushes
    <2>4. ~CommitAborts => RunReads(q)'
      BY <1>0, <2>1, <2>2 DEF RunReads, RecGrows, Durable
    <2> QED
      BY <2>3, <2>4
  <1>2. RunInv(r) /\ (~CommitAborts => RunReads(r))
    BY DEF Inv, RunsInv
  <1>3. pc[r] \in Nat /\ pc'[r] \in Nat /\ Ops \subseteq Nat /\ buf[r] \subseteq Ops
    BY ConstantsAssumption DEF Inv, TypeInv, TypeOK, Behind, Ops
  <1>4. \A f \in Ops : f < pc'[r] => f < pc[r] \/ (f = pc[r] /\ pc'[r] = pc[r] + 1)
    <2>1. pc'[r] = pc[r] \/ pc'[r] = pc[r] + 1
      BY DEF Behind
    <2>2. pc[r] \in Nat /\ \A f \in Ops : f \in Nat
      BY <1>3
    <2> QED
      BY ONLY <2>1, <2>2
  <1>5. RunInv(r)'
    <2>1. ASSUME NEW g \in buf'[r] PROVE ~Durable(g) /\ g < pc'[r] /\ obs'[r][g] \in Vals
      <3>1. CASE g \in buf[r]
        <4>1. g \in Ops /\ g \in Nat /\ ~Durable(g) /\ g < pc[r] /\ obs[r][g] \in Vals
          BY <1>2, <1>3, <3>1 DEF RunInv
        <4>2. obs'[r][g] = obs[r][g]
          BY <4>1 DEF Records
        <4>3. g < pc'[r]
          BY <1>3, <4>1 DEF Behind
        <4> QED
          BY <4>1, <4>2, <4>3
      <3>2. CASE g \notin buf[r]
        BY <1>3, <3>2 DEF Behind
      <3> QED
        BY <3>1, <3>2
    <2>2. ASSUME NEW f \in Ops, f < pc'[r], Durable(f)
          PROVE  obs'[r][f] = rec'[f] /\ rec'[f] \in Vals
      <3>1. CASE f < pc[r]
        BY <1>0, <1>2, <2>2, <3>1, RowFacts DEF RunInv, RecGrows, Records
      <3>2. CASE f = pc[r] /\ pc'[r] = pc[r] + 1
        BY <2>2, <3>2 DEF Behind
      <3> QED
        BY <1>4, <2>2, <3>1, <3>2
    <2> QED
      BY <2>1, <2>2 DEF RunInv, Behind, Durable, Flushes
  <1>6. ASSUME ~CommitAborts PROVE RunReads(r)'
    <2>1. ASSUME NEW g \in Ops, g < pc'[r], ~Durable(g), g \notin buf'[r]
          PROVE  obs'[r][g] = rec'[g] /\ rec'[g] # NoRow
      <3>1. CASE g < pc[r] /\ g \in buf[r]
        <4>1. g \in S
          BY <1>6, <2>1, <3>1 DEF Behind
        <4> QED
          BY <4>1, <3>1, RecordsRows, RowFacts
      <3>2. CASE g < pc[r] /\ g \notin buf[r]
        BY <1>0, <1>2, <1>6, <2>1, <3>2 DEF RunReads, RecGrows, Records
      <3>3. CASE g = pc[r] /\ pc'[r] = pc[r] + 1
        BY <2>1, <3>3 DEF Behind
      <3> QED
        BY <1>4, <2>1, <3>1, <3>2, <3>3
    <2> QED
      BY <2>1 DEF RunReads, Durable
  <1> QED
    BY <1>1, <1>5, <1>6 DEF RunsInv

\* Executions that are over stay as they are, and so does what they left behind.
DoneFrozen ==
    \A q \in Runs : st[q] = "done" => st'[q] = "done" /\ obs'[q] = obs[q] /\ buf'[q] = buf[q]

\* Entries that an ended execution left stay so when the others move.
LEMMA LeftStable ==
    ASSUME DoneFrozen, NEW rows, Left(rows)
    PROVE  Left(rows)'
  BY DEF DoneFrozen, Left, LeftBy, NoRows

\* A step of execution r that only changes r and the record.
LEMMA RecordsInv ==
    ASSUME Inv, TypeInv', NEW r \in Runs, NEW S, Records(r, S), Behind(r, S), Alone(r),
           st[r] # "done", RunFrame
    PROVE  Inv'
  <1>1. OpTypes'
    BY DEF TypeInv, TypeOK, OpTypes
  <1>2. RunsInv'
    BY <1>1, RecordsRuns
  <1>3. ExactlyOnce' /\ SleepRows'
    BY <1>1, RecordsExactlyOnce, RecordsSleepRows
  <1>4. ~CommitAborts => NoGaps'
    BY <1>1, RecordsNoGaps
  <1>5. RecGrows
    BY <1>1, RecordsRows
  <1>6. OutcomeRecorded'
    BY <1>5, RowFacts DEF Inv, OutcomeRecorded, FromRecords, RecGrows, RunFrame, execVars, Durable
  <1>7. ResInv'
    BY LeftStable DEF Inv, ResInv, DoneFrozen, Alone, RunFrame, execVars
  <1> QED
    BY <1>2, <1>3, <1>4, <1>6, <1>7 DEF Inv

\* A step that leaves the record and what the executions have seen as they are.
Calm ==
    /\ UNCHANGED <<rec, effects, pc, obs, buf>>
    /\ \A q \in Runs : st'[q] # st[q]
          => st[q] # "done" /\ st'[q] \notin {"txnErr", "check", "body", "record"}

\* A step that leaves the record alone keeps everything the record is compared to.
LEMMA CalmInv ==
    ASSUME Inv, Calm
    PROVE  DoneFrozen /\ RunsInv' /\ SleepRows' /\ ExactlyOnce' /\ (~CommitAborts => NoGaps')
  <1>1. DoneFrozen
    BY DEF Calm, DoneFrozen
  <1>2. ASSUME NEW q \in Runs PROVE RunInv(q)' /\ (~CommitAborts => RunReads(q)')
    <2>1. RunInv(q) /\ (~CommitAborts => RunReads(q))
      BY DEF Inv, RunsInv
    <2> QED
      BY <2>1 DEF Calm, RunInv, RunReads, Durable, Flushes
  <1>3. SleepRows' /\ ExactlyOnce' /\ (~CommitAborts => NoGaps')
    BY DEF Calm, Inv, SleepRows, ExactlyOnce, NoGaps, Effectful, Precedes, Durable, Flushes
  <1> QED
    BY <1>1, <1>2, <1>3 DEF RunsInv

-----------------------------------------------------------------------------
(* Per action: the shape of the step.                                       *)

\* What the steps below use of the invariant.
LEMMA RunFacts ==
    ASSUME Inv, NEW r \in Runs
    PROVE  /\ RunInv(r) /\ (~CommitAborts => RunReads(r))
           /\ rec \in [Ops -> Rows] /\ obs \in [Runs -> [Ops -> Rows]]
           /\ buf \in [Runs -> SUBSET Ops] /\ st \in [Runs -> RunStates]
           /\ pc \in [Runs -> 1 .. NumOps + 1] /\ effects \in [Ops -> Nat]
           /\ pc[r] \in Nat /\ pc[r] \notin buf[r]
           /\ st[r] \in {"txn", "txnErr"} => Doing(r, {"rw", "ro"})
           /\ st[r] = "check" => Doing(r, {"step", "notify"})
           /\ st[r] = "body" => Doing(r, {"step", "notify", "getEvent", "sleep"})
           /\ st[r] = "record" => Doing(r, {"step", "getEvent"})
  <1>1. RunInv(r) /\ (~CommitAborts => RunReads(r))
    BY DEF Inv, RunsInv
  <1>2. /\ rec \in [Ops -> Rows] /\ obs \in [Runs -> [Ops -> Rows]]
        /\ buf \in [Runs -> SUBSET Ops] /\ st \in [Runs -> RunStates]
        /\ pc \in [Runs -> 1 .. NumOps + 1] /\ effects \in [Ops -> Nat]
    BY DEF Inv, TypeInv, TypeOK
  <1>3. pc[r] \in Nat
    BY <1>2, ConstantsAssumption
  <1>4. pc[r] \notin buf[r]
    BY <1>1, <1>3 DEF RunInv
  <1> QED
    BY <1>1, <1>2, <1>3, <1>4 DEF Inv, TypeInv, OpStates

\* Inserting nothing.
LEMMA InsertedNothing ==
    ASSUME rec \in [Ops -> Rows], NEW seen
    PROVE  Inserted({}, seen) = rec
  BY DEF Inserted

\* A step of r that inserts nothing and changes obs at most at pc[r].
LEMMA RecordsNothing ==
    ASSUME Inv, NEW r \in Runs, UNCHANGED <<rec, effects>>,
           \A f \in Ops : f # pc[r] => obs'[r][f] = obs[r][f]
    PROVE  Records(r, {})
  <1>1. rec' = Inserted({}, obs'[r])
    BY InsertedNothing, RunFacts
  <1>2. \A f \in Ops : f < pc[r] => obs'[r][f] = obs[r][f]
    BY RunFacts DEF Ops
  <1> QED
    BY <1>1, <1>2 DEF Records, KeysFree

\* What Advance and Seeing make of the variables.
LEMMA AdvanceFacts ==
    ASSUME Inv, NEW r \in Runs, Advance(r)
    PROVE  /\ pc'[r] = pc[r] + 1 /\ st'[r] = "op"
           /\ \A q \in Runs : q # r => pc'[q] = pc[q] /\ st'[q] = st[q]
  BY RunFacts DEF Advance, GoTo

\* Changing an execution's state changes nothing else about it.
LEMMA GoToFacts ==
    ASSUME Inv, NEW r \in Runs, NEW s, GoTo(r, s)
    PROVE  st'[r] = s /\ \A q \in Runs : q # r => st'[q] = st[q]
  BY RunFacts DEF GoTo

\* Seeing a result changes obs at the current operation only.
LEMMA SeesFacts ==
    ASSUME Inv, NEW r \in Runs, AtOp(r), NEW v \in Rows, obs' = Seeing(r, v)
    PROVE  /\ obs'[r][pc[r]] = v
           /\ \A f \in Ops : f # pc[r] => obs'[r][f] = obs[r][f]
           /\ \A f \in Ops : f < pc[r] => obs'[r][f] = obs[r][f]
           /\ \A q \in Runs : q # r => obs'[q] = obs[q]
  <1>1. /\ obs'[r][pc[r]] = v
        /\ \A f \in Ops : f # pc[r] => obs'[r][f] = obs[r][f]
        /\ \A q \in Runs : q # r => obs'[q] = obs[q]
    BY SeeingFacts, RunFacts DEF AtOp
  <1>2. \A f \in Ops : f < pc[r] => f # pc[r]
    BY RunFacts DEF Ops
  <1> QED
    BY <1>1, <1>2

\* A step of r that leaves the record and what r has seen alone.
LEMMA CalmRunInv ==
    ASSUME Inv, TypeInv', Calm, RunFrame
    PROVE  Inv'
  <1>1. DoneFrozen /\ RunsInv' /\ SleepRows' /\ ExactlyOnce' /\ (~CommitAborts => NoGaps')
    BY CalmInv
  <1>2. ResInv'
    BY <1>1, LeftStable DEF Inv, ResInv, RunFrame, execVars
  <1>3. OutcomeRecorded'
    BY DEF Calm, Inv, OutcomeRecorded, FromRecords, RunFrame, execVars, Durable
  <1> QED
    BY <1>1, <1>2, <1>3 DEF Inv

\* A step of execution r either has that shape or leaves all of this alone.
Shape(r) ==
    /\ RunFrame
    /\ \/ Calm
       \/ \E S \in SUBSET Ops : Records(r, S) /\ Behind(r, S) /\ Alone(r) /\ st[r] # "done"

\* A step of r has the Shape as soon as its insertion and its move do.
LEMMA ShapeIntro ==
    ASSUME NEW r \in Runs, NEW S, Records(r, S), Behind(r, S), Alone(r), st[r] # "done", RunFrame
    PROVE  Shape(r)
  <1>1. S \in SUBSET Ops
    BY DEF Records
  <1> QED
    BY <1>1 DEF Shape

\* A step of r that records nothing has the Shape.
LEMMA CalmShape ==
    ASSUME Calm, RunFrame, NEW r \in Runs
    PROVE  Shape(r)
  BY DEF Shape

\* Every transaction action (begin, read, commit, throw, retry, record error) has
\* the Shape.
LEMMA TxnShape ==
    ASSUME Inv, NEW r \in Runs, TxnStep(r)
    PROVE  Shape(r)
  <1>0. TypeInv'
    BY TxnTypeInv DEF Inv
  <1> USE RowFacts
  <1>1. CASE TxnBegin(r)
    <2>0. AtOp(r) /\ rec[pc[r]] \in Rows /\ UNCHANGED <<rec, effects, buf>> /\ RunFrame
      BY <1>1, RunFacts DEF TxnBegin, Doing, AtOp
    <2>1. CASE ~Found(r)
      <3>1. Calm
        BY <1>1, <2>1, GoToFacts DEF TxnBegin, Calm
      <3> QED
        BY <2>0, <3>1, CalmShape
    <2>2. CASE Found(r) /\ rec[pc[r]] # Err
      <3>1. obs' = Seeing(r, rec[pc[r]]) /\ Advance(r) /\ rec[pc[r]] \in Vals /\ st[r] = "op"
        BY <1>1, <2>0, <2>2 DEF TxnBegin, Found, Rows, Results
      <3>2. Alone(r)
        BY <2>0, <3>1, SeesFacts, AdvanceFacts DEF Alone
      <3>3. Records(r, {})
        BY <2>0, <3>1, SeesFacts, RecordsNothing
      <3>4. Behind(r, {})
        BY <2>0, <3>1, SeesFacts, AdvanceFacts DEF Behind
      <3> QED
        BY <2>0, <3>1, <3>2, <3>3, <3>4, ShapeIntro
    <2>3. CASE Found(r) /\ rec[pc[r]] = Err
      <3>1. obs' = Seeing(r, Err) /\ GoTo(r, "txnErr") /\ UNCHANGED pc /\ st[r] = "op"
        BY <1>1, <2>3 DEF TxnBegin
      <3>2. Alone(r)
        BY <2>0, <3>1, SeesFacts, GoToFacts DEF Alone
      <3>3. Records(r, {})
        BY <2>0, <3>1, SeesFacts, RecordsNothing
      <3>4. Behind(r, {})
        BY <2>0, <3>1, SeesFacts, GoToFacts, RunFacts DEF Behind
      <3> QED
        BY <2>0, <3>1, <3>2, <3>3, <3>4, ShapeIntro
    <2> QED
      BY <1>1, <2>1, <2>2, <2>3 DEF TxnBegin
  <1>2. CASE TxnThrow(r)
    <2>0. /\ AtOp(r) /\ UNCHANGED <<rec, effects, buf, pc>> /\ RunFrame /\ st[r] = "txn"
          /\ obs' = Seeing(r, Err) /\ GoTo(r, "txnErr")
      BY <1>2, RunFacts DEF TxnThrow, Doing
    <2>1. Alone(r)
      BY <2>0, SeesFacts, GoToFacts DEF Alone
    <2>2. Records(r, {})
      BY <2>0, SeesFacts, RecordsNothing
    <2>3. Behind(r, {})
      BY <2>0, SeesFacts, GoToFacts, RunFacts DEF Behind
    <2> QED
      BY <2>0, <2>1, <2>2, <2>3, ShapeIntro
  <1>3. CASE TxnRetry(r)
    <2>1. Calm /\ RunFrame
      BY <1>3, GoToFacts DEF TxnRetry, Calm
    <2> QED
      BY <2>1, CalmShape
  <1>4. CASE TxnCommitRetry(r)
    <2>0. /\ CommitAborts /\ UNCHANGED <<rec, effects, obs, pc>> /\ RunFrame /\ st[r] = "txn"
          /\ GoTo(r, "op") /\ buf' = [buf EXCEPT ![r] = {}]
      BY <1>4 DEF TxnCommitRetry
    <2>1. Alone(r) /\ buf'[r] = {}
      BY <2>0, GoToFacts, RunFacts DEF Alone
    <2>2. Records(r, {})
      BY <2>0, RecordsNothing
    <2>3. Behind(r, {})
      BY <2>0, <2>1, GoToFacts, RunFacts DEF Behind
    <2> QED
      BY <2>0, <2>1, <2>2, <2>3, ShapeIntro
  <1>5. CASE TxnRecordError(r)
    <2>0. /\ st[r] = "txnErr" /\ AtOp(r) /\ obs[r][pc[r]] = Err /\ Kind[pc[r]] \in {"rw", "ro"}
          /\ UNCHANGED <<effects, pc, obs>> /\ RunFrame
      BY <1>5, RunFacts DEF TxnRecordError, Doing, RunInv
    <2>1. CASE KeysFree(TxnKeys(r))
      <3>1. /\ rec' = Inserted(TxnKeys(r), obs[r]) /\ buf' = [buf EXCEPT ![r] = {}]
            /\ GoTo(r, "raise")
        BY <1>5, <2>1 DEF TxnRecordError
      <3>2. Alone(r) /\ buf'[r] = {}
        BY <2>0, <3>1, GoToFacts, RunFacts DEF Alone
      <3>3. Records(r, TxnKeys(r))
        BY <2>0, <2>1, <3>1, RunFacts DEF Records, TxnKeys, AtOp, Results, Flushes
      <3>4. Behind(r, TxnKeys(r))
        BY <2>0, <3>1, <3>2, GoToFacts, RunFacts DEF Behind, TxnKeys
      <3> QED
        BY <2>0, <3>2, <3>3, <3>4, ShapeIntro
    <2>2. CASE ~KeysFree(TxnKeys(r))
      <3>1. Calm
        BY <1>5, <2>0, <2>2, GoToFacts DEF TxnRecordError, Calm
      <3> QED
        BY <2>0, <3>1, CalmShape
    <2> QED
      BY <2>1, <2>2
  <1>6. CASE \E v \in Vals : TxnReadOnly(r, v)
    <2>1. PICK v \in Vals : TxnReadOnly(r, v)
      BY <1>6
    <2>2. /\ st[r] = "txn" /\ AtOp(r) /\ Kind[pc[r]] = "ro" /\ UNCHANGED <<rec, effects>>
          /\ obs' = Seeing(r, v) /\ Advance(r) /\ v \in Rows /\ RunFrame
          /\ buf' = [buf EXCEPT ![r] = @ \cup {pc[r]}]
      BY <2>1 DEF TxnReadOnly, Doing
    <2>3. Alone(r) /\ buf'[r] = buf[r] \cup {pc[r]}
      BY <2>2, SeesFacts, AdvanceFacts, RunFacts DEF Alone
    <2>4. Records(r, {})
      BY <2>2, SeesFacts, RecordsNothing
    <2>5. Behind(r, {})
      BY <2>2, <2>3, SeesFacts, AdvanceFacts, RunFacts DEF Behind, Durable
    <2> QED
      BY <2>2, <2>3, <2>4, <2>5, ShapeIntro
  <1>7. CASE \E v \in Vals : TxnCommit(r, v)
    <2>1. PICK v \in Vals : TxnCommit(r, v)
      BY <1>7
    <2>2. /\ st[r] = "txn" /\ AtOp(r) /\ Kind[pc[r]] = "rw" /\ KeysFree(TxnKeys(r))
          /\ obs' = Seeing(r, v) /\ Advance(r) /\ v \in Rows /\ RunFrame
          /\ rec' = Inserted(TxnKeys(r), obs'[r]) /\ buf' = [buf EXCEPT ![r] = {}]
          /\ effects' = [effects EXCEPT ![pc[r]] = @ + 1]
      BY <2>1 DEF TxnCommit, Doing
    <2>3. Alone(r) /\ buf'[r] = {}
      BY <2>2, SeesFacts, AdvanceFacts, RunFacts DEF Alone
    <2>4. Records(r, TxnKeys(r))
      BY <2>2, SeesFacts, RunFacts DEF Records, TxnKeys, AtOp, Results, Effectful, Flushes
    <2>5. rec'[pc[r]] = v
      <3>1. rec' \in [Ops -> Rows] /\ obs'[r] \in [Ops -> Rows]
        BY <1>0 DEF TypeInv, TypeOK
      <3> QED
        BY <2>2, <3>1, SeesFacts, InsertedFacts, RunFacts DEF TxnKeys, AtOp
    <2>6. Behind(r, TxnKeys(r))
      BY <2>2, <2>3, <2>5, SeesFacts, AdvanceFacts, RunFacts DEF Behind, TxnKeys, Durable
    <2> QED
      BY <2>2, <2>3, <2>4, <2>6, ShapeIntro
  <1> QED
    BY <1>1, <1>2, <1>3, <1>4, <1>5, <1>6, <1>7 DEF TxnStep

\* Every action of a step, message, getEvent or sleep has the Shape.
LEMMA OpShape ==
    ASSUME Inv, NEW r \in Runs, OpStep(r)
    PROVE  Shape(r)
  <1>0. TypeInv'
    BY OpTypeInv DEF Inv
  <1>a. rec' \in [Ops -> Rows] /\ obs'[r] \in [Ops -> Rows]
    BY <1>0 DEF TypeInv, TypeOK
  <1> USE RowFacts
  <1>1. CASE FlushResultBuffer(r)
    <2>0. st[r] = "op" /\ UNCHANGED <<effects, pc, obs>> /\ RunFrame
      BY <1>1 DEF FlushResultBuffer
    <2>1. CASE KeysFree(buf[r])
      <3>1. /\ rec' = Inserted(buf[r], obs[r]) /\ buf' = [buf EXCEPT ![r] = {}]
            /\ GoTo(r, "check")
        BY <1>1, <2>1 DEF FlushResultBuffer
      <3>2. Alone(r) /\ buf'[r] = {}
        BY <2>0, <3>1, GoToFacts, RunFacts DEF Alone
      <3>3. Records(r, buf[r])
        BY <2>0, <2>1, <3>1, RunFacts DEF Records
      <3>4. Behind(r, buf[r])
        BY <2>0, <3>1, <3>2, GoToFacts, RunFacts DEF Behind
      <3> QED
        BY <2>0, <3>2, <3>3, <3>4, ShapeIntro
    <2>2. CASE ~KeysFree(buf[r])
      <3>1. Calm
        BY <1>1, <2>0, <2>2, GoToFacts DEF FlushResultBuffer, Calm
      <3> QED
        BY <2>0, <3>1, CalmShape
    <2> QED
      BY <2>1, <2>2
  <1>2. CASE CheckOperation(r)
    <2>0. /\ AtOp(r) /\ st[r] \in {"op", "check"} /\ UNCHANGED <<rec, effects, buf>> /\ RunFrame
          /\ Flushes(pc[r]) => buf[r] = {}
      BY <1>2, RunFacts DEF CheckOperation, Doing, AtOp, Flushes, RunInv
    <2>1. CASE CheckedRow(r) = NoRow
      <3>1. GoTo(r, "body") /\ UNCHANGED <<obs, pc>>
        BY <1>2, <2>1 DEF CheckOperation
      <3>2. Alone(r)
        BY <2>0, <3>1, GoToFacts DEF Alone
      <3>3. Records(r, {})
        BY <2>0, <3>1, RecordsNothing
      <3>4. Behind(r, {})
        BY <2>0, <3>1, GoToFacts, RunFacts DEF Behind
      <3> QED
        BY <2>0, <3>2, <3>3, <3>4, ShapeIntro
    <2>2. CASE CheckedRow(r) \in Vals
      <3>1. obs' = Seeing(r, rec[pc[r]]) /\ Advance(r) /\ rec[pc[r]] \in Vals
        BY <1>2, <2>2 DEF CheckOperation, CheckedRow
      <3>2. Alone(r)
        BY <2>0, <3>1, SeesFacts, AdvanceFacts DEF Alone
      <3>3. Records(r, {})
        BY <2>0, <3>1, SeesFacts, RecordsNothing
      <3>4. Behind(r, {})
        BY <2>0, <3>1, SeesFacts, AdvanceFacts DEF Behind
      <3> QED
        BY <2>0, <3>2, <3>3, <3>4, ShapeIntro
    <2>3. CASE CheckedRow(r) = Err
      <3>1. obs' = Seeing(r, Err) /\ GoTo(r, "raise") /\ UNCHANGED pc
        BY <1>2, <2>3 DEF CheckOperation
      <3>2. Alone(r)
        BY <2>0, <3>1, SeesFacts, GoToFacts DEF Alone
      <3>3. Records(r, {})
        BY <2>0, <3>1, SeesFacts, RecordsNothing
      <3>4. Behind(r, {})
        BY <2>0, <3>1, SeesFacts, GoToFacts, RunFacts DEF Behind
      <3> QED
        BY <2>0, <3>2, <3>3, <3>4, ShapeIntro
    <2> QED
      BY <1>2, <2>1, <2>2, <2>3 DEF CheckOperation
  <1>3. CASE StepThrows(r)
    <2>0. /\ AtOp(r) /\ st[r] = "body" /\ UNCHANGED <<rec, effects, buf, pc>> /\ RunFrame
          /\ Flushes(pc[r]) => buf[r] = {}
      BY <1>3, RunFacts DEF StepThrows, Doing, RunInv
    <2>1. CASE UNCHANGED <<st, obs>>
      <3>1. Calm
        BY <2>0, <2>1 DEF Calm
      <3> QED
        BY <2>0, <3>1, CalmShape
    <2>2. CASE obs' = Seeing(r, Err) /\ GoTo(r, "record")
      <3>2. Alone(r)
        BY <2>0, <2>2, SeesFacts, GoToFacts DEF Alone
      <3>3. Records(r, {})
        BY <2>0, <2>2, SeesFacts, RecordsNothing
      <3>4. Behind(r, {})
        BY <2>0, <2>2, SeesFacts, GoToFacts, RunFacts DEF Behind, Results
      <3> QED
        BY <2>0, <3>2, <3>3, <3>4, ShapeIntro
    <2> QED
      BY <1>3, <2>1, <2>2 DEF StepThrows
  <1>4. CASE RecordOperation(r)
    <2>0. /\ AtOp(r) /\ st[r] = "record" /\ Kind[pc[r]] \in {"step", "getEvent"}
          /\ obs[r][pc[r]] \in Results
          /\ Flushes(pc[r]) => buf[r] = {}
      BY <1>4, RunFacts DEF RecordOperation, Doing, RunInv
    <2>1. UNCHANGED <<effects, obs, buf>> /\ RunFrame
      BY <1>4 DEF RecordOperation
    <2>2. CASE KeysFree({pc[r]})
      <3>1. rec' = Inserted({pc[r]}, obs[r])
        BY <1>4, <2>2 DEF RecordOperation
      <3>2. rec'[pc[r]] = obs[r][pc[r]]
        BY <1>a, <2>0, <2>1, <3>1, InsertedFacts, RunFacts DEF AtOp
      <3>3. Records(r, {pc[r]})
        BY <2>0, <2>1, <2>2, <3>1 DEF Records, AtOp, Effectful
      <3>4. CASE obs[r][pc[r]] # Err
        <4>1. Advance(r) /\ obs[r][pc[r]] \in Vals
          BY <1>4, <2>0, <2>2, <3>4 DEF RecordOperation, Results
        <4>2. Alone(r)
          BY <2>1, <4>1, AdvanceFacts DEF Alone
        <4>3. Behind(r, {pc[r]})
          BY <2>0, <2>1, <3>2, <4>1, AdvanceFacts DEF Behind, Durable
        <4> QED
          BY <2>0, <2>1, <3>3, <4>2, <4>3, ShapeIntro
      <3>5. CASE obs[r][pc[r]] = Err
        <4>1. GoTo(r, "raise") /\ UNCHANGED pc
          BY <1>4, <2>2, <3>5 DEF RecordOperation
        <4>2. Alone(r)
          BY <2>1, <4>1, GoToFacts DEF Alone
        <4>3. Behind(r, {pc[r]})
          BY <2>0, <2>1, <4>1, GoToFacts, RunFacts DEF Behind
        <4> QED
          BY <2>0, <2>1, <3>3, <4>2, <4>3, ShapeIntro
      <3> QED
        BY <3>4, <3>5
    <2>3. CASE ~KeysFree({pc[r]})
      <3>1. Calm
        BY <1>4, <2>0, <2>1, <2>3, GoToFacts DEF RecordOperation, Calm
      <3> QED
        BY <2>1, <3>1, CalmShape
    <2> QED
      BY <2>2, <2>3
  <1>5. CASE NotifyThrows(r)
    <2>0. /\ AtOp(r) /\ st[r] = "body" /\ UNCHANGED <<rec, effects, buf, pc>> /\ RunFrame
          /\ obs' = Seeing(r, Err) /\ GoTo(r, "raise")
      BY <1>5 DEF NotifyThrows, Doing
    <2>1. Alone(r)
      BY <2>0, SeesFacts, GoToFacts DEF Alone
    <2>2. Records(r, {})
      BY <2>0, SeesFacts, RecordsNothing
    <2>3. Behind(r, {})
      BY <2>0, SeesFacts, GoToFacts, RunFacts DEF Behind
    <2> QED
      BY <2>0, <2>1, <2>2, <2>3, ShapeIntro
  <1>6. CASE \E v \in Vals : BodyReturns(r, v)
    <2>1. PICK v \in Vals : BodyReturns(r, v)
      BY <1>6
    <2>2. /\ AtOp(r) /\ st[r] = "body" /\ UNCHANGED <<rec, effects, buf, pc>> /\ RunFrame
          /\ obs' = Seeing(r, v) /\ GoTo(r, "record") /\ v \in Rows /\ v \in Results
          /\ Flushes(pc[r]) => buf[r] = {}
      BY <2>1, RunFacts DEF BodyReturns, Doing, Results, RunInv
    <2>3. Alone(r)
      BY <2>2, SeesFacts, GoToFacts DEF Alone
    <2>4. Records(r, {})
      BY <2>2, SeesFacts, RecordsNothing
    <2>5. Behind(r, {})
      BY <2>2, SeesFacts, GoToFacts, RunFacts DEF Behind
    <2> QED
      BY <2>2, <2>3, <2>4, <2>5, ShapeIntro
  <1>7. CASE \E v \in Vals : NotifyCommit(r, v)
    <2>1. PICK v \in Vals : NotifyCommit(r, v)
      BY <1>7
    <2>2. /\ AtOp(r) /\ st[r] = "body" /\ UNCHANGED <<buf>> /\ RunFrame /\ v \in Rows
          /\ Kind[pc[r]] = "notify" /\ v \in Results
          /\ Flushes(pc[r]) => buf[r] = {}
      BY <2>1, RunFacts DEF NotifyCommit, Doing, Results, RunInv
    <2>3. CASE KeysFree({pc[r]})
      <3>1. /\ obs' = Seeing(r, v) /\ rec' = Inserted({pc[r]}, obs'[r]) /\ Advance(r)
            /\ effects' = [effects EXCEPT ![pc[r]] = @ + 1]
        BY <2>1, <2>3 DEF NotifyCommit
      <3>2. rec'[pc[r]] = v
        BY <1>a, <2>2, <3>1, SeesFacts, InsertedFacts, RunFacts DEF AtOp
      <3>3. Records(r, {pc[r]})
        BY <2>2, <2>3, <3>1, SeesFacts DEF Records, AtOp, Effectful
      <3>4. Alone(r)
        BY <2>2, <3>1, SeesFacts, AdvanceFacts DEF Alone
      <3>5. Behind(r, {pc[r]})
        BY <2>2, <3>1, <3>2, SeesFacts, AdvanceFacts DEF Behind, Durable
      <3> QED
        BY <2>2, <3>3, <3>4, <3>5, ShapeIntro
    <2>4. CASE ~KeysFree({pc[r]})
      <3>1. Calm
        BY <2>1, <2>2, <2>4, GoToFacts DEF NotifyCommit, Calm
      <3> QED
        BY <2>2, <3>1, CalmShape
    <2> QED
      BY <2>3, <2>4
  <1>8. CASE \E v \in Vals : Sleep(r, v)
    <2>1. PICK v \in Vals : Sleep(r, v)
      BY <1>8
    <2>2. /\ AtOp(r) /\ st[r] = "body" /\ UNCHANGED <<buf, effects>> /\ RunFrame
          /\ Kind[pc[r]] = "sleep" /\ ~Flushes(pc[r]) /\ Advance(r) /\ rec'[pc[r]] \in Rows
          /\ obs' = Seeing(r, rec'[pc[r]])
      BY <1>a, <2>1 DEF Sleep, Doing, Flushes, AtOp
    <2>3. Alone(r)
      BY <2>2, SeesFacts, AdvanceFacts DEF Alone
    <2>4. CASE KeysFree({pc[r]})
      <3>1. rec' = [rec EXCEPT ![pc[r]] = v]
        BY <2>1, <2>4 DEF Sleep
      <3>2. rec'[pc[r]] = v
        BY <2>2, <3>1, RunFacts DEF AtOp
      <3>3. rec' = Inserted({pc[r]}, obs'[r])
        <4>1. obs'[r][pc[r]] = v /\ rec \in [Ops -> Rows]
          BY <2>2, <3>2, SeesFacts, RunFacts
        <4> QED
          BY <3>1, <4>1 DEF Inserted
      <3>4. Records(r, {pc[r]})
        BY <2>2, <2>4, <3>2, <3>3, SeesFacts DEF Records, AtOp, Effectful, Results
      <3>5. Behind(r, {pc[r]})
        BY <2>2, <3>2, SeesFacts, AdvanceFacts DEF Behind, Durable
      <3> QED
        BY <2>2, <2>3, <3>4, <3>5, ShapeIntro
    <2>5. CASE ~KeysFree({pc[r]})
      <3>1. rec' = rec
        BY <2>1, <2>5 DEF Sleep
      <3>2. Records(r, {})
        BY <2>2, <3>1, SeesFacts, RecordsNothing
      <3>3. rec[pc[r]] \in Vals
        BY <2>2, <2>5, RunFacts DEF KeysFree, Inv, SleepRows, AtOp, Rows, Results
      <3>4. Behind(r, {})
        BY <2>2, <3>1, <3>3, SeesFacts, AdvanceFacts DEF Behind, Durable
      <3> QED
        BY <2>2, <2>3, <3>2, <3>4, ShapeIntro
    <2> QED
      BY <2>4, <2>5
  <1> QED
    BY <1>1, <1>2, <1>3, <1>4, <1>5, <1>6, <1>7, <1>8 DEF OpStep

\* A step with the Shape preserves the invariant.
LEMMA ShapeInv ==
    ASSUME Inv, TypeInv', NEW r \in Runs, Shape(r)
    PROVE  Inv'
  BY CalmRunInv, RecordsInv DEF Shape

\* A calm step preserves the invariant if it buffers and reports only outcomes
\* and results that executions left.
LEMMA CalmStepInv ==
    ASSUME Inv, TypeInv', Calm, ResInv', OutcomeRecorded'
    PROVE  Inv'
  BY CalmInv DEF Inv

\* Invocation, recovery and initWorkflowStatus preserve the invariant.
LEMMA StartInv ==
    ASSUME Inv, NEW r \in Runs,
           \/ StartStep(r)
           \/ \E x \in Executors :
                 \/ \E given \in BOOLEAN, a \in Args : Invoke(r, x, given, a)
                 \/ Recover(r, x)
                 \/ Resume(r, x)
    PROVE  Inv'
  <1>0. TypeInv'
    BY StartTypeInv DEF Inv
  <1>1. /\ UNCHANGED <<rec, effects, pc, obs, buf, wfOut, execVars>>
        /\ wfStatus' = "SUCCESS" => wfStatus = "SUCCESS"
        /\ \E s : GoTo(r, s) /\ s \notin {"txnErr", "check", "body", "record"}
        /\ st[r] # "done"
    <2>1. CASE StartStep(r)
      <3>1. CASE ReadInputs(r)
        BY <3>1 DEF ReadInputs, dbVars
      <3>2. CASE InitStatus(r)
        BY <3>2 DEF InitStatus
      <3>3. CASE DeadLetter(r) \/ InitInputs(r) \/ ResetAttempts(r)
        BY <3>3 DEF DeadLetter, InitInputs, ResetAttempts
      <3> QED
        BY <2>1, <3>1, <3>2, <3>3 DEF StartStep
    <2>2. CASE \E x \in Executors, given \in BOOLEAN, a \in Args : Invoke(r, x, given, a)
      BY <2>2 DEF Invoke, dbVars
    <2>3. CASE \E x \in Executors : Recover(r, x)
      BY <2>3 DEF Recover, dbVars
    <2>4. CASE \E x \in Executors : Resume(r, x)
      BY <2>4 DEF Resume
    <2> QED
      BY <2>1, <2>2, <2>3, <2>4
  <1>2. Calm
    BY <1>1, GoToFacts DEF Calm
  <1>3. ResInv'
    BY <1>1, <1>2, CalmInv, LeftStable DEF Inv, ResInv, execVars
  <1>4. OutcomeRecorded'
    BY <1>1 DEF Inv, OutcomeRecorded, FromRecords, execVars, Durable
  <1> QED
    BY <1>0, <1>2, <1>3, <1>4, CalmStepInv

\* An execution that reached the end has seen the recorded results.
LEMMA OutcomeFromRecords ==
    ASSUME Inv, NEW r \in Runs, ~AtOp(r)
    PROVE  FromRecords(obs[r])
  <1>1. \A f \in Ops : f < pc[r]
    BY RunFacts, ConstantsAssumption DEF AtOp, Ops
  <1> QED
    BY <1>1, RunFacts DEF RunInv, FromRecords

\* The ways a workflow function ends preserve the invariant.
LEMMA EndInv ==
    ASSUME Inv, NEW r \in Runs, EndStep(r)
    PROVE  Inv'
  <1>0. TypeInv'
    BY EndTypeInv DEF Inv
  <1>1. /\ EndFrame /\ GoTo(r, "done") /\ st[r] # "done"
        /\ BufferResults(r) \/ UNCHANGED resBuf
    BY DEF EndStep, Finish, RecordWorkflowError, ConflictResult
  <1>2. Calm
    BY <1>1, GoToFacts DEF Calm, EndFrame
  <1>3. DoneFrozen /\ st'[r] = "done"
    BY <1>1, <1>2, CalmInv, GoToFacts
  <1>4. ResInv'
    <2>1. \A x \in Executors : Left(resBuf[x])' /\ UNCHANGED resLocal
      <3>1. CASE UNCHANGED resBuf
        BY <1>1, <1>3, <3>1, LeftStable DEF Inv, ResInv, EndFrame
      <3>2. CASE BufferResults(r)
        <4>1. resBuf \in [Executors -> [Ops -> Rows]]
          BY DEF Inv, TypeInv, TypeOK
        <4> DEFINE rows == [g \in Ops |-> IF g \in buf[r] THEN obs[r][g] ELSE NoRow]
        <4>2. \A x \in Executors : resBuf'[x] = resBuf[x] \/ resBuf'[x] = rows
          BY <3>2, <4>1 DEF BufferResults
        <4>3. ASSUME NEW x \in Executors PROVE Left(resBuf[x])'
          <5>1. CASE resBuf'[x] = resBuf[x]
            BY <1>3, <5>1, LeftStable DEF Inv, ResInv
          <5>2. CASE resBuf'[x] = rows
            BY <1>2, <1>3, <5>2 DEF Left, LeftBy, Calm
          <5> QED
            BY <4>2, <5>1, <5>2
        <4> QED
          BY <1>1, <4>3 DEF EndFrame
      <3> QED
        BY <1>1, <3>1, <3>2
    <2> QED
      BY <1>3, <2>1, LeftStable DEF Inv, ResInv
  <1>5. OutcomeRecorded'
    <2>1. UNCHANGED <<rec, wfOut, statusLocal>> /\ (wfStatus' = "SUCCESS" => wfStatus = "SUCCESS")
      BY DEF EndStep, Finish, RecordWorkflowError, ConflictResult, EndFrame
    <2>2. ASSUME NEW x \in Executors, statusBuf'[x] # NoRow PROVE FromRecords(statusBuf'[x])
      <3>1. CASE UNCHANGED statusBuf
        BY <2>2, <3>1 DEF Inv, OutcomeRecorded
      <3>2. CASE Finish(r)
        <4>1. statusBuf \in [Executors -> [Ops -> Rows] \cup {NoRow}]
          BY DEF Inv, TypeInv, TypeOK
        <4>2. statusBuf'[x] = statusBuf[x] \/ statusBuf'[x] = obs[r]
          BY <3>2, <4>1 DEF Finish, Outcome
        <4>3. FromRecords(obs[r])
          BY <3>2, OutcomeFromRecords DEF Finish
        <4> QED
          BY <2>2, <4>2, <4>3 DEF Inv, OutcomeRecorded
      <3> QED
        BY <3>1, <3>2 DEF EndStep, RecordWorkflowError, ConflictResult
    <2> QED
      BY <2>1, <2>2 DEF Inv, OutcomeRecorded, FromRecords, Durable
  <1> QED
    BY <1>0, <1>2, <1>4, <1>5, CalmStepInv

\* The flush of the results an execution left records them for that execution.
LEMMA FlushResultsShape ==
    ASSUME Inv, NEW x \in Executors, FlushResults(x)
    PROVE  UNCHANGED rec \/ \E r \in Runs : st[r] = "done" /\ Records(r, buf[r]) /\ Behind(r, buf[r])
  <1>1. UNCHANGED <<st, obs, buf, pc, effects>>
    BY DEF FlushResults, FlushFrame, runVars
  <1> DEFINE rows == resLocal[x]
  <1>2. CASE UNCHANGED rec
    BY <1>2
  <1>3. CASE KeysFree(Keys(rows)) /\ rec' = Inserted(Keys(rows), rows)
    <2>1. CASE rows = NoRows
      <3>1. Keys(rows) = {}
        BY <2>1 DEF Keys, NoRows
      <3>2. rec \in [Ops -> Rows]
        BY DEF Inv, TypeInv, TypeOK
      <3> QED
        BY <1>3, <3>1, <3>2, InsertedNothing
    <2>2. ASSUME NEW r \in Runs, LeftBy(rows, r)
          PROVE  st[r] = "done" /\ Records(r, buf[r]) /\ Behind(r, buf[r])
      <3>1. /\ st[r] = "done"
            /\ rows = [g \in Ops |-> IF g \in buf[r] THEN obs[r][g] ELSE NoRow]
        BY <2>2 DEF LeftBy
      <3>2. buf[r] \subseteq Ops /\ \A g \in buf[r] : obs[r][g] # NoRow
        BY RunFacts, RowFacts DEF RunInv
      <3>3. Keys(rows) = buf[r]
        BY <3>1, <3>2 DEF Keys
      <3>4. Inserted(Keys(rows), rows) = Inserted(buf[r], obs[r])
        BY <3>1, <3>3 DEF Inserted
      <3>5. Records(r, buf[r])
        BY <1>1, <1>3, <3>2, <3>3, <3>4, RunFacts DEF Records
      <3>6. Behind(r, buf[r])
        BY <1>1, <3>1, RunFacts DEF Behind
      <3> QED
        BY <3>1, <3>5, <3>6
    <2> QED
      BY <2>1, <2>2 DEF Inv, ResInv, Left
  <1> QED
    BY <1>2, <1>3 DEF FlushResults

\* The periodic flush, crashes, restarts and commands preserve the invariant.
LEMMA ExecutorInv ==
    ASSUME Inv, NEW x \in Executors, FlushStep(x) \/ Crash(x) \/ Restart(x)
    PROVE  Inv'
  <1>0. TypeInv'
    BY ExecutorTypeInv DEF Inv
  <1>t. /\ resBuf \in [Executors -> [Ops -> Rows]] /\ resLocal \in [Executors -> [Ops -> Rows]]
        /\ statusBuf \in [Executors -> [Ops -> Rows] \cup {NoRow}]
        /\ statusLocal \in [Executors -> [Ops -> Rows] \cup {NoRow}]
    BY DEF Inv, TypeInv, TypeOK
  <1>n. ASSUME UNCHANGED <<st, obs, buf>> PROVE DoneFrozen
    BY <1>n DEF DoneFrozen
  <1>l. Left(NoRows)'
    BY DEF Left, NoRows
  <1>1. CASE FlushTake(x)
    <2>1. Calm /\ DoneFrozen
      BY <1>1, <1>n DEF FlushTake, FlushFrame, runVars, Calm
    <2>2. OutcomeRecorded'
      BY <1>1 DEF FlushTake, Inv, OutcomeRecorded, FromRecords, Durable
    <2>3. ASSUME NEW y \in Executors PROVE Left(resBuf[y])' /\ Left(resLocal[y])'
      <3>1. resBuf'[y] = resBuf[y] \/ resBuf'[y] = NoRows
        BY <1>1, <1>t DEF FlushTake
      <3>2. resLocal'[y] = resLocal[y] \/ resLocal'[y] = resBuf[y]
        BY <1>1, <1>t DEF FlushTake
      <3> QED
        BY <1>l, <2>1, <3>1, <3>2, LeftStable DEF Inv, ResInv
    <2> QED
      BY <1>0, <2>1, <2>2, <2>3, CalmStepInv DEF ResInv
  <1>2. CASE FlushResults(x)
    <2>1. UNCHANGED <<st, obs, buf, pc, effects>> /\ DoneFrozen
      BY <1>2, <1>n DEF FlushResults, FlushFrame, runVars
    <2>2. UNCHANGED rec \/ \E r \in Runs : st[r] = "done" /\ Records(r, buf[r]) /\ Behind(r, buf[r])
      BY <1>2, FlushResultsShape
    <2>3. ASSUME NEW y \in Executors PROVE Left(resBuf[y])' /\ Left(resLocal[y])'
      <3>1. resBuf'[y] = resBuf[y] \/ resBuf'[y] = resLocal[y]
        BY <1>2, <1>t DEF FlushResults, GiveBack
      <3>2. resLocal'[y] = resLocal[y] \/ resLocal'[y] = NoRows
        BY <1>2, <1>t DEF FlushResults
      <3> QED
        BY <1>l, <2>1, <3>1, <3>2, LeftStable DEF Inv, ResInv
    <2>4. RecGrows /\ RunsInv' /\ SleepRows' /\ ExactlyOnce' /\ (~CommitAborts => NoGaps')
      <3>1. CASE UNCHANGED rec
        <4>1. Calm
          BY <2>1, <3>1 DEF Calm
        <4> QED
          BY <3>1, <4>1, CalmInv DEF RecGrows
      <3>2. ASSUME NEW r \in Runs, Records(r, buf[r]), Behind(r, buf[r])
            PROVE  RecGrows /\ RunsInv' /\ SleepRows' /\ ExactlyOnce' /\ (~CommitAborts => NoGaps')
        <4>1. OpTypes'
          BY <1>0 DEF TypeInv, TypeOK, OpTypes
        <4>2. Alone(r)
          BY <2>1 DEF Alone
        <4> QED
          BY <3>2, <4>1, <4>2, RecordsRows, RecordsRuns, RecordsSleepRows, RecordsExactlyOnce,
             RecordsNoGaps
      <3> QED
        BY <2>2, <3>1, <3>2
    <2>5. OutcomeRecorded'
      <3>1. UNCHANGED <<wfStatus, wfOut>>
        BY <1>2 DEF FlushResults
      <3>2. ASSUME NEW out, FromRecords(out) PROVE FromRecords(out)'
        BY <2>4, <3>2, RowFacts DEF FromRecords, RecGrows, Durable
      <3>3. ASSUME NEW y \in Executors
            PROVE  /\ statusBuf'[y] = statusBuf[y] \/ statusBuf'[y] = NoRow
                   /\ statusLocal'[y] = statusLocal[y] \/ statusLocal'[y] = statusBuf[y]
        BY <1>2, <1>t DEF FlushResults
      <3> QED
        BY <3>1, <3>2, <3>3 DEF Inv, OutcomeRecorded
    <2> QED
      BY <1>0, <2>3, <2>4, <2>5 DEF Inv, ResInv
  <1>3. CASE FlushStatus(x)
    <2>1. Calm /\ DoneFrozen
      BY <1>3, <1>n DEF FlushStatus, FlushFrame, runVars, Calm
    <2>2. ResInv'
      BY <1>3, <2>1, LeftStable DEF FlushStatus, Inv, ResInv
    <2>3. OutcomeRecorded'
      <3>1. UNCHANGED rec
        BY <1>3 DEF FlushStatus
      <3>2. wfStatus' = "SUCCESS" => FromRecords(wfOut')
        BY <1>3 DEF FlushStatus, Inv, OutcomeRecorded
      <3>3. ASSUME NEW y \in Executors
            PROVE  /\ statusBuf'[y] # NoRow => FromRecords(statusBuf'[y])
                   /\ statusLocal'[y] # NoRow => FromRecords(statusLocal'[y])
        <4>1. statusBuf'[y] = statusBuf[y] \/ statusBuf'[y] = statusLocal[y]
          BY <1>3, <1>t DEF FlushStatus, GiveBack
        <4>2. statusLocal'[y] = statusLocal[y] \/ statusLocal'[y] = NoRow
          BY <1>3, <1>t DEF FlushStatus
        <4> QED
          BY <4>1, <4>2 DEF Inv, OutcomeRecorded
      <3> QED
        BY <3>1, <3>2, <3>3 DEF OutcomeRecorded, FromRecords, Durable
    <2> QED
      BY <1>0, <2>1, <2>2, <2>3, CalmStepInv
  <1>4. CASE Crash(x)
    <2>1. Calm
      BY <1>4, RunFacts DEF Crash, Calm, Ended, dbVars
    <2>2. DoneFrozen
      BY <2>1, CalmInv
    <2>3. OutcomeRecorded'
      BY <1>4, <1>t DEF Crash, Inv, OutcomeRecorded, FromRecords, Durable, dbVars
    <2>4. ASSUME NEW y \in Executors PROVE Left(resBuf[y])' /\ Left(resLocal[y])'
      <3>1. resBuf'[y] = resBuf[y] \/ resBuf'[y] = NoRows
        BY <1>4, <1>t DEF Crash
      <3>2. resLocal'[y] = resLocal[y] \/ resLocal'[y] = NoRows
        BY <1>4, <1>t DEF Crash
      <3> QED
        BY <1>l, <2>2, <3>1, <3>2, LeftStable DEF Inv, ResInv
    <2> QED
      BY <1>0, <2>1, <2>3, <2>4, CalmStepInv DEF ResInv
  <1>5. CASE Restart(x)
    <2>1. Calm /\ DoneFrozen
      BY <1>5, <1>n DEF Restart, runVars, dbVars, Calm
    <2>2. ResInv'
      BY <1>5, <2>1, LeftStable DEF Restart, Inv, ResInv
    <2>3. OutcomeRecorded'
      BY <1>5 DEF Restart, dbVars, Inv, OutcomeRecorded, FromRecords, Durable
    <2> QED
      BY <1>0, <2>1, <2>2, <2>3, CalmStepInv
  <1> QED
    BY <1>1, <1>2, <1>3, <1>4, <1>5 DEF FlushStep

\* Every step preserves the invariant.
LEMMA StepInv == Inv /\ [Next]_vars => Inv'
  <1> SUFFICES ASSUME Inv, [Next]_vars PROVE Inv'
    OBVIOUS
  <1>0. TypeInv'
    BY StepTypeInv DEF Inv
  <1>1. CASE \E r \in Runs, x \in Executors :
                \/ \E given \in BOOLEAN, a \in Args : Invoke(r, x, given, a)
                \/ Recover(r, x)
                \/ Resume(r, x)
    BY <1>1, StartInv
  <1>2. CASE \E r \in Runs : RunStep(r)
    BY <1>0, <1>2, StartInv, TxnShape, OpShape, ShapeInv, EndInv DEF RunStep
  <1>3. CASE \E x \in Executors : FlushStep(x) \/ Crash(x) \/ Restart(x)
    BY <1>3, ExecutorInv
  <1>4. CASE Cancel \/ UNCHANGED vars
    <2>1. /\ UNCHANGED <<rec, wfOut, runVars, execVars, effects>>
          /\ wfStatus' = "SUCCESS" => wfStatus = "SUCCESS"
      BY <1>4 DEF Cancel, vars, dbVars
    <2>2. Calm /\ DoneFrozen
      BY <2>1 DEF Calm, DoneFrozen, runVars
    <2>3. ResInv'
      BY <2>1, <2>2, LeftStable DEF Inv, ResInv, execVars
    <2>4. OutcomeRecorded'
      BY <2>1 DEF Inv, OutcomeRecorded, FromRecords, execVars, Durable
    <2> QED
      BY <1>0, <2>2, <2>3, <2>4, CalmStepInv
  <1> QED
    BY <1>1, <1>2, <1>3, <1>4 DEF Next

\* The inductive invariant holds throughout: what executions have seen, what the
\* buffers hold and what the database records stay in agreement.
THEOREM Invariant == Spec => []Inv
  BY InitInv, StepInv, PTL DEF Spec

-----------------------------------------------------------------------------
(* What follows from it.                                                    *)

\* Write transactions, sends and events take effect exactly once, however often
\* the workflow is executed, wherever it crashes, whatever is retried.
THEOREM EffectsExactlyOnce == Spec => []ExactlyOnce
  <1>1. Inv => ExactlyOnce
    BY DEF Inv
  <1> QED
    BY <1>1, Invariant, PTL

\* All executions agree on the results of all operations but the reads.
THEOREM ExecutionsAgree == Spec => []ObservedRecorded
  <1>1. Inv => ObservedRecorded
    BY DEF Inv, RunsInv, RunInv, ObservedRecorded
  <1> QED
    BY <1>1, Invariant, PTL

\* An outcome is only ever reported from recorded results.
THEOREM OutcomesRecorded == Spec => []OutcomeRecorded
  <1>1. Inv => OutcomeRecorded
    BY DEF Inv
  <1> QED
    BY <1>1, Invariant, PTL

\* Where no COMMIT fails for serialization, the record of a workflow has no gaps,
\* whatever operations the workflow is made of.
THEOREM RecordHasNoGaps == ASSUME ~CommitAborts PROVE Spec => []NoGaps
  <1>1. Inv => NoGaps
    BY DEF Inv
  <1> QED
    BY <1>1, Invariant, PTL

-----------------------------------------------------------------------------
(* Every step, as the journal sees it.                                      *)

\* Every step either leaves the record alone or inserts results of one execution.
LEMMA StepShape ==
    ASSUME Inv, [Next]_vars
    PROVE  \/ UNCHANGED <<rec, effects>>
           \/ /\ UNCHANGED wfStatus
              /\ \E r \in Runs, S \in SUBSET Ops : Records(r, S)
  <1>1. CASE \E r \in Runs : TxnStep(r) \/ OpStep(r)
    <2>1. PICK r \in Runs : Shape(r)
      BY <1>1, TxnShape, OpShape
    <2> QED
      BY <2>1 DEF Shape, Calm, RunFrame
  <1>2. CASE \E r \in Runs : StartStep(r) \/ EndStep(r)
    BY <1>2 DEF StartStep, EndStep, ReadInputs, InitStatus, DeadLetter, InitInputs, ResetAttempts,
                Finish, RecordWorkflowError, ConflictResult, EndFrame, dbVars
  <1>3. CASE \E r \in Runs, x \in Executors :
                \/ \E given \in BOOLEAN, a \in Args : Invoke(r, x, given, a)
                \/ Recover(r, x)
                \/ Resume(r, x)
    BY ZenonT(30), <1>3 DEF Invoke, Recover, Resume, dbVars
  <1>4. CASE \E x \in Executors : FlushResults(x)
    <2>1. UNCHANGED <<wfStatus, effects>>
      BY <1>4 DEF FlushResults, FlushFrame
    <2>2. UNCHANGED rec \/ \E r \in Runs : Records(r, buf[r])
      BY <1>4, FlushResultsShape
    <2>3. \A r \in Runs : buf[r] \in SUBSET Ops
      BY DEF Inv, TypeInv, TypeOK
    <2> QED
      BY <2>1, <2>2, <2>3
  <1>5. CASE \E x \in Executors : FlushTake(x) \/ FlushStatus(x) \/ Crash(x) \/ Restart(x)
    BY <1>5 DEF FlushTake, FlushStatus, Crash, Restart, FlushFrame, dbVars
  <1>6. CASE Cancel \/ UNCHANGED vars
    BY <1>6 DEF Cancel, vars, dbVars
  <1> QED
    BY <1>1, <1>2, <1>3, <1>4, <1>5, <1>6 DEF Next, RunStep, FlushStep

\* Where no COMMIT fails for serialization, a result is recorded only by an
\* execution that has seen exactly the recorded results of what precedes it.
THEOREM RecordIsCausal == ASSUME ~CommitAborts PROVE Spec => CausalRecord
  <1>1. ASSUME Inv, Inv', [Next]_vars, NEW f \in Ops, rec[f] = NoRow, rec'[f] # NoRow
        PROVE  \E r \in Runs : \A g \in Ops : g = f \/ Precedes(g, f) => obs'[r][g] = rec'[g]
    <2>1. OpTypes'
      BY <1>1 DEF Inv, TypeInv, TypeOK, OpTypes
    <2>2. PICK r \in Runs, S \in SUBSET Ops : Records(r, S)
      BY <1>1, StepShape
    <2>3. \A g \in Ops : g = f \/ Precedes(g, f) => obs'[r][g] = rec'[g]
      BY <1>1, <2>1, <2>2, RecordsCausal
    <2> QED
      BY <2>3
  <1>2. Inv /\ Inv' /\ [Next]_vars
          => [\A f \in Ops : rec[f] = NoRow /\ rec'[f] # NoRow =>
                 \E r \in Runs : \A g \in Ops : g = f \/ Precedes(g, f) => obs'[r][g] = rec'[g]]_vars
    BY <1>1
  <1> QED
    BY <1>2, Invariant, PTL DEF CausalRecord, Spec

\* A non-empty set of operations has a last one.
LEMMA LastOf ==
    ASSUME NEW S \in SUBSET Ops, S # {}
    PROVE  \E n \in S : \A f \in S : f <= n
  <1> DEFINE T == {k \in Nat : NumOps - k \in S}
  <1>1. T \subseteq Nat /\ T # {}
    <2>1. PICK f \in S : TRUE
      OBVIOUS
    <2>2. NumOps - f \in Nat /\ NumOps - (NumOps - f) = f
      BY ConstantsAssumption DEF Ops
    <2> QED
      BY <2>1, <2>2
  <1>2. PICK k \in T : \A j \in T : ~(<<j, k>> \in OpToRel(<, Nat))
    <2> HIDE DEF T
    <2> QED
      BY <1>1, WFMin, NatLessThanWellFounded, Zenon
  <1>3. \A j \in T : ~(j < k)
    BY <1>2 DEF OpToRel
  <1>4. ASSUME NEW f \in S PROVE f <= NumOps - k
    <2>1. NumOps - f \in Nat /\ NumOps - (NumOps - f) = f /\ f \in Nat
      BY ConstantsAssumption DEF Ops
    <2>2. NumOps - f \in T
      BY <2>1
    <2> QED
      BY <1>3, <2>1, <2>2, ConstantsAssumption
  <1> QED
    BY <1>4

-----------------------------------------------------------------------------
(* The journal is implemented.                                              *)

\* An insertion is one Extend step of the journal.
LEMMA RecordsExtend ==
    ASSUME Inv, OpTypes', ~CommitAborts, UNCHANGED wfStatus,
           NEW r \in Runs, NEW S \in SUBSET Ops, Records(r, S), S # {}
    PROVE  \E n \in Ops : Journal!Extend(n)
  <1>1. PICK n \in S : \A f \in S : f <= n
    BY LastOf
  <1>2. /\ \A f \in Ops : rec'[f] = IF f \in S THEN obs'[r][f] ELSE rec[f]
        /\ \A f \in S : rec[f] = NoRow
        /\ \A f \in S : f \in buf[r] => ~Durable(f) /\ f < pc[r] /\ obs'[r][f] \in Vals
        /\ \A f \in S : f \in buf[r] \/ f = pc[r]
    BY RecordsRows
  <1>3. \A f \in S : obs'[r][f] \in Results
    BY <1>2 DEF Records, Results
  <1>4. \A f \in S : rec'[f] # NoRow
    BY <1>2, <1>3, ConstantsAssumption
  <1>5. n \in Ops /\ Ops \subseteq Nat /\ pc[r] \in Nat
    BY RunFacts DEF Ops
  <1>6. n <= pc[r]
    BY <1>2, <1>5
  <1>7. \A f \in 1 .. n - 1 : rec[f] = NoRow => f \in Ops /\ ~Durable(f)
    <2> SUFFICES ASSUME NEW f \in 1 .. n - 1, rec[f] = NoRow PROVE f \in Ops /\ ~Durable(f)
      OBVIOUS
    <2>1. f \in Ops /\ f < pc[r]
      BY <1>5, <1>6, ConstantsAssumption DEF Ops
    <2> QED
      BY <2>1, RunFacts, RowFacts DEF RunInv
  <1> DEFINE With == {f \in 1 .. n : rec[f] = NoRow /\ (f = n \/ n \notin {h \in Ops : ~Flushes(h)})}
  <1>8. ASSUME NEW f \in Ops
        PROVE  IF f \in With THEN rec'[f] # NoRow ELSE rec'[f] = rec[f]
    <2>1. CASE f \in With
      <3>1. f = n \/ Precedes(f, n)
        BY <1>5, <2>1 DEF Ops, Precedes
      <3>2. rec[n] = NoRow /\ rec'[n] # NoRow
        BY <1>2, <1>4
      <3> QED
        BY <1>5, <2>1, <3>1, <3>2, RecordsCausal
    <2>2. CASE f \notin With
      <3>1. f \notin S
        <4> SUFFICES ASSUME f \in S PROVE FALSE
          OBVIOUS
        <4>1. f \in 1 .. n /\ rec[f] = NoRow
          BY <1>1, <1>2, <1>5 DEF Ops
        <4>2. f # n /\ ~Flushes(n)
          BY <1>5, <2>2, <4>1
        <4>3. n = pc[r]
          BY <1>2, <4>2 DEF Durable, Flushes
        <4> QED
          BY <4>2, <4>3 DEF Records
      <3> QED
        BY <1>2, <2>2, <3>1
    <2> QED
      BY <2>1, <2>2
  <1>9. effects' = IF Effectful(n) /\ rec'[n] # Err
                   THEN [effects EXCEPT ![n] = @ + 1] ELSE effects
    <2>1. rec'[n] = obs'[r][n] /\ (rec'[n] # Err <=> obs'[r][n] \in Vals)
      BY <1>2, <1>3, RowFacts DEF Results
    <2>2. CASE n = pc[r]
      BY <2>1, <2>2 DEF Records
    <2>3. CASE n # pc[r]
      <3>1. pc[r] \notin S
        BY <1>1, <1>5, <1>6, <2>3
      <3>2. ~Effectful(n)
        BY <1>2, <2>3 DEF Durable, Effectful
      <3> QED
        BY <3>1, <3>2 DEF Records
    <2> QED
      BY <2>2, <2>3
  <1>10. rec' \in [Ops -> Vals \cup {Err, NoRow}]
    BY DEF OpTypes, Rows, Results
  <1>11. Journal!Extend(n)
    BY <1>2, <1>5, <1>7, <1>8, <1>9, <1>10 DEF Journal!Extend, Journal!With, Journal!Ops, Journal!Rows, Ops
  <1> QED
    BY <1>5, <1>11

\* Every step is a step of the journal or leaves it unchanged.
LEMMA StepJournal ==
    ASSUME Inv, Inv', ~CommitAborts, [Next]_vars
    PROVE  [Journal!Next]_(Journal!vars)
  <1>1. CASE UNCHANGED <<rec, effects>>
    <2>1. CASE UNCHANGED wfStatus
      BY <1>1, <2>1 DEF Journal!vars
    <2>2. CASE wfStatus' # "SUCCESS"
      BY <1>1, <2>2 DEF Journal!Next, Journal!Replace
    <2>3. CASE wfStatus' = "SUCCESS"
      <3>1. \A f \in Ops : Durable(f) => rec[f] \in Vals
        BY <1>1, <2>3 DEF Inv, OutcomeRecorded, FromRecords, Durable
      <3> QED
        BY <1>1, <2>3, <3>1 DEF Journal!Next, Journal!Succeed, Journal!Ops, Ops
    <2> QED
      BY <2>2, <2>3
  <1>2. CASE UNCHANGED wfStatus /\ \E r \in Runs, S \in SUBSET Ops : Records(r, S)
    <2>1. PICK r \in Runs, S \in SUBSET Ops : Records(r, S)
      BY <1>2
    <2>2. OpTypes'
      BY DEF Inv, TypeInv, TypeOK, OpTypes
    <2>3. CASE S = {}
      <3>1. UNCHANGED <<rec, effects>>
        BY <2>1, <2>3, InsertedNothing, RunFacts DEF Records
      <3> QED
        BY <1>2, <3>1 DEF Journal!vars
    <2>4. CASE S # {}
      BY <1>2, <2>1, <2>2, <2>4, RecordsExtend DEF Journal!Next, Journal!Ops, Ops
    <2> QED
      BY <2>3, <2>4
  <1> QED
    BY <1>1, <1>2, StepShape

\* The initial states are initial states of the journal.
LEMMA InitJournal == Init => Journal!Init
  BY DEF Init, Journal!Init, NoRows, Journal!Ops, Ops

\* Durable execution implements the journal: with crashes, duplicates, recoveries
\* and retries it looks like one execution that appends to a journal.
THEOREM ImplementsJournal == ASSUME ~CommitAborts PROVE Spec => JournalSpec
  <1>1. Inv /\ Inv' /\ [Next]_vars => [Journal!Next]_(Journal!vars)
    BY StepJournal
  <1> QED
    BY <1>1, InitJournal, Invariant, PTL DEF Spec, JournalSpec, Journal!Spec

-----------------------------------------------------------------------------
(* Executions one after the other: a complete step is not run again.        *)

\* At most one execution has not ended.
OneAtATime == \A q, r \in Runs : q # r => st[q] \in Ended \/ st[r] \in Ended

\* While a step's function executes, the step has no record.
StepOpen == \A r \in Runs : st[r] = "body" /\ Doing(r, {"step"}) => rec[pc[r]] = NoRow

\* An execution comes into, or stays in, the body of an operation without changing
\* the record; it comes there when it found none.
LEMMA EntersBody ==
    ASSUME Inv, NEW r \in Runs, TxnStep(r) \/ OpStep(r) \/ EndStep(r), st'[r] = "body"
    PROVE  UNCHANGED <<rec, pc>> /\ (st[r] = "body" \/ rec[pc[r]] = NoRow)
  <1>1. st \in [Runs -> RunStates]
    BY RunFacts
  <1> USE DEF GoTo, Advance
  <1>2. CASE TxnStep(r)
    BY <1>1, <1>2
    DEF TxnStep, TxnBegin, TxnThrow, TxnRetry, TxnCommitRetry, TxnRecordError, TxnReadOnly, TxnCommit
  <1>3. CASE FlushResultBuffer(r) \/ RecordOperation(r) \/ NotifyThrows(r)
    BY <1>1, <1>3 DEF FlushResultBuffer, RecordOperation, NotifyThrows
  <1>4. CASE CheckOperation(r)
    BY <1>1, <1>4 DEF CheckOperation, CheckedRow
  <1>5. CASE StepThrows(r)
    BY <1>1, <1>5 DEF StepThrows
  <1>6. CASE \E v \in Vals : BodyReturns(r, v) \/ NotifyCommit(r, v) \/ Sleep(r, v)
    BY <1>1, <1>6 DEF BodyReturns, NotifyCommit, Sleep
  <1>7. CASE EndStep(r)
    BY <1>1, <1>7 DEF EndStep, Finish, RecordWorkflowError, ConflictResult
  <1> QED
    BY <1>2, <1>3, <1>4, <1>5, <1>6, <1>7 DEF OpStep

\* Where no two executions overlap, every step keeps it so and keeps the steps
\* that execute unrecorded: only the execution itself could record one, the
\* periodic flush writes reads.
LEMMA StepStepOpen ==
    ASSUME Exclusive, Inv, OneAtATime, StepOpen, [Next]_vars
    PROVE  OneAtATime' /\ StepOpen'
  <1>1. st \in [Runs -> RunStates] /\ pc \in [Runs -> 1 .. NumOps + 1] /\ TypeInv
    BY DEF Inv, TypeInv, TypeOK
  <1>2. CASE \E r \in Runs, x \in Executors :
                \/ \E given \in BOOLEAN, a \in Args : Invoke(r, x, given, a)
                \/ Recover(r, x)
                \/ Resume(r, x)
    <2>1. PICK r \in Runs :
             /\ Quiet /\ UNCHANGED <<rec, pc>> /\ st'[r] # "body"
             /\ \A q \in Runs : q # r => st'[q] = st[q]
      <3>1. CASE \E r \in Runs, x \in Executors, given \in BOOLEAN, a \in Args : Invoke(r, x, given, a)
        BY <1>1, <3>1 DEF Invoke, GoTo, dbVars
      <3>2. CASE \E r \in Runs, x \in Executors : Recover(r, x)
        BY <1>1, <3>2 DEF Recover, GoTo, dbVars
      <3>3. CASE \E r \in Runs, x \in Executors : Resume(r, x)
        BY <1>1, <3>3 DEF Resume, GoTo
      <3> QED
        BY <1>2, <3>1, <3>2, <3>3
    <2> QED
      BY <2>1 DEF OneAtATime, StepOpen, Quiet, Ended
  <1>3. CASE \E r \in Runs : StartStep(r)
    <2>1. PICK r \in Runs :
             /\ st[r] \notin Ended /\ UNCHANGED <<rec, pc>> /\ st'[r] # "body"
             /\ \A q \in Runs : q # r => st'[q] = st[q]
      BY <1>1, <1>3
      DEF StartStep, ReadInputs, InitStatus, DeadLetter, InitInputs, ResetAttempts, GoTo, dbVars, Ended
    <2> QED
      BY <2>1 DEF OneAtATime, StepOpen, Ended
  <1>4. CASE \E r \in Runs : TxnStep(r) \/ OpStep(r) \/ EndStep(r)
    <2>1. PICK r \in Runs : TxnStep(r) \/ OpStep(r) \/ EndStep(r)
      BY <1>4
    <2>2. st[r] \notin Ended /\ \A q \in Runs : q # r => st'[q] = st[q]
      BY <1>1, <2>1, ExecutingSteps DEF Executing, Ended
    <2>3. OneAtATime'
      BY <2>2 DEF OneAtATime
    <2>4. \A q \in Runs : q # r => st'[q] \in Ended
      BY <2>2 DEF OneAtATime
    <2>5. st'[r] = "body" => UNCHANGED <<rec, pc>> /\ (st[r] = "body" \/ rec[pc[r]] = NoRow)
      BY <2>1, EntersBody
    <2>6. StepOpen'
      BY <2>4, <2>5 DEF StepOpen, Doing, AtOp, Ended
    <2> QED
      BY <2>3, <2>6
  <1>5. CASE \E x \in Executors : FlushResults(x)
    <2>1. UNCHANGED <<st, pc>>
      BY <1>5 DEF FlushResults, FlushFrame, runVars
    <2>2. \A f \in Ops : Durable(f) => rec'[f] = rec[f]
      <3>1. CASE UNCHANGED rec
        BY <3>1
      <3>2. CASE \E r \in Runs : Records(r, buf[r])
        <4>1. PICK r \in Runs : Records(r, buf[r])
          BY <3>2
        <4>2. \A g \in buf[r] : ~Durable(g)
          BY RunFacts DEF RunInv
        <4> QED
          BY <4>1, <4>2 DEF Records, Inserted
      <3> QED
        BY <1>5, <3>1, <3>2, FlushResultsShape
    <2> QED
      BY <2>1, <2>2 DEF OneAtATime, StepOpen, Doing, AtOp, Durable
  <1>6. CASE \/ \E x \in Executors : FlushTake(x) \/ FlushStatus(x) \/ Crash(x) \/ Restart(x)
             \/ Cancel
             \/ UNCHANGED vars
    <2>1. /\ UNCHANGED <<rec, pc>>
          /\ \A q \in Runs : st'[q] = st[q] \/ st'[q] = "crashed"
      <3>1. CASE \E x \in Executors : FlushTake(x) \/ FlushStatus(x)
        BY <3>1 DEF FlushTake, FlushStatus, FlushFrame, runVars
      <3>2. CASE \E x \in Executors : Crash(x) \/ Restart(x)
        BY <1>1, <3>2 DEF Crash, Restart, dbVars, runVars
      <3>3. CASE Cancel \/ UNCHANGED vars
        BY <3>3 DEF Cancel, vars, dbVars, runVars
      <3> QED
        BY <1>6, <3>1, <3>2, <3>3
    <2> QED
      BY <2>1 DEF OneAtATime, StepOpen, Doing, AtOp, Ended
  <1> QED
    BY <1>2, <1>3, <1>4, <1>5, <1>6 DEF Next, RunStep, FlushStep

\* Where executions of the UUID do not overlap, a step whose result is recorded is
\* never run again, whatever crashes in between.
THEOREM StepsNotRerun == ASSUME Exclusive PROVE Spec => CompleteStepNotRerun
  <1>1. Init => OneAtATime /\ StepOpen
    BY DEF Init, OneAtATime, StepOpen, Ended
  <1>2. Inv /\ OneAtATime /\ StepOpen /\ [Next]_vars => OneAtATime' /\ StepOpen'
    BY StepStepOpen
  <1>3. StepOpen => [\A r \in Runs : st[r] = "body" /\ Doing(r, {"step"}) /\ st'[r] = "record"
                        => rec[pc[r]] = NoRow]_vars
    BY DEF StepOpen
  <1> QED
    BY <1>1, <1>2, <1>3, Invariant, PTL DEF CompleteStepNotRerun, Spec

-----------------------------------------------------------------------------
(* The output of a workflow that ends with an operation that flushes.       *)

\* The function ends with a step, send or setEvent: it returns with nothing left
\* in its result buffer.
LastFlushes == NumOps > 0 /\ Kind[NumOps] \in {"step", "notify"}

\* An execution that is through has recorded or found everything it has seen.
Emptied == \A r \in Runs : pc[r] = NumOps + 1 => buf[r] = {}

\* The outcome is the whole record, which therefore cannot change any more.
WholeRecord(out) == out = rec /\ \A f \in Ops : rec[f] # NoRow
Outputs ==
    /\ wfStatus = "SUCCESS" => WholeRecord(wfOut)
    /\ \A x \in Executors :
          /\ statusBuf[x] # NoRow => WholeRecord(statusBuf[x])
          /\ statusLocal[x] # NoRow => WholeRecord(statusLocal[x])

\* No step changes or removes a row of the record.
LEMMA StepRecGrows ==
    ASSUME Inv, Inv', [Next]_vars
    PROVE  RecGrows
  <1>1. OpTypes'
    BY DEF Inv, TypeInv, TypeOK, OpTypes
  <1>2. CASE UNCHANGED rec
    BY <1>2 DEF RecGrows
  <1>3. CASE \E r \in Runs, S \in SUBSET Ops : Records(r, S)
    BY <1>1, <1>3, RecordsRows
  <1> QED
    BY <1>2, <1>3, StepShape

\* A whole record stays as it is.
LEMMA WholeStays ==
    ASSUME Inv, Inv', [Next]_vars, NEW out, WholeRecord(out)
    PROVE  rec' = rec /\ WholeRecord(out)'
  <1>1. rec \in [Ops -> Rows] /\ rec' \in [Ops -> Rows]
    BY DEF Inv, TypeInv, TypeOK
  <1>2. \A f \in Ops : rec'[f] = rec[f]
    BY StepRecGrows DEF RecGrows, WholeRecord
  <1>3. rec' = rec
    BY <1>1, <1>2
  <1> QED
    BY <1>3 DEF WholeRecord

\* The last operation is left with an empty buffer, by flushing before it.
LEMMA OpEmptied ==
    ASSUME Inv, LastFlushes, Emptied, NEW r \in Runs, TxnStep(r) \/ OpStep(r)
    PROVE  Emptied'
  <1>1. /\ pc \in [Runs -> 1 .. NumOps + 1] /\ st \in [Runs -> RunStates] /\ buf \in [Runs -> SUBSET Ops]
        /\ NumOps \in Nat /\ pc[r] \in Nat
    BY RunFacts, ConstantsAssumption
  <1>2. ASSUME NEW q \in Runs, q # r PROVE pc'[q] = pc[q] /\ buf'[q] = buf[q]
    <2> USE <1>1, <1>2 DEF Advance, GoTo
    <2>1. CASE TxnStep(r)
      BY <2>1 DEF TxnStep, TxnBegin, TxnThrow, TxnRetry, TxnCommitRetry, TxnRecordError,
                  TxnReadOnly, TxnCommit
    <2>2. CASE OpStep(r)
      BY <2>2 DEF OpStep, FlushResultBuffer, CheckOperation, StepThrows, RecordOperation,
                  NotifyThrows, BodyReturns, NotifyCommit, Sleep
    <2> QED
      BY <2>1, <2>2
  <1>3. CASE TxnStep(r)
    <2>1. Doing(r, {"rw", "ro"}) /\ (pc'[r] = pc[r] \/ pc'[r] = pc[r] + 1)
      BY <1>1, <1>3, RunFacts
      DEF TxnStep, TxnBegin, TxnThrow, TxnRetry, TxnCommitRetry, TxnRecordError,
          TxnReadOnly, TxnCommit, Advance
    <2>2. pc'[r] # NumOps + 1
      BY <1>1, <2>1 DEF Doing, AtOp, Ops, LastFlushes
    <2> QED
      BY <1>2, <2>2 DEF Emptied
  <1>4. CASE OpStep(r)
    <2>1. \/ pc'[r] = pc[r] /\ pc[r] \in Ops
          \/ pc'[r] = pc[r] + 1 /\ buf'[r] = buf[r] /\ pc[r] \in Ops
             /\ (st[r] \in {"check", "body", "record"} \/ ~Flushes(pc[r]))
      <3> USE <1>1 DEF Advance
      <3>1. CASE FlushResultBuffer(r)
        BY <3>1 DEF FlushResultBuffer, Doing, AtOp
      <3>2. CASE CheckOperation(r)
        BY <3>2, RunFacts DEF CheckOperation, Doing, AtOp, Flushes
      <3>3. CASE StepThrows(r) \/ RecordOperation(r) \/ NotifyThrows(r)
        BY <3>3, RunFacts DEF StepThrows, RecordOperation, NotifyThrows, Doing, AtOp
      <3>4. CASE \E v \in Vals : BodyReturns(r, v) \/ NotifyCommit(r, v) \/ Sleep(r, v)
        BY <3>4 DEF BodyReturns, NotifyCommit, Sleep, Doing, AtOp
      <3> QED
        BY <1>4, <3>1, <3>2, <3>3, <3>4 DEF OpStep
    <2>2. st[r] \in {"check", "body", "record"} /\ Flushes(pc[r]) => buf[r] = {}
      BY RunFacts DEF RunInv
    <2>3. ASSUME pc'[r] = NumOps + 1 PROVE buf'[r] = {}
      <3>1. pc[r] = NumOps /\ buf'[r] = buf[r]
            /\ (st[r] \in {"check", "body", "record"} \/ ~Flushes(pc[r]))
        BY <1>1, <2>1, <2>3 DEF Ops
      <3>2. Flushes(pc[r])
        BY <3>1 DEF LastFlushes, Flushes
      <3> QED
        BY <2>2, <3>1, <3>2
    <2> QED
      BY <1>2, <2>3 DEF Emptied
  <1> QED
    BY <1>3, <1>4

\* The steps other than operations leave position and buffer of every execution.
LEMMA OtherEmptied ==
    ASSUME Emptied,
           \/ \E r \in Runs : StartStep(r) \/ EndStep(r)
           \/ \E r \in Runs, x \in Executors :
                 \/ \E given \in BOOLEAN, a \in Args : Invoke(r, x, given, a)
                 \/ Recover(r, x)
                 \/ Resume(r, x)
           \/ \E x \in Executors : FlushStep(x) \/ Crash(x) \/ Restart(x)
           \/ Cancel
           \/ UNCHANGED vars
    PROVE  Emptied'
  <1>1. CASE \E r \in Runs : StartStep(r) \/ EndStep(r)
    BY <1>1 DEF StartStep, ReadInputs, InitStatus, DeadLetter, InitInputs, ResetAttempts,
                EndStep, Finish, RecordWorkflowError, ConflictResult, EndFrame, Emptied
  <1>2. CASE \E r \in Runs, x \in Executors :
                \/ \E given \in BOOLEAN, a \in Args : Invoke(r, x, given, a)
                \/ Recover(r, x)
                \/ Resume(r, x)
    BY <1>2 DEF Invoke, Recover, Resume, Emptied
  <1>3. CASE \E x \in Executors : FlushStep(x) \/ Crash(x) \/ Restart(x)
    BY <1>3 DEF FlushStep, FlushTake, FlushResults, FlushStatus, FlushFrame, Crash, Restart,
                runVars, Emptied
  <1>4. CASE Cancel \/ UNCHANGED vars
    BY <1>4 DEF Cancel, vars, runVars, Emptied
  <1> QED
    BY <1>1, <1>2, <1>3, <1>4

\* What a successful execution returns is the whole record.
LEMMA FinishWhole ==
    ASSUME Inv, ~CommitAborts, Emptied, NEW r \in Runs, Finish(r)
    PROVE  WholeRecord(obs[r])
  <1>1. pc[r] = NumOps + 1 /\ NumOps \in Nat
    BY RunFacts, ConstantsAssumption DEF Finish, AtOp, Ops
  <1>2. buf[r] = {}
    BY <1>1 DEF Emptied
  <1>3. ASSUME NEW f \in Ops PROVE obs[r][f] = rec[f] /\ rec[f] # NoRow
    <2>1. f < pc[r]
      BY <1>1 DEF Ops
    <2> QED
      BY <1>2, <2>1, RunFacts, RowFacts DEF RunInv, RunReads
  <1>4. obs[r] \in [Ops -> Rows] /\ rec \in [Ops -> Rows]
    BY RunFacts
  <1>5. obs[r] = rec
    BY <1>3, <1>4
  <1> QED
    BY <1>3, <1>5 DEF WholeRecord

\* Every step keeps outcomes, buffered or written, whole: a new one comes from an
\* execution that has just returned.
LEMMA StepOutputs ==
    ASSUME Inv, Inv', ~CommitAborts, Emptied, Outputs, [Next]_vars
    PROVE  Outputs'
  <1>1. \A out : WholeRecord(out) => WholeRecord(out)'
    BY WholeStays
  <1>2. /\ statusBuf \in [Executors -> [Ops -> Rows] \cup {NoRow}]
        /\ statusLocal \in [Executors -> [Ops -> Rows] \cup {NoRow}]
    BY DEF Inv, TypeInv, TypeOK
  <1>3. SUFFICES /\ wfStatus' = "SUCCESS" => WholeRecord(wfOut')
                 /\ \A y \in Executors :
                       /\ statusBuf'[y] # NoRow => WholeRecord(statusBuf'[y])
                       /\ statusLocal'[y] # NoRow => WholeRecord(statusLocal'[y])
    <2> HIDE DEF WholeRecord
    <2>1. wfStatus' = "SUCCESS" => WholeRecord(wfOut)'
      BY <1>1, <1>3
    <2> QED
      BY <1>1, <1>3, <2>1 DEF Outputs
  <1>4. CASE UNCHANGED <<wfOut, statusBuf, statusLocal>> /\ (wfStatus' = wfStatus \/ wfStatus' # "SUCCESS")
    BY <1>4 DEF Outputs
  <1>5. CASE \E r \in Runs : StartStep(r) \/ TxnStep(r) \/ OpStep(r)
    <2>1. CASE \E r \in Runs : StartStep(r)
      BY <1>4, <2>1
      DEF StartStep, ReadInputs, InitStatus, DeadLetter, InitInputs, ResetAttempts, dbVars, execVars
    <2>2. CASE \E r \in Runs : TxnStep(r) \/ OpStep(r)
      BY <1>4, <2>2, TxnShape, OpShape DEF Shape, RunFrame, execVars
    <2> QED
      BY <1>5, <2>1, <2>2
  <1>6. CASE \E r \in Runs : EndStep(r)
    <2>1. CASE \E r \in Runs : Finish(r)
      <3>1. PICK r \in Runs : Finish(r)
        BY <2>1
      <3>2. WholeRecord(obs[r])
        BY <3>1, FinishWhole
      <3> HIDE DEF WholeRecord
      <3> QED
        BY <1>2, <3>1, <3>2 DEF Finish, Outcome, EndFrame, Outputs
    <2>2. CASE \E r \in Runs : RecordWorkflowError(r) \/ ConflictResult(r)
      BY <1>4, <2>2 DEF RecordWorkflowError, ConflictResult, EndFrame
    <2> QED
      BY <1>6, <2>1, <2>2 DEF EndStep
  <1>7. CASE \E r \in Runs, x \in Executors :
                \/ \E given \in BOOLEAN, a \in Args : Invoke(r, x, given, a)
                \/ Recover(r, x)
                \/ Resume(r, x)
    BY ZenonT(30), <1>4, <1>7 DEF Invoke, Recover, Resume, dbVars, execVars
  <1>8. CASE \E x \in Executors : FlushStep(x)
    <2>1. CASE \E x \in Executors : FlushTake(x)
      BY <1>4, <2>1 DEF FlushTake
    <2>2. CASE \E x \in Executors : FlushResults(x)
      BY <1>2, <2>2 DEF FlushResults, Outputs
    <2>3. CASE \E x \in Executors : FlushStatus(x)
      BY <1>2, <2>3 DEF FlushStatus, GiveBack, Outputs
    <2> QED
      BY <1>8, <2>1, <2>2, <2>3 DEF FlushStep
  <1>9. CASE \E x \in Executors : Crash(x) \/ Restart(x)
    BY <1>2, <1>9 DEF Crash, Restart, Outputs, dbVars
  <1>10. CASE Cancel \/ UNCHANGED vars
    BY <1>4, <1>10 DEF Cancel, vars, dbVars, execVars
  <1> QED
    BY <1>5, <1>6, <1>7, <1>8, <1>9, <1>10 DEF Next, RunStep

\* Where the last operation flushes, invoking a UUID again never changes the output
\* that is stored for it: every execution that returns has seen the same record.
THEOREM OutputNeverChanges ==
    ASSUME ~CommitAborts, LastFlushes
    PROVE  Spec => OutputStable
  <1>1. Init => Emptied /\ Outputs
    BY ConstantsAssumption DEF Init, Emptied, Outputs
  <1>2. Inv /\ Inv' /\ Emptied /\ Outputs /\ [Next]_vars => Emptied' /\ Outputs'
    BY OpEmptied, OtherEmptied, StepOutputs DEF Next, RunStep
  <1>3. Inv /\ Inv' /\ Outputs /\ Outputs' /\ [Next]_vars
          => [wfStatus = "SUCCESS" /\ wfStatus' = "SUCCESS" => wfOut' = wfOut]_vars
    <2> SUFFICES ASSUME Inv, Inv', Outputs, Outputs', [Next]_vars,
                        wfStatus = "SUCCESS", wfStatus' = "SUCCESS"
                 PROVE  wfOut' = wfOut
      OBVIOUS
    <2>1. WholeRecord(wfOut) /\ WholeRecord(wfOut)'
      BY DEF Outputs
    <2>2. rec' = rec
      BY <2>1, WholeStays
    <2> QED
      BY <2>1, <2>2 DEF WholeRecord
  <1> QED
    BY <1>1, <1>2, <1>3, Invariant, PTL DEF OutputStable, Spec

=============================================================================
