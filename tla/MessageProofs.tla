---------------------------- MODULE MessageProofs ----------------------------
(***************************************************************************)
(* Proofs about messages, events and status queries on both system         *)
(* databases: what a step returned is what is on record, and both          *)
(* implement the mailbox.                                                  *)
(***************************************************************************)
EXTENDS SystemDatabase, TLAPS

-----------------------------------------------------------------------------
(* Where the executions are *)

\* Between its call and its return an execution is in one of these places, and
\* these are the operations that lead there.
Ops == [write |-> {"send", "setEvent"}, look |-> {"recv", "getEvent", "getStatus"},
        register |-> {"recv", "getEvent"}, sleep |-> {"recv", "getEvent"},
        wait |-> {"recv", "getEvent", "sleep"}, watch |-> {"recv", "getEvent"},
        consume |-> {"recv"}, reread |-> {"getEvent"}, record |-> {"getEvent", "getStatus"}]
Busy == {"write", "look", "register", "sleep", "wait", "watch", "consume", "reread", "record"}

Shaped(r) == /\ DOMAIN r = {"step", "pc", "at", "value", "woken"}
             /\ r.step \in Nat \ {0} /\ r.at \in 0..MaxTime
Doing(w, r) == r.pc \in Busy => r.step \in DOMAIN Steps[w] /\ Steps[w][r.step].op \in Ops[r.pc]

Placed == /\ ex = [e \in Executions |-> ex[e]]
          /\ \A e \in Executions : Shaped(ex[e]) /\ Doing(W(e), ex[e])
Clock == now \in 0..MaxTime
Dates == \A k \in DOMAIN deadlines : deadlines[k] \in 0..MaxTime

PlaceInv == Placed /\ Clock /\ Dates

LEMMA StepsShape ==
  ASSUME NEW e \in Executions
  PROVE  /\ W(e) \in Workflows /\ Len(Steps[W(e)]) \in Nat
         /\ DOMAIN Steps[W(e)] = 1..Len(Steps[W(e)])
BY NotificationsAssumption DEF W

LEMMA AtStepShape ==
  ASSUME NEW i \in Nat \ {0}
  PROVE  Shaped(AtStep(i)) /\ AtStep(i).step = i /\ AtStep(i).pc = "call"
BY NotificationsAssumption DEF AtStep, Shaped

LEMMA DeadlineInRange == Clock => Deadline \in 0..MaxTime
BY NotificationsAssumption DEF Clock, Deadline

\* A call of an execution that is in its steps.
LEMMA CallsInSteps ==
  ASSUME Placed, NEW e \in Executions, NEW op, Calls(e, op)
  PROVE  ex[e].step \in DOMAIN Steps[W(e)] /\ Steps[W(e)][ex[e].step].op = op
BY StepsShape DEF Placed, Shaped, Calls, Op

\* One execution moves to a place that fits its operation.
LEMMA OneMoves ==
  ASSUME Placed, NEW e \in Executions, NEW r, Shaped(r), Doing(W(e), r),
         ex' = [ex EXCEPT ![e] = r]
  PROVE  Placed' /\ ex'[e] = r /\ \A x \in Executions \ {e} : ex'[x] = ex[x]
BY DEF Placed, Shaped, Doing, W

LEMMA GotoMoves ==
  ASSUME Placed, NEW e \in Executions, NEW pc, Doing(W(e), [ex[e] EXCEPT !.pc = pc]), Goto(e, pc)
  PROVE  /\ Placed' /\ \A x \in Executions : ex'[x].step = ex[x].step
         /\ ex'[e].pc = pc /\ ex'[e].at = ex[e].at
         /\ \A x \in Executions \ {e} : ex'[x] = ex[x]
<1>1. ex' = [ex EXCEPT ![e] = [ex[e] EXCEPT !.pc = pc]]
  BY DEF Goto, Placed
<1>2. /\ Shaped([ex[e] EXCEPT !.pc = pc])
      /\ [ex[e] EXCEPT !.pc = pc].step = ex[e].step /\ [ex[e] EXCEPT !.pc = pc].pc = pc
      /\ [ex[e] EXCEPT !.pc = pc].at = ex[e].at
  BY DEF Placed, Shaped
<1> QED BY <1>1, <1>2, OneMoves

LEMMA ReturnMoves ==
  ASSUME Placed, NEW e \in Executions, NEW v, Return(e, v)
  PROVE  /\ Placed' /\ ex'[e] = AtStep(ex[e].step + 1)
         /\ \A x \in Executions \ {e} : ex'[x] = ex[x]
<1>1. ex[e].step + 1 \in Nat \ {0}
  BY DEF Placed, Shaped
<1>2. ex' = [ex EXCEPT ![e] = AtStep(ex[e].step + 1)]
  BY DEF Return, Placed
<1>3. Doing(W(e), AtStep(ex[e].step + 1))
  BY <1>1, AtStepShape DEF Doing, Busy
<1> QED BY <1>1, <1>2, <1>3, AtStepShape, OneMoves

-----------------------------------------------------------------------------
(* What a step does to the answers *)

\* No call returns; one of them returns, for a read what is on record.
SameSteps == \A x \in Executions : ex'[x].step = ex[x].step
Idles == SameSteps /\ UNCHANGED returned
OnRecord(e, v) == Durable(e) /\ Op(e).op \in Reads =>
                    Key(e) \in DOMAIN operation_outputs' /\ operation_outputs'[Key(e)] = v
Advances(e) == /\ ex'[e].step = ex[e].step + 1
               /\ \A x \in Executions \ {e} : ex'[x].step = ex[x].step
Answers(e) == \E v : /\ Advances(e) /\ OnRecord(e, v)
                     /\ returned' = [returned EXCEPT ![e] = Append(@, v)]

\* The record of a durable step is never changed.
Kept == \A w \in Workflows \ Clients, i \in Nat :
          <<w, i>> \in DOMAIN operation_outputs =>
             /\ <<w, i>> \in DOMAIN operation_outputs'
             /\ operation_outputs'[<<w, i>>] = operation_outputs[<<w, i>>]

LEMMA SameKept == UNCHANGED operation_outputs => Kept
BY DEF Kept

LEMMA RecordKeeps ==
  ASSUME Placed, NEW e \in Executions, ~Recorded(e), NEW v, Record(e, v)
  PROVE  /\ Kept /\ OnRecord(e, v)
         /\ DOMAIN operation_outputs' = DOMAIN operation_outputs \cup {Key(e)}
         /\ operation_outputs'[Key(e)] = v
         /\ \A k \in DOMAIN operation_outputs : k # Key(e) => operation_outputs'[k] = operation_outputs[k]
<1>1. operation_outputs' = [x \in DOMAIN operation_outputs \cup {Key(e)} |->
                              IF x = Key(e) THEN v ELSE operation_outputs[x]]
  BY DEF Record, Put
<1>2. /\ DOMAIN operation_outputs' = DOMAIN operation_outputs \cup {Key(e)}
      /\ operation_outputs'[Key(e)] = v
      /\ \A k \in DOMAIN operation_outputs : k # Key(e) => operation_outputs'[k] = operation_outputs[k]
  BY <1>1
<1>3. ASSUME NEW w \in Workflows \ Clients, NEW i \in Nat, <<w, i>> \in DOMAIN operation_outputs
      PROVE  <<w, i>> # Key(e)
  BY <1>3 DEF Recorded, Durable, Key
<1> QED BY <1>2, <1>3 DEF Kept, OnRecord

LEMMA ReturnAnswers ==
  ASSUME Placed, NEW e \in Executions, NEW v, Return(e, v), OnRecord(e, v)
  PROVE  Placed' /\ Answers(e)
<1>1. ex[e].step + 1 \in Nat \ {0}
  BY DEF Placed, Shaped
<1>2. Advances(e)
  BY <1>1, ReturnMoves, AtStepShape DEF Advances
<1>3. returned' = [returned EXCEPT ![e] = Append(@, v)]
  BY DEF Return
<1> QED BY <1>2, <1>3, ReturnMoves DEF Answers

LEMMA GotoIdles ==
  ASSUME Placed, NEW e \in Executions, NEW pc, Doing(W(e), [ex[e] EXCEPT !.pc = pc]), Goto(e, pc),
         UNCHANGED returned
  PROVE  Placed' /\ Idles
BY GotoMoves DEF Idles, SameSteps

\* Leaving the steps, and going from one place to another of the same step.
LEMMA GotoOut ==
  ASSUME Placed, NEW e \in Executions, NEW pc, pc \notin Busy
  PROVE  Doing(W(e), [ex[e] EXCEPT !.pc = pc])
BY DEF Placed, Shaped, Doing

LEMMA GotoWithin ==
  ASSUME Placed, NEW e \in Executions, NEW pc \in Busy,
         ex[e].step \in DOMAIN Steps[W(e)], Op(e).op \in Ops[pc]
  PROVE  Doing(W(e), [ex[e] EXCEPT !.pc = pc])
BY DEF Placed, Shaped, Doing, Op

LEMMA ConflictIdles ==
  ASSUME Placed, NEW e \in Executions, Conflict(e)
  PROVE  Placed' /\ Idles
<1>1. "conflict" \notin Busy
  BY DEF Busy
<1> QED BY <1>1, GotoOut, GotoIdles DEF Conflict

\* The same with a time or a value noted on the way.
LEMMA NoteIdles ==
  ASSUME Placed, NEW e \in Executions, NEW pc \in Busy, NEW t \in 0..MaxTime, NEW v,
         ex[e].step \in DOMAIN Steps[W(e)], Op(e).op \in Ops[pc],
         \/ ex' = [ex EXCEPT ![e].pc = pc, ![e].at = t]
         \/ ex' = [ex EXCEPT ![e].pc = pc, ![e].value = v],
         UNCHANGED returned
  PROVE  Placed' /\ Idles
<1>1. CASE ex' = [ex EXCEPT ![e].pc = pc, ![e].at = t]
  <2> DEFINE r == [ex[e] EXCEPT !.pc = pc, !.at = t]
  <2>1. ex' = [ex EXCEPT ![e] = r]
    BY <1>1 DEF Placed
  <2>2. Shaped(r) /\ r.step = ex[e].step /\ r.pc = pc
    BY DEF Placed, Shaped
  <2> HIDE DEF r
  <2>3. Doing(W(e), r)
    BY <2>2 DEF Doing, Op
  <2> QED BY <2>1, <2>2, <2>3, OneMoves DEF Idles, SameSteps
<1>2. CASE ex' = [ex EXCEPT ![e].pc = pc, ![e].value = v]
  <2> DEFINE r == [ex[e] EXCEPT !.pc = pc, !.value = v]
  <2>1. ex' = [ex EXCEPT ![e] = r]
    BY <1>2 DEF Placed
  <2>2. Shaped(r) /\ r.step = ex[e].step /\ r.pc = pc
    BY DEF Placed, Shaped
  <2> HIDE DEF r
  <2>3. Doing(W(e), r)
    BY <2>2 DEF Doing, Op
  <2> QED BY <2>1, <2>2, <2>3, OneMoves DEF Idles, SameSteps
<1> QED BY <1>1, <1>2

\* What an execution that is somewhere is doing.
LEMMA WhereItIs ==
  ASSUME Placed, NEW e \in Executions, NEW pc \in Busy, At(e, pc)
  PROVE  ex[e].step \in DOMAIN Steps[W(e)] /\ Op(e).op \in Ops[pc]
BY DEF Placed, Doing, At, Op

-----------------------------------------------------------------------------
(* The steps of Notifications *)

\* A step of e leaves every execution at a place that fits it, changes no
\* record, and answers with what is on record.
Fine(e) == PlaceInv' /\ Kept /\ (Idles \/ Answers(e))

LEMMA PlaceKept ==
  ASSUME PlaceInv, Placed', UNCHANGED <<now, deadlines>>
  PROVE  PlaceInv'
BY DEF PlaceInv, Clock, Dates

LEMMA StartFine ==
  ASSUME PlaceInv, NEW e \in Executions, Start(e) \/ Finish(e) \/ SendFails(e) \/ WriteConflicts(e)
  PROVE  Fine(e)
<1>1. PICK pc \in {"call", "done", "error", "conflict"} : Goto(e, pc)
  BY DEF Start, Finish, SendFails, WriteConflicts, Conflict
<1>2. UNCHANGED <<returned, operation_outputs, now, deadlines>>
  BY DEF Start, Finish, SendFails, WriteConflicts, Conflict, tables
<1>3. pc \notin Busy /\ Placed
  BY DEF Busy, PlaceInv
<1> QED BY <1>1, <1>2, <1>3, GotoOut, GotoIdles, PlaceKept, SameKept DEF Fine

LEMMA WriteBeginFine ==
  ASSUME PlaceInv, NEW e \in Executions, WriteBegin(e)
  PROVE  Fine(e)
<1>1. /\ UNCHANGED <<operation_outputs, now, deadlines>> /\ Placed /\ now \in 0..MaxTime
  BY DEF WriteBegin, tables, PlaceInv, Clock
<1>2. ex[e].step \in DOMAIN Steps[W(e)] /\ Op(e).op \in {"send", "setEvent"}
  BY <1>1, CallsInSteps DEF WriteBegin, Op
<1>3. CASE Return(e, Null)
  <2>1. OnRecord(e, Null)
    BY <1>2 DEF OnRecord, Reads
  <2> QED BY <1>1, <1>3, <2>1, ReturnAnswers, PlaceKept, SameKept DEF Fine
<1>4. CASE ex' = [ex EXCEPT ![e].pc = "write", ![e].at = now] /\ UNCHANGED returned
  <2>1. "write" \in Busy /\ Ops["write"] = {"send", "setEvent"}
    BY DEF Busy, Ops
  <2> QED BY <1>1, <1>2, <1>4, <2>1, NoteIdles, PlaceKept, SameKept DEF Fine
<1> QED BY <1>3, <1>4 DEF WriteBegin

LEMMA WriteFine ==
  ASSUME PlaceInv, NEW e \in Executions, Send(e) \/ SetEvent(e)
  PROVE  Fine(e)
<1>1. UNCHANGED <<now, deadlines>> /\ Placed /\ ~Recorded(e) /\ Record(e, Null) /\ Return(e, Null)
  BY DEF Send, SetEvent, PlaceInv
<1> QED BY <1>1, RecordKeeps, ReturnAnswers, PlaceKept DEF Fine

LEMMA CheckRecordFine ==
  ASSUME PlaceInv, NEW e \in Executions, CheckRecord(e)
  PROVE  Fine(e)
<1>1. /\ UNCHANGED <<operation_outputs, now, deadlines>> /\ Placed
  BY DEF CheckRecord, tables, PlaceInv
<1>2. ex[e].step \in DOMAIN Steps[W(e)] /\ Op(e).op \in {"recv", "getEvent", "getStatus"}
  BY <1>1, CallsInSteps DEF CheckRecord, Op
<1>3. CASE Recorded(e) /\ Return(e, operation_outputs[Key(e)])
  <2>1. OnRecord(e, operation_outputs[Key(e)])
    BY <1>1, <1>3 DEF OnRecord, Recorded
  <2> QED BY <1>1, <1>3, <2>1, ReturnAnswers, PlaceKept, SameKept DEF Fine
<1>4. CASE Goto(e, "look") /\ UNCHANGED returned
  <2>1. "look" \in Busy /\ Ops["look"] = {"recv", "getEvent", "getStatus"}
    BY DEF Busy, Ops
  <2> QED BY <1>1, <1>2, <1>4, <2>1, GotoWithin, GotoIdles, PlaceKept, SameKept DEF Fine
<1> QED BY <1>3, <1>4 DEF CheckRecord

LEMMA LookFine ==
  ASSUME PlaceInv, NEW e \in Executions, RecvLook(e) \/ EventLook(e) \/ StatusLook(e)
  PROVE  Fine(e)
<1>1. /\ UNCHANGED <<operation_outputs, now, deadlines, returned>> /\ Placed /\ At(e, "look")
  BY DEF RecvLook, EventLook, StatusLook, tables, PlaceInv
<1>2. ex[e].step \in DOMAIN Steps[W(e)]
  BY <1>1, WhereItIs DEF Busy
<1>3. CASE RecvLook(e)
  <2>1. PICK pc \in {"consume", "register"} : Goto(e, pc) /\ Op(e).op = "recv"
    BY <1>3 DEF RecvLook
  <2>2. pc \in Busy /\ "recv" \in Ops[pc]
    BY DEF Busy, Ops
  <2> QED BY <1>1, <1>2, <2>1, <2>2, GotoWithin, GotoIdles, PlaceKept, SameKept DEF Fine
<1>4. CASE EventLook(e)
  <2>1. PICK pc \in {"register", "record"} :
          ex' = [ex EXCEPT ![e].pc = pc, ![e].value = EventValue(e)] /\ Op(e).op = "getEvent"
    BY <1>4 DEF EventLook
  <2>2. pc \in Busy /\ "getEvent" \in Ops[pc] /\ 0 \in 0..MaxTime
    BY NotificationsAssumption DEF Busy, Ops
  <2>3. Placed' /\ Idles
    BY <1>1, <1>2, <2>1, <2>2, NoteIdles
  <2> QED BY <1>1, <2>3, PlaceKept, SameKept DEF Fine
<1>5. CASE StatusLook(e)
  <2>1. ex' = [ex EXCEPT ![e].pc = "record", ![e].value = workflow_status[Op(e).of]] /\ Op(e).op = "getStatus"
    BY <1>5 DEF StatusLook
  <2>2. "record" \in Busy /\ "getStatus" \in Ops["record"] /\ 0 \in 0..MaxTime
    BY NotificationsAssumption DEF Busy, Ops
  <2>3. Placed' /\ Idles
    BY <1>1, <1>2, <2>1, <2>2, NoteIdles
  <2> QED BY <1>1, <2>3, PlaceKept, SameKept DEF Fine
<1> QED BY <1>3, <1>4, <1>5

LEMMA WaitFine ==
  ASSUME PlaceInv, NEW e \in Executions, Register(e) \/ WaitEnds(e) \/ EventReread(e)
  PROVE  Fine(e)
<1>1. /\ UNCHANGED <<operation_outputs, now, deadlines, returned>> /\ Placed
  BY DEF Register, WaitEnds, EventReread, tables, PlaceInv
<1>2. CASE Register(e)
  <2>1. "sleep" \in Busy /\ "register" \in Busy /\ Ops["register"] = Ops["sleep"]
    BY DEF Busy, Ops
  <2>2. ex[e].step \in DOMAIN Steps[W(e)] /\ Op(e).op \in Ops["sleep"]
    BY <1>1, <1>2, <2>1, WhereItIs DEF Register
  <2> QED BY <1>1, <1>2, <2>1, <2>2, GotoWithin, GotoIdles, PlaceKept, SameKept DEF Fine, Register
<1>3. CASE WaitEnds(e)
  <2>1. PICK pc \in {"consume", "reread"} : Goto(e, pc) /\ Op(e).op \in Ops[pc]
    BY <1>3 DEF WaitEnds, Ops
  <2>2. pc \in Busy /\ ex[e].step \in DOMAIN Steps[W(e)]
    BY <1>1, <1>3, WhereItIs DEF WaitEnds, Busy
  <2> QED BY <1>1, <2>1, <2>2, GotoWithin, GotoIdles, PlaceKept, SameKept DEF Fine
<1>4. CASE EventReread(e)
  <2>1. ex' = [ex EXCEPT ![e].pc = "record", ![e].value = EventValue(e)] /\ At(e, "reread")
    BY <1>4 DEF EventReread
  <2>2. "reread" \in Busy /\ "record" \in Busy /\ Ops["reread"] \subseteq Ops["record"] /\ 0 \in 0..MaxTime
    BY NotificationsAssumption DEF Busy, Ops
  <2>3. ex[e].step \in DOMAIN Steps[W(e)] /\ Op(e).op \in Ops["record"]
    BY <1>1, <2>1, <2>2, WhereItIs
  <2>4. Placed' /\ Idles
    BY <1>1, <2>1, <2>2, <2>3, NoteIdles
  <2> QED BY <1>1, <2>4, PlaceKept, SameKept DEF Fine
<1> QED BY <1>2, <1>3, <1>4

LEMMA SleepStartFine ==
  ASSUME PlaceInv, NEW e \in Executions, SleepStart(e)
  PROVE  Fine(e)
<1>1. /\ UNCHANGED <<operation_outputs, now, returned>> /\ Placed /\ Clock /\ Dates
  BY DEF SleepStart, PlaceInv
<1>2. /\ "wait" \in Busy /\ "sleep" \in Busy
      /\ Ops["sleep"] \subseteq Ops["wait"] /\ "sleep" \in Ops["wait"]
  BY DEF Busy, Ops
<1>3. ex[e].step \in DOMAIN Steps[W(e)] /\ Op(e).op \in Ops["wait"]
  BY <1>1, <1>2, WhereItIs, CallsInSteps DEF SleepStart, Op
<1>4. Deadline \in 0..MaxTime
  BY <1>1, DeadlineInRange
<1>5. PICK t \in 0..MaxTime : ex' = [ex EXCEPT ![e].pc = "wait", ![e].at = t]
  BY <1>1, <1>4 DEF SleepStart, Dates
<1>6. Placed' /\ Idles
  BY <1>1, <1>2, <1>3, <1>5, NoteIdles
<1>7. Dates'
  BY <1>1, <1>4 DEF SleepStart, Dates, Put
<1>8. Clock'
  BY <1>1 DEF Clock
<1> QED BY <1>1, <1>6, <1>7, <1>8, SameKept DEF Fine, PlaceInv

LEMMA EndFine ==
  ASSUME PlaceInv, NEW e \in Executions, SleepEnds(e) \/ Result(e)
  PROVE  Fine(e)
<1>1. /\ UNCHANGED <<operation_outputs, now, deadlines>> /\ Placed
  BY DEF SleepEnds, Result, tables, PlaceInv
<1>2. Op(e).op \notin Reads
  BY DEF SleepEnds, Result, Reads, Calls
<1>3. PICK v : Return(e, v)
  BY DEF SleepEnds, Result
<1>4. OnRecord(e, v)
  BY <1>2 DEF OnRecord
<1> QED BY <1>1, <1>3, <1>4, ReturnAnswers, PlaceKept, SameKept DEF Fine

LEMMA ConsumeFine ==
  ASSUME PlaceInv, NEW e \in Executions, Consume(e) \/ RecordValue(e)
  PROVE  Fine(e)
<1>1. UNCHANGED <<now, deadlines>> /\ Placed
  BY DEF Consume, RecordValue, PlaceInv
<1>2. CASE Conflict(e) /\ UNCHANGED operation_outputs
  BY <1>1, <1>2, ConflictIdles, PlaceKept, SameKept DEF Fine
<1>3. ASSUME NEW v, Return(e, v), ~Recorded(e), Record(e, v)
      PROVE  Fine(e)
  BY <1>1, <1>3, RecordKeeps, ReturnAnswers, PlaceKept DEF Fine
<1>4. ASSUME NEW v, Return(e, v), ~Durable(e), UNCHANGED operation_outputs
      PROVE  Fine(e)
  <2>1. OnRecord(e, v)
    BY <1>4 DEF OnRecord
  <2> QED BY <1>1, <1>4, <2>1, ReturnAnswers, PlaceKept, SameKept DEF Fine
<1>5. CASE Consume(e)
  BY <1>2, <1>3, <1>5 DEF Consume
<1>6. CASE RecordValue(e)
  BY <1>2, <1>3, <1>4, <1>6 DEF RecordValue
<1> QED BY <1>5, <1>6

LEMMA StepFine ==
  ASSUME PlaceInv, NEW e \in Executions, Step(e)
  PROVE  Fine(e)
BY StartFine, WriteBeginFine, WriteFine, CheckRecordFine, LookFine, WaitFine, SleepStartFine, EndFine,
   ConsumeFine DEF Step

LEMMA ListenFine ==
  ASSUME PlaceInv, NEW p, Listen(p)
  PROVE  PlaceInv' /\ Kept /\ Idles
<1>1. UNCHANGED <<operation_outputs, now, deadlines, returned>> /\ Placed
  BY DEF Listen, tables, PlaceInv
<1>2. PICK y : ex' = [ex EXCEPT ![y].woken = TRUE] \/ ex' = ex
  BY DEF Listen
<1>3. Placed' /\ SameSteps
  <2>1. CASE y \in Executions /\ ex' = [ex EXCEPT ![y].woken = TRUE]
    <3> DEFINE r == [ex[y] EXCEPT !.woken = TRUE]
    <3>1. ex' = [ex EXCEPT ![y] = r]
      BY <2>1, <1>1 DEF Placed
    <3>2. Shaped(r) /\ r.step = ex[y].step /\ r.pc = ex[y].pc
      BY <1>1, <2>1 DEF Placed, Shaped
    <3> HIDE DEF r
    <3>3. Doing(W(y), r)
      BY <1>1, <2>1, <3>2 DEF Doing, Placed
    <3> QED BY <1>1, <2>1, <3>1, <3>2, <3>3, OneMoves DEF SameSteps
  <2>2. CASE ex' = ex
    BY <1>1, <2>2 DEF Placed, SameSteps, Shaped, Doing, W
  <2>3. CASE y \notin Executions /\ ex' = [ex EXCEPT ![y].woken = TRUE]
    <3>1. ex' = ex
      BY <1>1, <2>3 DEF Placed
    <3> QED BY <3>1, <2>2
  <2> QED BY <1>2, <2>1, <2>2, <2>3
<1> QED BY <1>1, <1>3, PlaceKept, SameKept DEF Idles

\* An execution is where it was, or starts again from its first step.
Restarts ==
  /\ DOMAIN returned' = Executions
  /\ \A x \in Executions : \/ ex'[x].step = ex[x].step /\ returned'[x] = returned[x]
                           \/ ex'[x].step = 1 /\ returned'[x] = <<>>

LEMMA CrashFine ==
  ASSUME PlaceInv, NEW p, Crash(p)
  PROVE  PlaceInv' /\ Kept /\ Restarts
<1>1. UNCHANGED <<operation_outputs, now, deadlines>> /\ Placed
  BY DEF Crash, tables, PlaceInv
<1> DEFINE hit == {e \in Executions : P(e) = p /\ ~At(e, "new") /\ ~At(e, "never")}
           again(e) == Durable(e) /\ workflow_status[W(e)] = "PENDING"
           lost == [AtStep(1) EXCEPT !.pc = "lost"]
<1>2. /\ ex' = [e \in Executions |-> IF e \notin hit THEN ex[e] ELSE IF again(e) THEN AtStep(1) ELSE lost]
      /\ returned' = [e \in Executions |-> IF e \in hit THEN <<>> ELSE returned[e]]
  BY DEF Crash
<1>3. Shaped(AtStep(1)) /\ AtStep(1).step = 1 /\ AtStep(1).pc = "call"
  BY AtStepShape
<1>4. Shaped(lost) /\ lost.step = 1 /\ lost.pc = "lost"
  BY <1>3 DEF Shaped
<1> HIDE DEF hit, again, lost
<1>5. \A e \in Executions : \/ ex'[e] = ex[e] /\ returned'[e] = returned[e]
                            \/ (ex'[e] = AtStep(1) \/ ex'[e] = lost) /\ returned'[e] = <<>>
  BY <1>2
<1>6. \A e \in Executions : Shaped(ex'[e]) /\ Doing(W(e), ex'[e])
  BY <1>1, <1>3, <1>4, <1>5 DEF Placed, Doing, Busy
<1>7. Placed'
  BY <1>2, <1>6 DEF Placed, Shaped, Doing, W
<1>8. Restarts
  <2>1. \A e \in Executions : \/ ex'[e] = ex[e] /\ returned'[e] = returned[e]
                              \/ ex'[e].step = 1 /\ returned'[e] = <<>>
    BY <1>3, <1>4, <1>5
  <2>2. DOMAIN returned' = Executions
    BY <1>2
  <2> QED BY <2>1, <2>2 DEF Restarts
<1> QED BY <1>1, <1>7, <1>8, PlaceKept, SameKept

LEMMA TickFine ==
  ASSUME PlaceInv, Tick
  PROVE  PlaceInv' /\ Kept /\ Idles
<1>1. UNCHANGED <<operation_outputs, ex, deadlines, returned>> /\ now < MaxTime /\ now' = now + 1
  BY DEF Tick, tables
<1>2. Clock' /\ Dates'
  BY <1>1, NotificationsAssumption DEF PlaceInv, Clock, Dates
<1>3. Placed' /\ Idles
  BY <1>1 DEF PlaceInv, Placed, Idles, SameSteps, Shaped, Doing, W
<1> QED BY <1>1, <1>2, <1>3, SameKept DEF PlaceInv

-----------------------------------------------------------------------------
(* The steps of FdbSystemDatabase *)

LEMMA FireMoves ==
  ASSUME Placed, NEW e \in Executions, NEW op, NEW box, Fire(op, box, e)
  PROVE  Placed' /\ Advances(e) /\ returned' = [returned EXCEPT ![e] = Append(@, Null)]
<1> DEFINE fires(x) == At(x, "watch") /\ Op(x).op = op /\ Box(x) = box
           woken(x) == [ex[x] EXCEPT !.woken = TRUE]
           next == AtStep(ex[e].step + 1)
<1>1. ex' = [x \in Executions |-> IF x = e THEN next ELSE IF fires(x) THEN woken(x) ELSE ex[x]]
  BY DEF Fire
<1>2. ex[e].step + 1 \in Nat \ {0}
  BY DEF Placed, Shaped
<1>3. Shaped(next) /\ next.step = ex[e].step + 1 /\ next.pc = "call"
  BY <1>2, AtStepShape
<1>4. \A x \in Executions : Shaped(woken(x)) /\ woken(x).step = ex[x].step /\ woken(x).pc = ex[x].pc
  BY DEF Placed, Shaped
<1> HIDE DEF fires, woken, next
<1>5. ex'[e] = next /\ \A x \in Executions \ {e} : ex'[x] = woken(x) \/ ex'[x] = ex[x]
  BY <1>1
<1>6. \A x \in Executions : Shaped(ex'[x]) /\ Doing(W(x), ex'[x])
  BY <1>3, <1>4, <1>5 DEF Placed, Doing, Busy
<1>7. Placed'
  BY <1>1, <1>6 DEF Placed, Shaped, Doing, W
<1>8. Advances(e)
  BY <1>3, <1>4, <1>5 DEF Advances
<1> QED BY <1>7, <1>8 DEF Fire

LEMMA FdbWriteFine ==
  ASSUME PlaceInv, NEW e \in Executions, FdbSend(e) \/ FdbSetEvent(e)
  PROVE  Fine(e)
<1>1. UNCHANGED <<now, deadlines>> /\ Placed
  BY DEF FdbSend, FdbSetEvent, PlaceInv, postgresOnly
<1>2. Op(e).op \notin Reads
  BY DEF FdbSend, FdbSetEvent, Reads, Calls
<1>3. OnRecord(e, Null)
  BY <1>2 DEF OnRecord
<1>4. CASE Return(e, Null) /\ UNCHANGED operation_outputs
  BY <1>1, <1>3, <1>4, ReturnAnswers, PlaceKept, SameKept DEF Fine
<1>5. ASSUME NEW op, NEW box, Fire(op, box, e), ~Recorded(e), Record(e, Null)
      PROVE  Fine(e)
  <2>1. Placed' /\ Advances(e) /\ returned' = [returned EXCEPT ![e] = Append(@, Null)]
    BY <1>1, <1>5, FireMoves
  <2>2. Kept
    BY <1>1, <1>5, RecordKeeps
  <2>3. Answers(e)
    BY <1>3, <2>1 DEF Answers
  <2> QED BY <1>1, <2>1, <2>2, <2>3, PlaceKept DEF Fine
<1>6. CASE FdbSend(e)
  BY <1>4, <1>5, <1>6 DEF FdbSend
<1>7. CASE FdbSetEvent(e)
  BY <1>4, <1>5, <1>7 DEF FdbSetEvent
<1> QED BY <1>6, <1>7

LEMMA FdbFinishFine ==
  ASSUME PlaceInv, NEW e \in Executions, FdbFinish(e)
  PROVE  Fine(e)
<1>1. UNCHANGED <<returned, operation_outputs, now, deadlines>> /\ Goto(e, "done") /\ Placed
  BY DEF FdbFinish, tables, PlaceInv
<1>2. "done" \notin Busy
  BY DEF Busy
<1> QED BY <1>1, <1>2, GotoOut, GotoIdles, PlaceKept, SameKept DEF Fine

LEMMA ResumedFits ==
  ASSUME Placed, NEW e \in Executions, ex[e].step \in DOMAIN Steps[W(e)], Op(e).op \in {"recv", "getEvent"}
  PROVE  Shaped(Resumed(e)) /\ Doing(W(e), Resumed(e)) /\ Resumed(e).step = ex[e].step
<1>1. CASE Op(e).op = "recv"
  BY <1>1 DEF Resumed, Placed, Shaped, Doing, Op, Busy, Ops
<1>2. CASE Op(e).op = "getEvent"
  BY <1>2 DEF Resumed, Placed, Shaped, Doing, Op, Busy, Ops
<1> QED BY <1>1, <1>2

LEMMA FdbWaitFine ==
  ASSUME PlaceInv, NEW e \in Executions, GetAndWatch(e) \/ WatchEnds(e) \/ FdbSleep(e)
  PROVE  Fine(e)
<1>1. /\ UNCHANGED <<operation_outputs, now, deadlines, returned>> /\ Placed
      /\ Deadline \in 0..MaxTime
  BY DeadlineInRange DEF GetAndWatch, WatchEnds, FdbSleep, tables, PlaceInv
<1>2. /\ {"look", "watch", "wait"} \subseteq Busy
      /\ Ops["watch"] = {"recv", "getEvent"} /\ "sleep" \in Ops["wait"]
  BY DEF Busy, Ops
<1>3. CASE FdbSleep(e)
  <2>1. ex[e].step \in DOMAIN Steps[W(e)] /\ Op(e).op \in Ops["wait"]
    BY <1>1, <1>2, <1>3, CallsInSteps DEF FdbSleep, Op
  <2>2. Placed' /\ Idles
    BY <1>1, <1>2, <1>3, <2>1, NoteIdles DEF FdbSleep
  <2> QED BY <1>1, <2>2, PlaceKept, SameKept DEF Fine
<1>4. ASSUME ex' = [ex EXCEPT ![e] = Resumed(e)], ex[e].step \in DOMAIN Steps[W(e)],
             Op(e).op \in {"recv", "getEvent"}
      PROVE  Fine(e)
  <2>1. Shaped(Resumed(e)) /\ Doing(W(e), Resumed(e)) /\ Resumed(e).step = ex[e].step
    BY <1>1, <1>4, ResumedFits
  <2>2. Placed' /\ SameSteps
    BY <1>1, <1>4, <2>1, OneMoves DEF SameSteps
  <2> QED BY <1>1, <2>2, PlaceKept, SameKept DEF Fine, Idles
<1>5. CASE GetAndWatch(e)
  <2>1. ex[e].step \in DOMAIN Steps[W(e)] /\ Op(e).op \in {"recv", "getEvent"}
    BY <1>1, <1>2, <1>5, WhereItIs DEF GetAndWatch
  <2>2. CASE ex' = [ex EXCEPT ![e] = Resumed(e)]
    BY <1>4, <2>1, <2>2
  <2>3. CASE ex' = [ex EXCEPT ![e] = [@ EXCEPT !.pc = "watch", !.at = Deadline]]
    <3> DEFINE r == [ex[e] EXCEPT !.pc = "watch", !.at = Deadline]
    <3>1. ex' = [ex EXCEPT ![e] = r]
      BY <2>3, <1>1 DEF Placed
    <3>2. Shaped(r) /\ r.step = ex[e].step /\ r.pc = "watch"
      BY <1>1 DEF Placed, Shaped
    <3> HIDE DEF r
    <3>3. Doing(W(e), r)
      BY <1>2, <2>1, <3>2 DEF Doing, Op
    <3>4. Placed' /\ SameSteps
      BY <1>1, <3>1, <3>2, <3>3, OneMoves DEF SameSteps
    <3> QED BY <1>1, <3>4, PlaceKept, SameKept DEF Fine, Idles
  <2> QED BY <1>5, <2>2, <2>3 DEF GetAndWatch
<1>6. CASE WatchEnds(e)
  <2>1. ex[e].step \in DOMAIN Steps[W(e)] /\ Op(e).op \in {"recv", "getEvent"}
    BY <1>1, <1>2, <1>6, WhereItIs DEF WatchEnds
  <2> QED BY <1>4, <1>6, <2>1 DEF WatchEnds
<1> QED BY <1>3, <1>5, <1>6

LEMMA FdbConsumeFine ==
  ASSUME PlaceInv, NEW e \in Executions, FdbConsume(e)
  PROVE  Fine(e)
<1>1. UNCHANGED <<now, deadlines>> /\ Placed
  BY DEF FdbConsume, PlaceInv, postgresOnly
<1>2. CASE Conflict(e) /\ UNCHANGED operation_outputs
  BY <1>1, <1>2, ConflictIdles, PlaceKept, SameKept DEF Fine
<1>3. ASSUME NEW v, Return(e, v), ~Recorded(e), Record(e, v)
      PROVE  Fine(e)
  BY <1>1, <1>3, RecordKeeps, ReturnAnswers, PlaceKept DEF Fine
<1> QED BY <1>2, <1>3 DEF FdbConsume

LEMMA FdbStepFine ==
  ASSUME PlaceInv, NEW e \in Executions, FdbStep(e)
  PROVE  Fine(e)
<1>1. CASE FdbStart(e) \/ FdbCheckRecord(e) \/ FdbRecordValue(e) \/ FdbStatusLook(e) \/ FdbResult(e)
           \/ FdbSleepEnds(e)
  <2>1. Step(e)
    BY <1>1 DEF Step, FdbStart, FdbCheckRecord, FdbRecordValue, FdbStatusLook, FdbResult, FdbSleepEnds
  <2> QED BY <2>1, StepFine
<1> QED BY <1>1, FdbWriteFine, FdbFinishFine, FdbWaitFine, FdbConsumeFine DEF FdbStep

LEMMA FlushFine ==
  ASSUME PlaceInv, NEW p, FlushTake(p) \/ FlushWrite(p) \/ FlushFails(p)
  PROVE  PlaceInv' /\ Kept /\ Idles
<1>1. UNCHANGED <<operation_outputs, ex, now, deadlines, returned>>
  BY DEF FlushTake, FlushWrite, FlushFails, tables, vars, postgresOnly
<1>2. Placed' /\ Idles
  BY <1>1 DEF PlaceInv, Placed, Idles, SameSteps, Shaped, Doing, W
<1> QED BY <1>1, <1>2, PlaceKept, SameKept

-----------------------------------------------------------------------------
(* What was returned is on record *)

\* One answer for each step an execution has behind it.
Behind == /\ returned = [e \in Executions |-> returned[e]]
          /\ \A e \in Executions : /\ \E S : returned[e] \in Seq(S)
                                   /\ Len(returned[e]) = ex[e].step - 1

AnswersInv == PlaceInv /\ Behind /\ AnswersRecorded

LEMMA AppendFacts ==
  ASSUME NEW S, NEW s \in Seq(S), NEW v
  PROVE  /\ Append(s, v) \in Seq(S \cup {v}) /\ Len(Append(s, v)) = Len(s) + 1
         /\ DOMAIN s = 1..Len(s) /\ DOMAIN Append(s, v) = 1..(Len(s) + 1)
         /\ Append(s, v)[Len(s) + 1] = v
         /\ \A i \in DOMAIN s : Append(s, v)[i] = s[i]
OBVIOUS

\* An execution whose answers are the same as before.
RecordedFor(e) ==
  Durable(e) =>
    \A i \in DOMAIN returned[e] : Steps[W(e)][i].op \in Reads =>
       /\ <<W(e), i>> \in DOMAIN operation_outputs
       /\ returned[e][i] = operation_outputs[<<W(e), i>>]

LEMMA SameAnswers ==
  ASSUME AnswersInv, Kept, NEW x \in Executions, returned'[x] = returned[x]
  PROVE  RecordedFor(x)'
<1>1. RecordedFor(x) /\ \A i \in DOMAIN returned[x] : i \in Nat
  BY DEF AnswersInv, AnswersRecorded, RecordedFor, Behind
<1>2. W(x) \in Workflows
  BY StepsShape
<1> QED BY <1>1, <1>2 DEF RecordedFor, Kept, Durable, W

LEMMA IdlesKeepAnswers ==
  ASSUME AnswersInv, PlaceInv', Kept, Idles
  PROVE  AnswersInv'
<1>1. Behind'
  BY DEF AnswersInv, Behind, Idles, SameSteps
<1>2. AnswersRecorded'
  BY SameAnswers DEF AnswersRecorded, RecordedFor, Idles, Durable, W
<1> QED BY <1>1, <1>2 DEF AnswersInv

LEMMA RestartsKeepAnswers ==
  ASSUME AnswersInv, PlaceInv', Kept, Restarts, returned' = [e \in Executions |-> returned'[e]]
  PROVE  AnswersInv'
<1>1. ASSUME NEW e \in Executions
      PROVE  (\E S : returned'[e] \in Seq(S)) /\ Len(returned'[e]) = ex'[e].step - 1
  <2>1. CASE ex'[e].step = ex[e].step /\ returned'[e] = returned[e]
    BY <2>1 DEF AnswersInv, Behind
  <2>2. CASE ex'[e].step = 1 /\ returned'[e] = <<>>
    <3>1. <<>> \in Seq({}) /\ Len(<<>>) = 0
      OBVIOUS
    <3> QED BY <2>2, <3>1
  <2> QED BY <2>1, <2>2 DEF Restarts
<1>2. ASSUME NEW e \in Executions
      PROVE  RecordedFor(e)'
  <2>1. CASE returned'[e] = returned[e]
    BY <2>1, SameAnswers
  <2>2. CASE returned'[e] = <<>>
    BY <2>2 DEF RecordedFor
  <2> QED BY <2>1, <2>2 DEF Restarts
<1>3. AnswersRecorded'
  BY <1>2 DEF AnswersRecorded, RecordedFor, Durable, W
<1> QED BY <1>1, <1>3 DEF AnswersInv, Behind

LEMMA AnswersKeepAnswers ==
  ASSUME AnswersInv, PlaceInv', Kept, NEW e \in Executions, Answers(e)
  PROVE  AnswersInv'
<1>1. PICK v : /\ Advances(e) /\ OnRecord(e, v)
               /\ returned' = [returned EXCEPT ![e] = Append(@, v)]
  BY DEF Answers
<1>2. PICK S : returned[e] \in Seq(S)
  BY DEF AnswersInv, Behind
<1>3. /\ returned' = [x \in Executions |-> returned'[x]] /\ returned'[e] = Append(returned[e], v)
      /\ \A x \in Executions \ {e} : returned'[x] = returned[x]
  BY <1>1 DEF AnswersInv, Behind
<1>4. Len(returned[e]) = ex[e].step - 1 /\ ex[e].step \in Nat \ {0}
  BY DEF AnswersInv, Behind, PlaceInv, Placed, Shaped
<1>5. /\ returned'[e] \in Seq(S \cup {v}) /\ Len(returned'[e]) = ex[e].step
      /\ DOMAIN returned'[e] = 1..ex[e].step /\ DOMAIN returned[e] = 1..(ex[e].step - 1)
      /\ returned'[e][ex[e].step] = v
      /\ \A i \in DOMAIN returned[e] : returned'[e][i] = returned[e][i]
  BY <1>2, <1>3, <1>4, AppendFacts
<1>6. Behind'
  <2>1. ASSUME NEW x \in Executions
        PROVE  (\E T : returned'[x] \in Seq(T)) /\ Len(returned'[x]) = ex'[x].step - 1
    <3>1. CASE x = e
      BY <1>1, <1>4, <1>5, <3>1 DEF Advances
    <3>2. CASE x # e
      BY <1>1, <1>3, <3>2 DEF Advances, AnswersInv, Behind
    <3> QED BY <3>1, <3>2
  <2> QED BY <1>3, <2>1 DEF Behind
<1>7. ASSUME NEW x \in Executions
      PROVE  RecordedFor(x)'
  <2>1. CASE x # e
    BY <1>3, <2>1, SameAnswers
  <2>2. CASE x = e
    <3> SUFFICES ASSUME Durable(e), NEW i \in DOMAIN returned'[e], Steps[W(e)][i].op \in Reads
                 PROVE  /\ <<W(e), i>> \in DOMAIN operation_outputs'
                        /\ returned'[e][i] = operation_outputs'[<<W(e), i>>]
      BY <2>2 DEF RecordedFor, Durable, W
    <3>1. CASE i = ex[e].step
      BY <1>1, <1>5, <3>1 DEF OnRecord, Op, Key
    <3>2. CASE i # ex[e].step
      <4>1. i \in DOMAIN returned[e] /\ i \in Nat
        BY <1>4, <1>5, <3>2
      <4>2. <<W(e), i>> \in DOMAIN operation_outputs /\ returned[e][i] = operation_outputs[<<W(e), i>>]
        BY <4>1 DEF AnswersInv, AnswersRecorded
      <4>3. W(e) \in Workflows \ Clients
        BY StepsShape DEF Durable
      <4> QED BY <1>5, <4>1, <4>2, <4>3 DEF Kept
    <3> QED BY <3>1, <3>2
  <2> QED BY <2>1, <2>2
<1>8. AnswersRecorded'
  BY <1>7 DEF AnswersRecorded, RecordedFor, Durable, W
<1> QED BY <1>6, <1>8 DEF AnswersInv

LEMMA AnswersInit == SysInit => AnswersInv
<1> SUFFICES ASSUME SysInit PROVE AnswersInv
  OBVIOUS
<1>1. PICK c \in Called :
        ex = [e \in Executions |-> [AtStep(1) EXCEPT !.pc = IF e \in c.calls THEN "new" ELSE "never"]]
  BY DEF SysInit, Init
<1>2. Shaped(AtStep(1)) /\ AtStep(1).step = 1
  BY AtStepShape
<1>3. \A e \in Executions : Shaped(ex[e]) /\ ex[e].step = 1 /\ ex[e].pc \notin Busy
  BY <1>1, <1>2 DEF Shaped, Busy
<1>4. Placed
  BY <1>1, <1>3 DEF Placed, Doing
<1>5. Clock /\ Dates
  BY NotificationsAssumption DEF SysInit, Init, Clock, Dates
<1>6. returned = [e \in Executions |-> <<>>]
  BY DEF SysInit, Init
<1>7. Behind
  <2>1. <<>> \in Seq({}) /\ Len(<<>>) = 0
    OBVIOUS
  <2> QED BY <1>3, <1>6, <2>1 DEF Behind
<1>8. AnswersRecorded
  BY <1>6 DEF AnswersRecorded
<1> QED BY <1>4, <1>5, <1>7, <1>8 DEF AnswersInv, PlaceInv

LEMMA AnswersNext == AnswersInv /\ [SysNext]_sysVars => AnswersInv'
<1> SUFFICES ASSUME AnswersInv, [SysNext]_sysVars PROVE AnswersInv'
  OBVIOUS
<1>0. PlaceInv
  BY DEF AnswersInv
<1>1. ASSUME NEW e \in Executions, Step(e) \/ FdbStep(e)
      PROVE  AnswersInv'
  BY <1>0, <1>1, StepFine, FdbStepFine, IdlesKeepAnswers, AnswersKeepAnswers DEF Fine
<1>2. ASSUME NEW p, Listen(p) \/ Tick \/ FlushTake(p) \/ FlushWrite(p) \/ FlushFails(p)
      PROVE  AnswersInv'
  BY <1>0, <1>2, ListenFine, TickFine, FlushFine, IdlesKeepAnswers
<1>3. ASSUME NEW p, Crash(p)
      PROVE  AnswersInv'
  <2>1. returned' = [e \in Executions |-> returned'[e]]
    BY <1>3 DEF Crash
  <2> QED BY <1>0, <1>3, <2>1, CrashFine, RestartsKeepAnswers
<1>4. CASE UNCHANGED sysVars
  BY <1>4 DEF sysVars, vars, AnswersInv, PlaceInv, Placed, Clock, Dates, Behind, AnswersRecorded, Shaped,
              Doing, W, Durable
<1>5. CASE PgStep
  BY <1>1, <1>2, <1>5 DEF PgStep
<1>6. CASE FdbNext
  BY <1>1, <1>2, <1>3, <1>6 DEF FdbNext, FdbCrash
<1> QED BY <1>3, <1>4, <1>5, <1>6 DEF SysNext

\* Messages and events, on Postgres and on FoundationDB: every value that a
\* recv, getEvent or getStatus of a durable workflow returned is the recorded
\* one, whatever the executions, crashes and notifications (checkOperationOutput,
\* recordOperationOutput and recordNotificationOutput of both classes).
THEOREM ReturnedIsRecorded == SysSpec => []AnswersRecorded
<1>1. AnswersInv => AnswersRecorded
  BY DEF AnswersInv
<1> QED BY <1>1, AnswersInit, AnswersNext, PTL DEF SysSpec

-----------------------------------------------------------------------------
(* Both implement the mailbox *)

\* The rows of notifications, and the entries of the arrays: messages of
\* recorded send steps, each in the array of its destination and only once.
StoredRows == notifications \subseteq {Row(s, t) : s \in SendSteps, t \in 0..MaxTime}
BoxOf(s) == <<StepAt(s).to, StepAt(s).topic>>
Messages == {StepAt(s).msg : s \in SendSteps}
StoredArrays ==
  \A b \in DOMAIN messages :
    /\ messages[b] \in Seq(Messages)
    /\ \A i \in DOMAIN messages[b] :
         /\ \E s \in SendSteps \cap DOMAIN operation_outputs :
               messages[b][i] = StepAt(s).msg /\ b = BoxOf(s)
         /\ \A j \in DOMAIN messages[b] : messages[b][i] = messages[b][j] => i = j

MailInv == PlaceInv /\ StoredRows /\ StoredArrays

MailStays == UNCHANGED <<MailSent, MailRows, MailAnswer>>
MailStep == MailStays \/ Mail!Next

LEMMA StepKeys ==
  /\ \A s \in AllSteps : /\ s = <<s[1], s[2]>> /\ s[1] \in Workflows /\ s[2] \in Nat
                         /\ s[2] \in DOMAIN Steps[s[1]]
  /\ SendSteps \subseteq AllSteps /\ RecvSteps \subseteq AllSteps /\ SendSteps \cap RecvSteps = {}
<1>1. SendSteps \subseteq AllSteps /\ RecvSteps \subseteq AllSteps /\ SendSteps \cap RecvSteps = {}
  BY DEF SendSteps, RecvSteps
<1>2. ASSUME NEW s \in AllSteps
      PROVE  /\ s = <<s[1], s[2]>> /\ s[1] \in Workflows /\ s[2] \in Nat
             /\ s[2] \in DOMAIN Steps[s[1]]
  <2>1. PICK w \in Workflows : s \in {w} \X DOMAIN Steps[w]
    BY DEF AllSteps
  <2>2. DOMAIN Steps[w] \subseteq Nat
    BY NotificationsAssumption
  <2> QED BY <2>1, <2>2
<1> QED BY <1>1, <1>2

\* The step of an execution.
LEMMA KeyIsStep ==
  ASSUME NEW e \in Executions, ex[e].step \in DOMAIN Steps[W(e)]
  PROVE  /\ Key(e) \in AllSteps /\ StepAt(Key(e)) = Op(e) /\ Key(e)[1] = W(e)
         /\ Op(e).op = "send" => Key(e) \in SendSteps
         /\ Op(e).op = "recv" => Key(e) \in RecvSteps
         /\ Op(e).op \notin {"send", "recv"} => Key(e) \notin SendSteps \cup RecvSteps
<1>1. Key(e) \in {W(e)} \X DOMAIN Steps[W(e)] /\ W(e) \in Workflows
  BY StepsShape DEF Key
<1>2. Key(e) \in AllSteps
  BY <1>1 DEF AllSteps
<1>3. StepAt(Key(e)) = Op(e) /\ Key(e)[1] = W(e)
  BY DEF StepAt, Key, Op
<1> QED BY <1>2, <1>3 DEF SendSteps, RecvSteps

\* The steps that send and receive are durable: their records stay.
LEMMA SendsKept ==
  ASSUME Kept
  PROVE  \A s \in (SendSteps \cup RecvSteps) \cap DOMAIN operation_outputs :
            s \in DOMAIN operation_outputs' /\ operation_outputs'[s] = operation_outputs[s]
<1> SUFFICES ASSUME NEW s \in (SendSteps \cup RecvSteps) \cap DOMAIN operation_outputs
             PROVE  s \in DOMAIN operation_outputs' /\ operation_outputs'[s] = operation_outputs[s]
  OBVIOUS
<1>1. s = <<s[1], s[2]>> /\ s[1] \in Workflows \ Clients /\ s[2] \in Nat
  BY StepKeys, MessagesAssumption
<1>2. <<s[1], s[2]>> \in DOMAIN operation_outputs
  BY <1>1
<1> QED BY <1>1, <1>2 DEF Kept

LEMMA ArraysKept ==
  ASSUME StoredArrays, Kept, UNCHANGED messages
  PROVE  StoredArrays'
<1>1. \A s \in SendSteps \cap DOMAIN operation_outputs : s \in DOMAIN operation_outputs'
  BY SendsKept
<1> QED BY <1>1 DEF StoredArrays

\* A step that neither stores nor takes a message, and records no send or recv.
LEMMA QuietMail ==
  ASSUME MailInv, PlaceInv', Kept, UNCHANGED <<notifications, messages, backend>>,
         \/ UNCHANGED operation_outputs
         \/ \E e \in Executions : /\ ex[e].step \in DOMAIN Steps[W(e)]
                                 /\ Op(e).op \notin {"send", "recv"}
                                 /\ ~Recorded(e) /\ \E v : Record(e, v)
  PROVE  MailInv' /\ MailStays
<1>1. /\ SendSteps \cap DOMAIN operation_outputs' = SendSteps \cap DOMAIN operation_outputs
      /\ RecvSteps \cap DOMAIN operation_outputs' = RecvSteps \cap DOMAIN operation_outputs
  <2>1. ASSUME NEW e \in Executions, NEW v, ex[e].step \in DOMAIN Steps[W(e)],
               Op(e).op \notin {"send", "recv"}, ~Recorded(e), Record(e, v)
        PROVE  /\ SendSteps \cap DOMAIN operation_outputs' = SendSteps \cap DOMAIN operation_outputs
               /\ RecvSteps \cap DOMAIN operation_outputs' = RecvSteps \cap DOMAIN operation_outputs
    <3>1. Key(e) \notin SendSteps \cup RecvSteps
      BY <2>1, KeyIsStep
    <3>2. DOMAIN operation_outputs' = DOMAIN operation_outputs \cup {Key(e)}
      BY <2>1, RecordKeeps DEF MailInv, PlaceInv
    <3> QED BY <3>1, <3>2
  <2> QED BY <2>1
<1>2. \A r \in RecvSteps \cap DOMAIN operation_outputs : operation_outputs'[r] = operation_outputs[r]
  BY SendsKept
<1>3. MailSent' = MailSent
  BY <1>1 DEF MailSent
<1>4. MailAnswer' = MailAnswer
  BY <1>1, <1>2 DEF MailAnswer
<1>5. MailRows' = MailRows
  BY DEF MailRows, InArray
<1>6. StoredRows'
  BY DEF StoredRows, MailInv
<1>7. StoredArrays'
  BY ArraysKept DEF MailInv
<1> QED BY <1>3, <1>4, <1>5, <1>6, <1>7 DEF MailInv, MailStays

\* Recording a send step is what sending is, recording a recv step what
\* answering is.
LEMMA RecordSends ==
  ASSUME MailInv, NEW e \in Executions, ex[e].step \in DOMAIN Steps[W(e)], Op(e).op = "send",
         ~Recorded(e), NEW v, Record(e, v)
  PROVE  /\ Key(e) \in SendSteps /\ Key(e) \notin DOMAIN operation_outputs
         /\ Op(e).msg \notin MailSent /\ MailSent' = MailSent \cup {Op(e).msg}
         /\ UNCHANGED MailAnswer
<1>1. Key(e) \in SendSteps /\ StepAt(Key(e)) = Op(e) /\ Key(e)[1] = W(e)
  BY KeyIsStep
<1>2. Key(e) \notin DOMAIN operation_outputs
  BY <1>1, MessagesAssumption DEF Recorded, Durable
<1>3. /\ Kept /\ DOMAIN operation_outputs' = DOMAIN operation_outputs \cup {Key(e)}
      /\ \A k \in DOMAIN operation_outputs : k # Key(e) => operation_outputs'[k] = operation_outputs[k]
  BY RecordKeeps DEF MailInv, PlaceInv
<1>4. Op(e).msg \notin MailSent
  BY <1>1, <1>2, MessagesAssumption DEF MailSent
<1>5. MailSent' = MailSent \cup {Op(e).msg}
  <2>1. SendSteps \cap DOMAIN operation_outputs' = (SendSteps \cap DOMAIN operation_outputs) \cup {Key(e)}
    BY <1>1, <1>3
  <2> QED BY <2>1, <1>1 DEF MailSent
<1>6. UNCHANGED MailAnswer
  <2>1. Key(e) \notin RecvSteps
    BY <1>1, StepKeys
  <2>2. RecvSteps \cap DOMAIN operation_outputs' = RecvSteps \cap DOMAIN operation_outputs
    BY <1>3, <2>1
  <2> QED BY <1>3, <2>1, <2>2 DEF MailAnswer
<1> QED BY <1>1, <1>2, <1>4, <1>5, <1>6

LEMMA RecordReceives ==
  ASSUME MailInv, NEW e \in Executions, ex[e].step \in DOMAIN Steps[W(e)], Op(e).op = "recv",
         ~Recorded(e), NEW v, Record(e, v)
  PROVE  /\ Key(e) \in RecvSteps /\ Key(e) \notin DOMAIN MailAnswer
         /\ UNCHANGED MailSent
         /\ MailAnswer' = [q \in DOMAIN MailAnswer \cup {Key(e)} |-> IF q = Key(e) THEN v ELSE MailAnswer[q]]
<1>1. Key(e) \in RecvSteps /\ Key(e)[1] = W(e)
  BY KeyIsStep
<1>2. Key(e) \notin DOMAIN operation_outputs
  BY <1>1, MessagesAssumption DEF Recorded, Durable
<1>3. /\ DOMAIN operation_outputs' = DOMAIN operation_outputs \cup {Key(e)}
      /\ operation_outputs'[Key(e)] = v
      /\ \A k \in DOMAIN operation_outputs : k # Key(e) => operation_outputs'[k] = operation_outputs[k]
  BY RecordKeeps DEF MailInv, PlaceInv
<1>4. DOMAIN MailAnswer = RecvSteps \cap DOMAIN operation_outputs
  BY DEF MailAnswer
<1>5. UNCHANGED MailSent
  <2>1. SendSteps \cap DOMAIN operation_outputs' = SendSteps \cap DOMAIN operation_outputs
    BY <1>1, <1>3, StepKeys
  <2> QED BY <2>1 DEF MailSent
<1>6. RecvSteps \cap DOMAIN operation_outputs' = DOMAIN MailAnswer \cup {Key(e)}
  BY <1>1, <1>3, <1>4
<1>7. \A q \in DOMAIN MailAnswer \cup {Key(e)} :
         operation_outputs'[q] = IF q = Key(e) THEN v ELSE MailAnswer[q]
  BY <1>2, <1>3, <1>4 DEF MailAnswer
<1>8. MailAnswer' = [q \in DOMAIN MailAnswer \cup {Key(e)} |-> IF q = Key(e) THEN v ELSE MailAnswer[q]]
  BY <1>6, <1>7 DEF MailAnswer
<1> QED BY <1>1, <1>2, <1>4, <1>5, <1>8

LEMMA StampedRow ==
  ASSUME NEW s \in SendSteps, NEW t
  PROVE  Stamped(Row(s, t)) = Row(s, <<t>>)
BY DEF Stamped, Row

LEMMA SendMail ==
  ASSUME MailInv, NEW e \in Executions, backend = "postgres", UNCHANGED <<backend, messages>>, Send(e)
  PROVE  MailInv' /\ MailStep
<1>1. /\ At(e, "write") /\ Op(e).op = "send" /\ ~Recorded(e) /\ Record(e, Null)
      /\ notifications' = notifications \cup
           {[to |-> Op(e).to, topic |-> Op(e).topic, msg |-> Op(e).msg, at |-> ex[e].at]}
  BY DEF Send
<1>2. ex[e].step \in DOMAIN Steps[W(e)] /\ ex[e].at \in 0..MaxTime
  BY <1>1, WhereItIs DEF Busy, MailInv, PlaceInv, Placed, Shaped
<1>3. PlaceInv' /\ Kept
  BY WriteFine DEF Fine, MailInv
<1> DEFINE s == Key(e)
           t == ex[e].at
<1>4. /\ s \in SendSteps /\ Op(e).msg \notin MailSent /\ MailSent' = MailSent \cup {Op(e).msg}
      /\ UNCHANGED MailAnswer
  BY <1>1, <1>2, RecordSends
<1>5. notifications' = notifications \cup {Row(s, t)}
  BY <1>1, <1>2, KeyIsStep DEF Row
<1>6. Row(s, <<t>>) \in AllRows /\ Row(s, <<t>>).msg = Op(e).msg
  BY <1>2, <1>4, KeyIsStep DEF AllRows, Row
<1>7. Stamped(Row(s, t)) = Row(s, <<t>>)
  BY <1>4, StampedRow
<1> HIDE DEF s, t
<1>8. MailRows' = MailRows \cup {Row(s, <<t>>)}
  BY <1>5, <1>7 DEF MailRows
<1>9. Mail!Send
  BY <1>4, <1>6, <1>8 DEF Mail!Send
<1>10. StoredRows' /\ StoredArrays'
  BY <1>2, <1>3, <1>4, <1>5, ArraysKept DEF MailInv, StoredRows, t
<1> QED BY <1>3, <1>9, <1>10 DEF MailInv, MailStep, Mail!Next

LEMMA ConsumeMail ==
  ASSUME MailInv, NEW e \in Executions, backend = "postgres", UNCHANGED <<backend, messages>>, Consume(e)
  PROVE  MailInv' /\ MailStep
<1>1. ex[e].step \in DOMAIN Steps[W(e)] /\ Op(e).op = "recv"
  BY WhereItIs DEF Consume, Busy, Ops, MailInv, PlaceInv
<1>2. PlaceInv' /\ Kept
  BY ConsumeFine DEF Fine, MailInv
<1>3. CASE Recorded(e)
  BY <1>2, <1>3, QuietMail DEF Consume, MailStep
<1>4. CASE ~Recorded(e)
  <2> DEFINE r == Key(e)
             old == Oldest(Mine(e))
  <2>1. PICK m \in IF Mine(e) = {} THEN {Null} ELSE {n.msg : n \in old} :
          notifications' = notifications \ old /\ Record(e, m)
    BY <1>4 DEF Consume
  <2>2. /\ r \in RecvSteps /\ r \notin DOMAIN MailAnswer /\ UNCHANGED MailSent
        /\ MailAnswer' = [q \in DOMAIN MailAnswer \cup {r} |-> IF q = r THEN m ELSE MailAnswer[q]]
    BY <1>1, <1>4, <2>1, RecordReceives
  <2>3. \A n \in notifications : n \in Mine(e) <=> Addressed(r, Stamped(n))
    BY <1>1, KeyIsStep DEF Mine, Addressed, Stamped
  <2>4. /\ old \subseteq Mine(e) /\ Mine(e) \subseteq notifications
        /\ \A n \in notifications : n.at \in Nat
    <3>1. \A n \in notifications : n.at \in Nat
      BY DEF MailInv, StoredRows, Row
    <3> QED BY <3>1 DEF Oldest, Mine
  <2>5. \A n \in old, k \in Mine(e) : k \in old <=> k.at = n.at
    BY <2>4 DEF Oldest
  <2>6. \A n, k \in notifications : Stamped(n) = Stamped(k) => n = k
    BY DEF MailInv, StoredRows, Row, Stamped
  <2>7. MailRows = {Stamped(n) : n \in notifications} /\ MailRows' = {Stamped(n) : n \in notifications \ old}
    BY <2>1 DEF MailRows
  <2> HIDE DEF r, old
  <2>8. Mail!Waiting(r) = {Stamped(n) : n \in Mine(e)}
    BY <2>3, <2>4, <2>7 DEF Mail!Waiting
  <2>9. ASSUME Mine(e) = {}
        PROVE  MailStep
    <3>1. m = Null /\ old = {}
      BY <2>1, <2>4, <2>9
    <3>2. UNCHANGED MailRows
      BY <2>7, <3>1
    <3>3. Mail!Miss(r)
      BY <2>2, <2>8, <2>9, <3>1, <3>2 DEF Mail!Miss, Mail!Answer
    <3> QED BY <2>2, <3>3 DEF MailStep, Mail!Next
  <2>10. ASSUME Mine(e) # {}
         PROVE  MailStep
    <3>1. PICK n \in old : m = n.msg
      BY <2>1, <2>10
    <3>2. Stamped(n) \in Mail!Waiting(r) /\ Stamped(n).msg = m
      BY <2>4, <2>8, <3>1 DEF Stamped
    <3>3. \A k \in Mine(e) : Stamped(k).at = Stamped(n).at <=> k \in old
      BY <2>5, <3>1 DEF Stamped
    <3>4. MailRows' = MailRows \ {k \in Mail!Waiting(r) : k.at = Stamped(n).at}
      <4>1. {k \in Mail!Waiting(r) : k.at = Stamped(n).at} = {Stamped(k) : k \in old}
        BY <2>4, <2>8, <3>3
      <4>2. {Stamped(k) : k \in notifications \ old} = {Stamped(k) : k \in notifications} \ {Stamped(k) : k \in old}
        BY <2>4, <2>6
      <4> QED BY <2>7, <4>1, <4>2
    <3>5. Mail!Receive(r)
      BY <2>2, <3>2, <3>4 DEF Mail!Receive, Mail!Answer
    <3> QED BY <2>2, <3>5 DEF MailStep, Mail!Next
  <2>11. StoredRows' /\ StoredArrays'
    BY <1>2, <2>1, ArraysKept DEF MailInv, StoredRows
  <2> QED BY <1>2, <2>9, <2>10, <2>11 DEF MailInv
<1> QED BY <1>3, <1>4

\* The array of a message that is stored: that of its destination.
LEMMA ArrayOf ==
  ASSUME StoredArrays, NEW s \in SendSteps, NEW b \in DOMAIN messages, NEW i \in DOMAIN messages[b],
         messages[b][i] = StepAt(s).msg
  PROVE  b = BoxOf(s) /\ s \in DOMAIN operation_outputs
BY MessagesAssumption DEF StoredArrays

LEMMA QueueFacts ==
  ASSUME StoredArrays, NEW box
  PROVE  /\ Queue(box) \in Seq(Messages) /\ DOMAIN Queue(box) = 1..Len(Queue(box))
         /\ \A i, j \in DOMAIN Queue(box) : Queue(box)[i] = Queue(box)[j] => i = j
         /\ \A i \in DOMAIN Queue(box) : \E s \in SendSteps \cap DOMAIN operation_outputs :
               Queue(box)[i] = StepAt(s).msg /\ box = BoxOf(s)
         /\ \A s \in SendSteps : InArray(s) <=> \E i \in DOMAIN Queue(BoxOf(s)) : Queue(BoxOf(s))[i] = StepAt(s).msg
<1>1. Queue(box) \in Seq(Messages) /\ DOMAIN Queue(box) = 1..Len(Queue(box))
  <2>1. CASE box \in DOMAIN messages
    BY <2>1 DEF StoredArrays, Queue
  <2>2. CASE box \notin DOMAIN messages
    BY <2>2 DEF Queue
  <2> QED BY <2>1, <2>2
<1>2. \A i, j \in DOMAIN Queue(box) : Queue(box)[i] = Queue(box)[j] => i = j
  BY DEF StoredArrays, Queue
<1>3. \A i \in DOMAIN Queue(box) : \E s \in SendSteps \cap DOMAIN operation_outputs :
         Queue(box)[i] = StepAt(s).msg /\ box = BoxOf(s)
  BY DEF StoredArrays, Queue
<1>4. ASSUME NEW s \in SendSteps
      PROVE  InArray(s) <=> \E i \in DOMAIN Queue(BoxOf(s)) : Queue(BoxOf(s))[i] = StepAt(s).msg
  BY ArrayOf DEF InArray, Queue
<1> QED BY <1>1, <1>2, <1>3, <1>4

\* One array is replaced by a queue of messages of recorded steps that are
\* addressed to it.
LEMMA PutArray ==
  ASSUME StoredArrays, Kept, NEW box, NEW q \in Seq(Messages),
         \A i, j \in DOMAIN q : q[i] = q[j] => i = j,
         \A i \in DOMAIN q : \E s \in SendSteps \cap DOMAIN operation_outputs' :
            q[i] = StepAt(s).msg /\ box = BoxOf(s),
         messages' = Put(messages, box, q) \/ (q = <<>> /\ messages' = Drop(messages, box))
  PROVE  /\ StoredArrays'
         /\ \A s \in SendSteps : InArray(s)' <=> \/ BoxOf(s) # box /\ InArray(s)
                                                 \/ BoxOf(s) = box /\ \E i \in DOMAIN q : q[i] = StepAt(s).msg
<1>1. \A s \in SendSteps \cap DOMAIN operation_outputs : s \in DOMAIN operation_outputs'
  BY SendsKept
<1>2. \A b \in DOMAIN messages' : (b = box /\ messages'[b] = q) \/ (b # box /\ b \in DOMAIN messages /\ messages'[b] = messages[b])
  BY DEF Put, Drop
<1>3. \A b \in DOMAIN messages : b # box => b \in DOMAIN messages' /\ messages'[b] = messages[b]
  BY DEF Put, Drop
<1>4. q # <<>> => box \in DOMAIN messages' /\ messages'[box] = q
  BY DEF Put
<1>5. StoredArrays'
  <2> SUFFICES ASSUME NEW b \in DOMAIN messages'
               PROVE  /\ messages'[b] \in Seq(Messages)
                      /\ \A i \in DOMAIN messages'[b] :
                           /\ \E s \in SendSteps \cap DOMAIN operation_outputs' :
                                 messages'[b][i] = StepAt(s).msg /\ b = BoxOf(s)
                           /\ \A j \in DOMAIN messages'[b] : messages'[b][i] = messages'[b][j] => i = j
    BY DEF StoredArrays
  <2>1. CASE b = box /\ messages'[b] = q
    BY <2>1
  <2>2. CASE b # box /\ b \in DOMAIN messages /\ messages'[b] = messages[b]
    BY <2>2, <1>1 DEF StoredArrays
  <2> QED BY <1>2, <2>1, <2>2
<1>6. ASSUME NEW s \in SendSteps
      PROVE  InArray(s)' <=> \/ BoxOf(s) # box /\ InArray(s)
                             \/ BoxOf(s) = box /\ \E i \in DOMAIN q : q[i] = StepAt(s).msg
  <2>1. ASSUME NEW b \in DOMAIN messages', NEW i \in DOMAIN messages'[b], messages'[b][i] = StepAt(s).msg
        PROVE  \/ BoxOf(s) # box /\ InArray(s)
               \/ BoxOf(s) = box /\ \E k \in DOMAIN q : q[k] = StepAt(s).msg
    <3>1. CASE b = box /\ messages'[b] = q
      <4>1. PICK z \in SendSteps : q[i] = StepAt(z).msg /\ box = BoxOf(z)
        BY <2>1, <3>1
      <4>2. z = s
        BY <2>1, <3>1, <4>1, MessagesAssumption
      <4> QED BY <2>1, <3>1, <4>1, <4>2
    <3>2. CASE b # box /\ b \in DOMAIN messages /\ messages'[b] = messages[b]
      BY <2>1, <3>2, ArrayOf DEF InArray
    <3> QED BY <1>2, <3>1, <3>2
  <2>2. ASSUME BoxOf(s) # box, InArray(s)
        PROVE  InArray(s)'
    BY <2>2, <1>3, ArrayOf DEF InArray
  <2>3. ASSUME BoxOf(s) = box, NEW k \in DOMAIN q, q[k] = StepAt(s).msg
        PROVE  InArray(s)'
    <3>1. q # <<>>
      BY <2>3
    <3> QED BY <1>4, <2>3, <3>1 DEF InArray
  <2>4. InArray(s)' => \E b \in DOMAIN messages' : \E i \in DOMAIN messages'[b] : messages'[b][i] = StepAt(s).msg
    BY DEF InArray
  <2> QED BY <2>1, <2>2, <2>3, <2>4
<1> QED BY <1>5, <1>6

LEMMA FdbSendMail ==
  ASSUME MailInv, NEW e \in Executions, backend = "foundationdb", UNCHANGED backend, FdbSend(e)
  PROVE  MailInv' /\ MailStep
<1>1. ex[e].step \in DOMAIN Steps[W(e)] /\ Op(e).op = "send" /\ UNCHANGED notifications
  BY CallsInSteps DEF FdbSend, Op, MailInv, PlaceInv, postgresOnly
<1>2. PlaceInv' /\ Kept
  BY FdbWriteFine DEF Fine, MailInv
<1>3. CASE Recorded(e)
  BY <1>1, <1>2, <1>3, QuietMail DEF FdbSend, MailStep
<1>4. CASE ~Recorded(e)
  <2> DEFINE s == Key(e)
             box == <<Op(e).to, Op(e).topic>>
             q == Append(Queue(box), Op(e).msg)
  <2>1. messages' = Put(messages, box, q) /\ Record(e, Null)
    BY <1>4 DEF FdbSend
  <2>2. /\ s \in SendSteps /\ s \notin DOMAIN operation_outputs
        /\ Op(e).msg \notin MailSent /\ MailSent' = MailSent \cup {Op(e).msg}
        /\ UNCHANGED MailAnswer
    BY <1>1, <1>4, <2>1, RecordSends
  <2>3. StepAt(s) = Op(e) /\ BoxOf(s) = box
    BY <1>1, KeyIsStep DEF BoxOf
  <2>4. s \in DOMAIN operation_outputs'
    BY <1>4, <2>1, RecordKeeps DEF MailInv, PlaceInv
  <2> HIDE DEF s, box
  <2>5. /\ Queue(box) \in Seq(Messages) /\ DOMAIN Queue(box) = 1..Len(Queue(box))
        /\ \A i, j \in DOMAIN Queue(box) : Queue(box)[i] = Queue(box)[j] => i = j
        /\ \A i \in DOMAIN Queue(box) : \E z \in SendSteps \cap DOMAIN operation_outputs :
              Queue(box)[i] = StepAt(z).msg /\ box = BoxOf(z)
    BY QueueFacts DEF MailInv
  <2>6. Op(e).msg \in Messages
    BY <2>2, <2>3 DEF Messages
  <2>7. /\ q \in Seq(Messages) /\ Len(q) = Len(Queue(box)) + 1 /\ DOMAIN q = 1..(Len(Queue(box)) + 1)
        /\ q[Len(Queue(box)) + 1] = Op(e).msg
        /\ \A i \in DOMAIN Queue(box) : q[i] = Queue(box)[i]
    BY <2>5, <2>6
  <2> HIDE DEF q
  <2>8. \A i \in DOMAIN Queue(box) : Queue(box)[i] # Op(e).msg
    BY <2>2, <2>3, <2>5, MessagesAssumption
  <2>9. \A i \in DOMAIN q : i \in DOMAIN Queue(box) \/ i = Len(Queue(box)) + 1
    BY <2>5, <2>7
  <2>10. \A i, j \in DOMAIN q : q[i] = q[j] => i = j
    BY <2>5, <2>7, <2>8, <2>9
  <2>11. \A i \in DOMAIN q : \E z \in SendSteps \cap DOMAIN operation_outputs' :
            q[i] = StepAt(z).msg /\ box = BoxOf(z)
    <3>1. \A z \in SendSteps \cap DOMAIN operation_outputs : z \in DOMAIN operation_outputs'
      BY <1>2, SendsKept
    <3> QED BY <2>2, <2>3, <2>4, <2>5, <2>7, <2>9, <3>1
  <2>12. /\ StoredArrays'
         /\ \A z \in SendSteps : InArray(z)' <=> \/ BoxOf(z) # box /\ InArray(z)
                                                 \/ BoxOf(z) = box /\ \E i \in DOMAIN q : q[i] = StepAt(z).msg
    BY <1>2, <2>1, <2>7, <2>10, <2>11, PutArray DEF MailInv
  <2>13. \A z \in SendSteps : InArray(z)' <=> InArray(z) \/ z = s
    <3> SUFFICES ASSUME NEW z \in SendSteps PROVE InArray(z)' <=> InArray(z) \/ z = s
      OBVIOUS
    <3>1. InArray(z) <=> \E i \in DOMAIN Queue(BoxOf(z)) : Queue(BoxOf(z))[i] = StepAt(z).msg
      BY QueueFacts DEF MailInv
    <3>2. CASE BoxOf(z) # box
      BY <2>3, <2>12, <3>2
    <3>3. CASE BoxOf(z) = box
      <4>1. (\E i \in DOMAIN q : q[i] = StepAt(z).msg) <=> InArray(z) \/ StepAt(z).msg = Op(e).msg
        BY <2>5, <2>7, <2>9, <3>1, <3>3
      <4>2. StepAt(z).msg = Op(e).msg <=> z = s
        BY <2>2, <2>3, MessagesAssumption
      <4> QED BY <2>12, <3>3, <4>1, <4>2
    <3> QED BY <3>2, <3>3
  <2>14. MailRows' = MailRows \cup {Row(s, s)}
    BY <2>2, <2>13 DEF MailRows
  <2>15. Row(s, s) \in AllRows /\ Row(s, s).msg = Op(e).msg
    BY <2>2, <2>3 DEF AllRows, Row
  <2>16. Mail!Send
    BY <2>2, <2>14, <2>15 DEF Mail!Send
  <2>17. StoredRows'
    BY <1>1 DEF MailInv, StoredRows
  <2> QED BY <1>2, <2>12, <2>16, <2>17 DEF MailInv, MailStep, Mail!Next
<1> QED BY <1>3, <1>4

LEMMA FdbConsumeMail ==
  ASSUME MailInv, NEW e \in Executions, backend = "foundationdb", UNCHANGED backend, FdbConsume(e)
  PROVE  MailInv' /\ MailStep
<1>1. ex[e].step \in DOMAIN Steps[W(e)] /\ Op(e).op = "recv" /\ UNCHANGED notifications
  BY WhereItIs DEF FdbConsume, Busy, Ops, MailInv, PlaceInv, postgresOnly
<1>2. PlaceInv' /\ Kept
  BY FdbConsumeFine DEF Fine, MailInv
<1>3. CASE Recorded(e)
  BY <1>1, <1>2, <1>3, QuietMail DEF FdbConsume, MailStep
<1>4. CASE ~Recorded(e)
  <2> DEFINE r == Key(e)
             box == Box(e)
             queue == Queue(box)
             m == IF queue = <<>> THEN Null ELSE Head(queue)
             rest == IF Len(queue) > 1 THEN Tail(queue) ELSE <<>>
  <2>1. Record(e, m) /\ messages' = IF Len(queue) > 1 THEN Put(messages, box, Tail(queue)) ELSE Drop(messages, box)
    BY <1>4 DEF FdbConsume
  <2>2. /\ r \in RecvSteps /\ r \notin DOMAIN MailAnswer /\ UNCHANGED MailSent
        /\ MailAnswer' = [q \in DOMAIN MailAnswer \cup {r} |-> IF q = r THEN m ELSE MailAnswer[q]]
    BY <1>1, <1>4, <2>1, RecordReceives
  <2>3. StepAt(r) = Op(e) /\ r[1] = W(e) /\ box = <<W(e), Op(e).topic>>
    BY <1>1, KeyIsStep DEF Box
  <2>4. messages' = Put(messages, box, rest) \/ (rest = <<>> /\ messages' = Drop(messages, box))
    BY <2>1
  <2>5. /\ queue \in Seq(Messages) /\ DOMAIN queue = 1..Len(queue)
        /\ \A i, j \in DOMAIN queue : queue[i] = queue[j] => i = j
        /\ \A i \in DOMAIN queue : \E z \in SendSteps \cap DOMAIN operation_outputs :
              queue[i] = StepAt(z).msg /\ box = BoxOf(z)
    BY QueueFacts DEF MailInv
  <2> HIDE DEF r, box, queue
  <2>6. /\ rest \in Seq(Messages) /\ DOMAIN rest = 1..Len(rest)
        /\ Len(queue) > 0 => Len(rest) = Len(queue) - 1
        /\ \A i \in DOMAIN rest : i + 1 \in DOMAIN queue /\ rest[i] = queue[i + 1]
    <3>1. Len(queue) \in Nat
      BY <2>5
    <3>2. CASE Len(queue) > 1
      <4>1. queue # <<>> /\ rest = Tail(queue)
        BY <3>1, <3>2
      <4>2. /\ Tail(queue) \in Seq(Messages) /\ Len(Tail(queue)) = Len(queue) - 1
            /\ DOMAIN Tail(queue) = 1..(Len(queue) - 1)
            /\ \A i \in 1..(Len(queue) - 1) : Tail(queue)[i] = queue[i + 1]
        BY <2>5, <3>2, <4>1
      <4> QED BY <2>5, <3>1, <3>2, <4>1, <4>2
    <3>3. CASE ~(Len(queue) > 1)
      <4>1. rest = <<>>
        BY <3>3
      <4>2. Len(queue) > 0 => Len(queue) - 1 = 0
        BY SMTT(30), <3>1, <3>3
      <4>3. rest \in Seq(Messages) /\ Len(rest) = 0 /\ DOMAIN rest = {} /\ 1..0 = {}
        BY <4>1
      <4> QED BY <4>2, <4>3
    <3> QED BY <3>2, <3>3
  <2> HIDE DEF rest
  <2>7. \A i, j \in DOMAIN rest : rest[i] = rest[j] => i = j
    <3> SUFFICES ASSUME NEW i \in DOMAIN rest, NEW j \in DOMAIN rest, rest[i] = rest[j]
                 PROVE  i = j
      OBVIOUS
    <3>1. /\ i + 1 \in DOMAIN queue /\ rest[i] = queue[i + 1]
          /\ j + 1 \in DOMAIN queue /\ rest[j] = queue[j + 1]
      BY <2>6
    <3>2. i \in Nat /\ j \in Nat
      BY <2>6
    <3>3. \A a, b \in DOMAIN queue : queue[a] = queue[b] => a = b
      BY <2>5
    <3>4. i + 1 = j + 1
      BY <3>1, <3>3
    <3> QED BY <3>2, <3>4
  <2>8. \A i \in DOMAIN rest : \E z \in SendSteps \cap DOMAIN operation_outputs' :
           rest[i] = StepAt(z).msg /\ box = BoxOf(z)
    <3>1. \A z \in SendSteps \cap DOMAIN operation_outputs : z \in DOMAIN operation_outputs'
      BY <1>2, SendsKept
    <3>2. ASSUME NEW i \in DOMAIN rest
          PROVE  \E z \in SendSteps \cap DOMAIN operation_outputs : rest[i] = StepAt(z).msg /\ box = BoxOf(z)
      <4>1. i + 1 \in DOMAIN queue /\ rest[i] = queue[i + 1]
        BY <2>6
      <4> QED BY <2>5, <4>1
    <3> QED BY <3>1, <3>2
  <2>9. /\ StoredArrays'
        /\ \A z \in SendSteps : InArray(z)' <=> \/ BoxOf(z) # box /\ InArray(z)
                                                \/ BoxOf(z) = box /\ \E i \in DOMAIN rest : rest[i] = StepAt(z).msg
    BY <1>2, <2>4, <2>6, <2>7, <2>8, PutArray DEF MailInv
  <2>10. \A z \in SendSteps : BoxOf(z) = box =>
            (InArray(z) <=> \E i \in DOMAIN queue : queue[i] = StepAt(z).msg)
    BY QueueFacts DEF MailInv, queue
  <2>11. MailRows = {Row(z, z) : z \in {x \in SendSteps : InArray(x)}}
    BY DEF MailRows
  <2>12. MailRows' = {Row(z, z) : z \in {x \in SendSteps : InArray(x)'}}
    BY DEF MailRows
  <2>13. \A z \in SendSteps : Addressed(r, Row(z, z)) <=> BoxOf(z) = box
    BY <2>3 DEF Addressed, Row, BoxOf
  <2>14. \A z, y \in SendSteps : Row(z, z).at = Row(y, y).at <=> z = y
    BY DEF Row
  <2>15. ASSUME queue = <<>>
         PROVE  MailStep
    <3>1. m = Null
      BY <2>15
    <3>2. \A z \in SendSteps : InArray(z) => BoxOf(z) # box
      BY <2>10, <2>15
    <3>3. Mail!Waiting(r) = {}
      BY <2>11, <2>13, <3>2 DEF Mail!Waiting
    <3>4. rest = <<>>
      BY <2>15 DEF rest
    <3>5. \A z \in SendSteps : InArray(z)' <=> InArray(z)
      BY <2>9, <3>2, <3>4
    <3>6. UNCHANGED MailRows
      BY <2>11, <2>12, <3>5
    <3>7. Mail!Miss(r)
      BY <2>2, <3>1, <3>3, <3>6 DEF Mail!Miss, Mail!Answer
    <3> QED BY <2>2, <3>7 DEF MailStep, Mail!Next
  <2>16. ASSUME queue # <<>>
         PROVE  MailStep
    <3>1. Len(queue) > 0 /\ 1 \in DOMAIN queue /\ m = queue[1]
      BY <2>5, <2>16
    <3>2. PICK s \in SendSteps : queue[1] = StepAt(s).msg /\ box = BoxOf(s)
      BY <2>5, <3>1
    <3>3. InArray(s)
      BY <2>10, <3>1, <3>2
    <3>4. \A z \in SendSteps : InArray(z)' <=> InArray(z) /\ z # s
      <4> SUFFICES ASSUME NEW z \in SendSteps PROVE InArray(z)' <=> InArray(z) /\ z # s
        OBVIOUS
      <4>1. CASE BoxOf(z) # box
        BY <2>9, <3>2, <4>1
      <4>2. CASE BoxOf(z) = box /\ z = s
        <5>1. \A i \in DOMAIN rest : rest[i] # StepAt(s).msg
          BY <2>5, <2>6, <3>1, <3>2
        <5> QED BY <2>9, <4>2, <5>1
      <4>3. CASE BoxOf(z) = box /\ z # s
        <5>1. StepAt(z).msg # queue[1]
          BY <3>2, <4>3, MessagesAssumption
        <5>2. \A i \in DOMAIN queue : i # 1 => i - 1 \in DOMAIN rest /\ rest[i - 1] = queue[i]
          BY <2>5, <2>6, <3>1
        <5>3. (\E i \in DOMAIN rest : rest[i] = StepAt(z).msg) <=> \E i \in DOMAIN queue : queue[i] = StepAt(z).msg
          BY <2>6, <5>1, <5>2
        <5> QED BY <2>9, <2>10, <4>3, <5>3
      <4> QED BY <4>1, <4>2, <4>3
    <3>5. Row(s, s) \in Mail!Waiting(r) /\ Row(s, s).msg = m
      BY <2>11, <2>13, <3>1, <3>2, <3>3 DEF Mail!Waiting, Row
    <3>6. {k \in Mail!Waiting(r) : k.at = Row(s, s).at} = {Row(s, s)}
      BY <2>11, <2>14, <3>5 DEF Mail!Waiting
    <3>7. MailRows' = MailRows \ {k \in Mail!Waiting(r) : k.at = Row(s, s).at}
      BY <2>11, <2>12, <2>14, <3>4, <3>6
    <3>8. Mail!Receive(r)
      BY <2>2, <3>5, <3>7 DEF Mail!Receive, Mail!Answer
    <3> QED BY <2>2, <3>8 DEF MailStep, Mail!Next
  <2>17. StoredRows'
    BY <1>1 DEF MailInv, StoredRows
  <2> QED BY <1>2, <2>9, <2>15, <2>16, <2>17 DEF MailInv
<1> QED BY <1>3, <1>4

LEMMA StepMail ==
  ASSUME MailInv, NEW e \in Executions, backend = "postgres", UNCHANGED <<fdbOnly, backend>>, Step(e)
  PROVE  MailInv' /\ MailStep
<1>1. PlaceInv' /\ Kept /\ UNCHANGED <<messages, backend>>
  BY StepFine DEF Fine, MailInv, fdbOnly
<1>2. CASE Send(e) \/ Consume(e)
  BY <1>1, <1>2, SendMail, ConsumeMail
<1>3. CASE SetEvent(e)
  <2>1. ex[e].step \in DOMAIN Steps[W(e)] /\ Op(e).op \notin {"send", "recv"}
    BY <1>3, WhereItIs DEF SetEvent, Busy, MailInv, PlaceInv
  <2> QED BY <1>1, <1>3, <2>1, QuietMail DEF SetEvent, MailStep
<1>4. CASE RecordValue(e)
  <2>1. ex[e].step \in DOMAIN Steps[W(e)] /\ Op(e).op \notin {"send", "recv"}
    BY <1>4, WhereItIs DEF RecordValue, Busy, Ops, MailInv, PlaceInv
  <2> QED BY <1>1, <1>4, <2>1, QuietMail DEF RecordValue, MailStep
<1>5. CASE ~(Send(e) \/ Consume(e) \/ SetEvent(e) \/ RecordValue(e))
  <2>1. UNCHANGED <<notifications, operation_outputs>>
    BY <1>5 DEF Step, Start, Finish, WriteBegin, SendFails, WriteConflicts, CheckRecord, RecvLook, EventLook,
                StatusLook, Register, SleepStart, SleepEnds, WaitEnds, EventReread, Result, tables
  <2> QED BY <1>1, <2>1, QuietMail DEF MailStep
<1> QED BY <1>2, <1>3, <1>4, <1>5

LEMMA FdbStepMail ==
  ASSUME MailInv, NEW e \in Executions, backend = "foundationdb", UNCHANGED backend, FdbStep(e)
  PROVE  MailInv' /\ MailStep
<1>1. PlaceInv' /\ Kept
  BY FdbStepFine DEF Fine, MailInv
<1>2. CASE FdbSend(e) \/ FdbConsume(e)
  BY <1>2, FdbSendMail, FdbConsumeMail
<1>3. CASE FdbSetEvent(e)
  <2>1. ex[e].step \in DOMAIN Steps[W(e)] /\ Op(e).op \notin {"send", "recv"}
    BY <1>3, CallsInSteps DEF FdbSetEvent, Op, MailInv, PlaceInv
  <2> QED BY <1>1, <1>3, <2>1, QuietMail DEF FdbSetEvent, MailStep, postgresOnly, fdbOnly
<1>4. CASE FdbRecordValue(e)
  <2>1. ex[e].step \in DOMAIN Steps[W(e)] /\ Op(e).op \notin {"send", "recv"}
    BY <1>4, WhereItIs DEF FdbRecordValue, RecordValue, Busy, Ops, MailInv, PlaceInv
  <2> QED BY <1>1, <1>4, <2>1, QuietMail DEF FdbRecordValue, RecordValue, MailStep, fdbOnly
<1>5. CASE ~(FdbSend(e) \/ FdbConsume(e) \/ FdbSetEvent(e) \/ FdbRecordValue(e))
  <2>1. UNCHANGED <<notifications, operation_outputs, messages>>
    BY <1>5 DEF FdbStep, FdbStart, FdbFinish, FdbCheckRecord, GetAndWatch, WatchEnds, FdbStatusLook, FdbSleep,
                FdbSleepEnds, FdbResult, Start, CheckRecord, StatusLook, SleepEnds, Result, tables, fdbOnly
  <2> QED BY <1>1, <2>1, QuietMail DEF MailStep
<1> QED BY <1>2, <1>3, <1>4, <1>5

LEMMA MailNext == MailInv /\ [SysNext]_sysVars => MailInv' /\ MailStep
<1> SUFFICES ASSUME MailInv, [SysNext]_sysVars PROVE MailInv' /\ MailStep
  OBVIOUS
<1>0. PlaceInv
  BY DEF MailInv
<1>1. CASE backend = "postgres" /\ (\E e \in Executions : Step(e)) /\ UNCHANGED <<fdbOnly, backend>>
  BY <1>1, StepMail
<1>2. CASE backend = "foundationdb" /\ (\E e \in Executions : FdbStep(e)) /\ UNCHANGED backend
  BY <1>2, FdbStepMail
<1>3. ASSUME NEW p, Listen(p) \/ Crash(p) \/ Tick, UNCHANGED <<messages, backend>>
      PROVE  MailInv' /\ MailStep
  <2>1. UNCHANGED <<notifications, operation_outputs>>
    BY <1>3 DEF Listen, Crash, Tick, tables
  <2>2. PlaceInv' /\ Kept
    BY <1>0, <1>3, ListenFine, CrashFine, TickFine
  <2> QED BY <1>3, <2>1, <2>2, QuietMail DEF MailStep
<1>4. ASSUME NEW p, FlushTake(p) \/ FlushWrite(p) \/ FlushFails(p), UNCHANGED backend
      PROVE  MailInv' /\ MailStep
  <2>1. UNCHANGED <<notifications, operation_outputs, messages>>
    BY <1>4 DEF FlushTake, FlushWrite, FlushFails, tables, vars, postgresOnly
  <2>2. PlaceInv' /\ Kept
    BY <1>0, <1>4, FlushFine
  <2> QED BY <1>4, <2>1, <2>2, QuietMail DEF MailStep
<1>5. CASE UNCHANGED sysVars
  BY <1>5 DEF sysVars, vars, fdbOnly, MailInv, PlaceInv, Placed, Clock, Dates, Shaped, Doing, W, StoredRows,
              StoredArrays, MailStep, MailStays, MailSent, MailRows, MailAnswer, InArray
<1>6. CASE PgStep
  BY <1>1, <1>3, <1>6 DEF PgStep, fdbOnly
<1>7. CASE backend = "postgres" /\ (\E p \in Processes : Crash(p)) /\ UNCHANGED <<fdbOnly, backend>>
  BY <1>3, <1>7 DEF fdbOnly
<1>8. CASE backend = "foundationdb" /\ FdbNext /\ UNCHANGED backend
  BY <1>2, <1>3, <1>4, <1>8 DEF FdbNext, FdbCrash, fdbOnly
<1> QED BY <1>5, <1>6, <1>7, <1>8 DEF SysNext

LEMMA MailInit == SysInit => MailInv /\ Mail!Init
<1> SUFFICES ASSUME SysInit PROVE MailInv /\ Mail!Init
  OBVIOUS
<1>1. PlaceInv
  BY AnswersInit DEF AnswersInv
<1>2. operation_outputs = <<>> /\ messages = <<>> /\ notifications = {}
  BY DEF SysInit, Init, FdbInit
<1>3. DOMAIN operation_outputs = {} /\ DOMAIN messages = {}
  BY <1>2
<1>4. StoredRows /\ StoredArrays
  BY <1>2, <1>3 DEF StoredRows, StoredArrays
<1>5. MailSent = {} /\ MailRows = {}
  BY <1>2, <1>3 DEF MailSent, MailRows, InArray
<1>6. MailAnswer = <<>>
  BY <1>3 DEF MailAnswer
<1> QED BY <1>1, <1>4, <1>5, <1>6 DEF MailInv, Mail!Init

\* The mailbox: on Postgres as on FoundationDB, whatever the workflows send and
\* receive, however many executions run them and wherever they crash, a message
\* enters the mailbox once and every recv step is answered once, with a message
\* that waits for it, or with Null if none does (send and recv of both classes).
THEOREM BothImplementMailbox == SysSpec => ImplementsMailbox
<1>1. MailInv /\ [SysNext]_sysVars => MailInv' /\ [Mail!Next]_<<MailSent, MailRows, MailAnswer>>
  BY MailNext DEF MailStep, MailStays
<1> QED BY <1>1, MailInit, PTL DEF SysSpec, ImplementsMailbox, Mail!Spec

=============================================================================
