--------------------------- MODULE Notifications ---------------------------
(***************************************************************************)
(* Messages, events, sleeps and status queries between workflows on the    *)
(* Postgres system database: the operations send, recv, setEvent,          *)
(* getEvent, sleepms, getWorkflowStatus and getWorkflowResult of           *)
(* system_database.ts, called by WorkflowContextImpl (workflow.ts) or by   *)
(* clients outside a workflow, and the LISTEN/NOTIFY loop that wakes the   *)
(* waiting ones.  Each execution runs its workflow's steps in order; two   *)
(* executions may run the same workflow; a process may crash and recover.  *)
(***************************************************************************)
EXTENDS Naturals, Sequences, FiniteSets, Functions

CONSTANTS Workflows, Clients,     \* Clients \subseteq Workflows run no journal
          Steps,                  \* [Workflows -> Seq of operations]
          Executions, WorkflowOf, ProcessOf,
          Called,                 \* which executions happen, and how many crashes may
          Timeout, MaxTime,       \* a wait's length, and the clock's bound
          Null

ASSUME NotificationsAssumption ==
    /\ Clients \subseteq Workflows
    /\ WorkflowOf \in [Executions -> Workflows]
    /\ DOMAIN Steps = Workflows /\ \A w \in Workflows : Steps[w] \in Seq(Range(Steps[w]))
    /\ {Timeout, MaxTime} \subseteq Nat

VARIABLES
    operation_outputs,  \* <<workflow, step>> :> output, once recorded
    deadlines,          \* <<workflow, step>> :> the recorded end of a sleep
    notifications,      \* rows [to, topic, msg, at]
    workflow_events,    \* <<workflow, key>> :> value
    workflow_status,    \* [Workflows -> status]
    resolvers,          \* [process -> payload :> the execution it resolves]
    channel,            \* [process -> NOTIFY payloads not handled yet]
    ex,                 \* [Executions -> where it is]
    returned,           \* [Executions -> Seq of what its steps returned]
    now, crashes        \* the clock, and the crashes still to come

vars == <<operation_outputs, deadlines, notifications, workflow_events, workflow_status,
          resolvers, channel, ex, returned, now, crashes>>
tables == <<operation_outputs, deadlines, notifications, workflow_events, workflow_status>>

Processes == Range(ProcessOf)
AtStep(i) == [step |-> i, pc |-> "call", at |-> 0, value |-> Null, woken |-> FALSE]

Init ==
    /\ operation_outputs = <<>> /\ deadlines = <<>>
    /\ notifications = {} /\ workflow_events = <<>>
    /\ workflow_status = [w \in Workflows |-> Null]
    /\ resolvers = [p \in Processes |-> <<>>]
    /\ channel = [p \in Processes |-> {}]
    /\ \E c \in Called :
          /\ ex = [e \in Executions |-> [AtStep(1) EXCEPT !.pc = IF e \in c.calls THEN "new" ELSE "never"]]
          /\ crashes = c.crashes
    /\ returned = [e \in Executions |-> <<>>]
    /\ now = 0

-----------------------------------------------------------------------------
W(e) == WorkflowOf[e]
P(e) == ProcessOf[e]
Key(e) == <<W(e), ex[e].step>>
Op(e) == Steps[W(e)][ex[e].step]
Durable(e) == W(e) \notin Clients
Recorded(e) == Durable(e) /\ Key(e) \in DOMAIN operation_outputs
Put(f, k, v) == [x \in DOMAIN f \cup {k} |-> IF x = k THEN v ELSE f[x]]
Drop(f, k) == [x \in DOMAIN f \ {k} |-> f[x]]
Calls(e, op) == ex[e].pc = "call" /\ ex[e].step <= Len(Steps[W(e)]) /\ Op(e).op = op
At(e, pc) == ex[e].pc = pc
Goto(e, pc) == ex' = [ex EXCEPT ![e].pc = pc]

(* The call returns v to the workflow, which makes its next call. *)
Return(e, v) ==
    /\ ex' = [ex EXCEPT ![e] = AtStep(@.step + 1)]
    /\ returned' = [returned EXCEPT ![e] = Append(@, v)]

(* DBOSWorkflowConflictUUIDError: another execution recorded this step; the *)
(* workflow's caller then waits for that execution's result.                *)
Conflict(e) == Goto(e, "conflict") /\ UNCHANGED returned

(* recordNotificationOutput, recordOperationOutput: the primary key of      *)
(* operation_outputs decides between the executions of a step.              *)
Record(e, v) == operation_outputs' = Put(operation_outputs, Key(e), v)

(* A trigger NOTIFYs every listening process when the row is committed. *)
Notify(payload, id) ==
    channel' = [p \in Processes |-> channel[p] \cup {<<payload, id>>}]

MessagePayload(to, topic) == <<"message", to, topic>>
EventPayload(of, key) == <<"event", of, key>>
Payload(e) == IF Op(e).op = "recv" THEN MessagePayload(W(e), Op(e).topic)
              ELSE EventPayload(Op(e).of, Op(e).key)

-----------------------------------------------------------------------------
Start(e) ==
    /\ At(e, "new")
    /\ Goto(e, "call")
    /\ workflow_status' = [workflow_status EXCEPT ![W(e)] = IF @ = Null THEN "PENDING" ELSE @]
    /\ UNCHANGED <<operation_outputs, deadlines, notifications, workflow_events,
                   resolvers, channel, returned, now, crashes>>

Finish(e) ==
    /\ At(e, "call") /\ ex[e].step > Len(Steps[W(e)])
    /\ Goto(e, "done")
    /\ workflow_status' = [workflow_status EXCEPT ![W(e)] = "SUCCESS"]
    /\ UNCHANGED <<operation_outputs, deadlines, notifications, workflow_events,
                   resolvers, channel, returned, now, crashes>>

(* send and setEvent open a transaction and look for the step's record. *)
WriteBegin(e) ==
    /\ Calls(e, "send") \/ Calls(e, "setEvent")
    /\ IF Recorded(e)
       THEN Return(e, Null)
       ELSE ex' = [ex EXCEPT ![e].pc = "write", ![e].at = now] /\ UNCHANGED returned
    /\ UNCHANGED <<tables, resolvers, channel, now, crashes>>

SendFails(e) ==
    /\ At(e, "write") /\ Op(e).op = "send"
    /\ workflow_status[Op(e).to] = Null          \* the foreign key, 23503
    /\ Goto(e, "error")
    /\ workflow_status' = [workflow_status EXCEPT ![W(e)] = "ERROR"]
    /\ UNCHANGED <<operation_outputs, deadlines, notifications, workflow_events,
                   resolvers, channel, returned, now, crashes>>

WriteConflicts(e) ==
    /\ At(e, "write") /\ Recorded(e)
    /\ Op(e).op = "send" => workflow_status[Op(e).to] # Null
    /\ Conflict(e)
    /\ UNCHANGED <<tables, resolvers, channel, now, crashes>>

(* created_at_epoch_ms defaults to now(), the start of the transaction. *)
Send(e) ==
    /\ At(e, "write") /\ Op(e).op = "send" /\ ~Recorded(e)
    /\ workflow_status[Op(e).to] # Null
    /\ notifications' = notifications \cup
          {[to |-> Op(e).to, topic |-> Op(e).topic, msg |-> Op(e).msg, at |-> ex[e].at]}
    /\ Record(e, Null)
    /\ Notify(MessagePayload(Op(e).to, Op(e).topic), Op(e).msg)
    /\ Return(e, Null)
    /\ UNCHANGED <<deadlines, workflow_events, workflow_status, resolvers, now, crashes>>

(* The trigger of workflow_events fires on INSERT, not on the upsert's UPDATE. *)
SetEvent(e) ==
    /\ At(e, "write") /\ Op(e).op = "setEvent" /\ ~Recorded(e)
    /\ workflow_events' = Put(workflow_events, <<W(e), Op(e).key>>, Op(e).value)
    /\ Record(e, Null)
    /\ IF <<W(e), Op(e).key>> \in DOMAIN workflow_events
       THEN UNCHANGED channel
       ELSE Notify(EventPayload(W(e), Op(e).key), Op(e).value)
    /\ Return(e, Null)
    /\ UNCHANGED <<deadlines, notifications, workflow_status, resolvers, now, crashes>>

(* recv, getEvent, getStatus: what an earlier execution recorded is returned. *)
CheckRecord(e) ==
    /\ Calls(e, "recv") \/ Calls(e, "getEvent") \/ Calls(e, "getStatus")
    /\ IF Recorded(e)
       THEN Return(e, operation_outputs[Key(e)])
       ELSE Goto(e, "look") /\ UNCHANGED returned
    /\ UNCHANGED <<tables, resolvers, channel, now, crashes>>

Mine(e) == {n \in notifications : n.to = W(e) /\ n.topic = Op(e).topic}

(* recv looks for a message before it waits; the answer is used later. *)
RecvLook(e) ==
    /\ At(e, "look") /\ Op(e).op = "recv"
    /\ Goto(e, IF Mine(e) # {} THEN "consume" ELSE "register")
    /\ UNCHANGED <<tables, resolvers, channel, returned, now, crashes>>

EventValue(e) == IF <<Op(e).of, Op(e).key>> \in DOMAIN workflow_events
                 THEN workflow_events[<<Op(e).of, Op(e).key>>] ELSE Null

(* getEvent reads the value before it waits; what it found it returns. *)
EventLook(e) ==
    /\ At(e, "look") /\ Op(e).op = "getEvent"
    /\ ex' = [ex EXCEPT ![e].pc = IF EventValue(e) = Null THEN "register" ELSE "record",
                        ![e].value = EventValue(e)]
    /\ UNCHANGED <<tables, resolvers, channel, returned, now, crashes>>

StatusLook(e) ==
    /\ At(e, "look") /\ Op(e).op = "getStatus"
    /\ ex' = [ex EXCEPT ![e].pc = "record", ![e].value = workflow_status[Op(e).of]]
    /\ UNCHANGED <<tables, resolvers, channel, returned, now, crashes>>

(* The resolver replaces any other of the same payload in this process. *)
Register(e) ==
    /\ At(e, "register")
    /\ resolvers' = [resolvers EXCEPT ![P(e)] = Put(@, Payload(e), e)]
    /\ Goto(e, "sleep")
    /\ UNCHANGED <<tables, channel, returned, now, crashes>>

Deadline == IF now + Timeout < MaxTime THEN now + Timeout ELSE MaxTime

(* sleepms: the first execution to get here records when the sleep ends; the *)
(* record is kept (ON CONFLICT DO NOTHING) and later ones sleep until then.  *)
SleepStart(e) ==
    /\ At(e, "sleep") \/ Calls(e, "sleep")
    /\ IF Durable(e) /\ Key(e) \in DOMAIN deadlines
       THEN /\ ex' = [ex EXCEPT ![e].pc = "wait", ![e].at = deadlines[Key(e)]]
            /\ UNCHANGED deadlines
       ELSE /\ ex' = [ex EXCEPT ![e].pc = "wait", ![e].at = Deadline]
            /\ deadlines' = IF Durable(e) THEN Put(deadlines, Key(e), Deadline) ELSE deadlines
    /\ UNCHANGED <<operation_outputs, notifications, workflow_events, workflow_status,
                   resolvers, channel, returned, now, crashes>>

SleepEnds(e) ==
    /\ At(e, "wait") /\ Op(e).op = "sleep" /\ now >= ex[e].at
    /\ Return(e, Null)
    /\ UNCHANGED <<tables, resolvers, channel, now, crashes>>

(* Mutant of WaitEnds: nothing but a notification ends the wait. *)
WaitEndsWoken(e) ==
    /\ At(e, "wait") /\ Op(e).op \in {"recv", "getEvent"} /\ ex[e].woken
    /\ resolvers' = [resolvers EXCEPT ![P(e)] = Drop(@, Payload(e))]
    /\ Goto(e, IF Op(e).op = "recv" THEN "consume" ELSE "reread")
    /\ UNCHANGED <<tables, channel, returned, now, crashes>>

(* The race is over; the resolver registered for the payload is deleted,     *)
(* even when it is another execution's.                                      *)
WaitEnds(e) ==
    /\ At(e, "sleep") \/ At(e, "wait")
    /\ Op(e).op \in {"recv", "getEvent"}
    /\ ex[e].woken \/ (At(e, "wait") /\ now >= ex[e].at)
    /\ resolvers' = [resolvers EXCEPT ![P(e)] = Drop(@, Payload(e))]
    /\ Goto(e, IF Op(e).op = "recv" THEN "consume" ELSE "reread")
    /\ UNCHANGED <<tables, channel, returned, now, crashes>>

Listen(p) ==
    \E n \in channel[p] :
        /\ channel' = [channel EXCEPT ![p] = @ \ {n}]
        /\ ex' = IF n[1] \in DOMAIN resolvers[p]
                 THEN [ex EXCEPT ![resolvers[p][n[1]]].woken = TRUE] ELSE ex
        /\ UNCHANGED <<tables, resolvers, returned, now, crashes>>

(* Mutant of Oldest: the deletion is not limited to the oldest entry. *)
NotOnlyOldest(rows) == rows

Oldest(rows) == {n \in rows : \A k \in rows : n.at <= k.at}

(* One transaction deletes every message with the oldest millisecond, takes  *)
(* the first row the deletion returns, and records it as the step's output.  *)
Consume(e) ==
    /\ At(e, "consume")
    /\ IF Recorded(e)
       THEN Conflict(e) /\ UNCHANGED <<operation_outputs, notifications>>
       ELSE \E m \in IF Mine(e) = {} THEN {Null} ELSE {n.msg : n \in Oldest(Mine(e))} :
              /\ notifications' = notifications \ Oldest(Mine(e))
              /\ Record(e, m)
              /\ Return(e, m)
    /\ UNCHANGED <<deadlines, workflow_events, workflow_status, resolvers, channel, now, crashes>>

EventReread(e) ==
    /\ At(e, "reread")
    /\ ex' = [ex EXCEPT ![e].pc = "record", ![e].value = EventValue(e)]
    /\ UNCHANGED <<tables, resolvers, channel, returned, now, crashes>>

(* Mutant of RecordValue: ON CONFLICT DO NOTHING in recordOperationOutput. *)
RecordUnlessThere(e) ==
    /\ At(e, "record")
    /\ Return(e, ex[e].value)
    /\ IF Durable(e) /\ ~Recorded(e) THEN Record(e, ex[e].value) ELSE UNCHANGED operation_outputs
    /\ UNCHANGED <<deadlines, notifications, workflow_events, workflow_status,
                   resolvers, channel, now, crashes>>

(* What getEvent and getStatus read is recorded in a statement of its own. *)
RecordValue(e) ==
    /\ At(e, "record")
    /\ IF Recorded(e)
       THEN Conflict(e) /\ UNCHANGED operation_outputs
       ELSE /\ Return(e, ex[e].value)
            /\ IF Durable(e) THEN Record(e, ex[e].value) ELSE UNCHANGED operation_outputs
    /\ UNCHANGED <<deadlines, notifications, workflow_events, workflow_status,
                   resolvers, channel, now, crashes>>

(* getWorkflowResult polls until the workflow succeeded or failed. *)
Result(e) ==
    /\ Calls(e, "getResult")
    /\ workflow_status[Op(e).of] \in {"SUCCESS", "ERROR"}
    /\ Return(e, workflow_status[Op(e).of])
    /\ UNCHANGED <<tables, resolvers, channel, now, crashes>>

(* A crash loses the resolvers and the notifications on their way; pending   *)
(* workflows are executed again from their first step, the clients are gone. *)
Crash(p) ==
    /\ crashes > 0
    /\ crashes' = crashes - 1
    /\ LET hit == {e \in Executions : P(e) = p /\ ~At(e, "new") /\ ~At(e, "never")}
       IN /\ hit # {}
          /\ ex' = [e \in Executions |->
                IF e \notin hit THEN ex[e]
                ELSE IF Durable(e) /\ workflow_status[W(e)] = "PENDING" THEN AtStep(1)
                ELSE [AtStep(1) EXCEPT !.pc = "lost"]]
          /\ returned' = [e \in Executions |-> IF e \in hit THEN <<>> ELSE returned[e]]
    /\ resolvers' = [resolvers EXCEPT ![p] = <<>>]
    /\ channel' = [channel EXCEPT ![p] = {}]
    /\ UNCHANGED <<tables, now>>

Tick ==
    /\ now < MaxTime
    /\ now' = now + 1
    /\ UNCHANGED <<tables, resolvers, channel, ex, returned, crashes>>

Step(e) ==
    \/ Start(e) \/ Finish(e)
    \/ WriteBegin(e) \/ SendFails(e) \/ WriteConflicts(e) \/ Send(e) \/ SetEvent(e)
    \/ CheckRecord(e) \/ RecvLook(e) \/ EventLook(e) \/ StatusLook(e)
    \/ Register(e) \/ SleepStart(e) \/ SleepEnds(e) \/ WaitEnds(e)
    \/ Consume(e) \/ EventReread(e) \/ RecordValue(e) \/ Result(e)

Next ==
    \/ \E e \in Executions : Step(e)
    \/ \E p \in Processes : Listen(p) \/ Crash(p)
    \/ Tick

-----------------------------------------------------------------------------
(* Every value a step of a durable workflow returned is the one on record:   *)
(* whichever execution ran it, before or after a crash, and however its      *)
(* check, its wait and its write interleaved with another execution's.  The  *)
(* conflict of recordNotificationOutput and recordOperationOutput is what    *)
(* keeps the loser of a race from going on with a value of its own.          *)
Reads == {"recv", "getEvent", "getStatus"}
AnswersRecorded ==
    \A e \in Executions : Durable(e) =>
        \A i \in DOMAIN returned[e] : Steps[W(e)][i].op \in Reads =>
            /\ <<W(e), i>> \in DOMAIN operation_outputs
            /\ returned[e][i] = operation_outputs[<<W(e), i>>]
=============================================================================
