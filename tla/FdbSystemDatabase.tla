------------------------- MODULE FdbSystemDatabase -------------------------
(***************************************************************************)
(* The FoundationDB implementation of the operations of Notifications and  *)
(* of a workflow's status: serializable transactions (one step each), one  *)
(* array of messages per destination and topic, and watches in place of    *)
(* LISTEN/NOTIFY.  The operations take the parameters this class declares. *)
(* What it does like the Postgres class, statement by statement, is        *)
(* Notifications' own action; its variables deadlines, notifications,      *)
(* resolvers and channel have no counterpart here and keep their values.   *)
(***************************************************************************)
EXTENDS Notifications

VARIABLES
    messages,   \* <<destination, topic>> :> array of messages, never empty
    buffer,     \* [process -> workflows whose SUCCESS is not written]
    flushing    \* [process -> the part of it being written]

postgresOnly == <<deadlines, notifications, resolvers, channel>>
fdbOnly == <<messages, buffer, flushing>>

FdbInit ==
    /\ messages = <<>>
    /\ buffer = [p \in Processes |-> {}]
    /\ flushing = [p \in Processes |-> {}]

Box(e) == IF Op(e).op = "recv" THEN <<W(e), Op(e).topic>> ELSE <<Op(e).of, Op(e).key>>
Queue(box) == IF box \in DOMAIN messages THEN messages[box] ELSE <<>>

(* A changed key fires the watches set on it; e goes on to its next call. *)
Fire(op, box, e) ==
    /\ ex' = [x \in Executions |->
          IF x = e THEN AtStep(ex[e].step + 1)
          ELSE IF At(x, "watch") /\ Op(x).op = op /\ Box(x) = box
               THEN [ex[x] EXCEPT !.woken = TRUE] ELSE ex[x]]
    /\ returned' = [returned EXCEPT ![e] = Append(@, Null)]

-----------------------------------------------------------------------------
(* initWorkflowStatus, checkOperationOutput, recordOperationOutput,        *)
(* getWorkflowStatus and getWorkflowResult agree with the Postgres class.  *)
FdbStart(e) == Start(e) /\ UNCHANGED fdbOnly
FdbCheckRecord(e) == CheckRecord(e) /\ UNCHANGED fdbOnly
FdbRecordValue(e) == RecordValue(e) /\ UNCHANGED fdbOnly
FdbStatusLook(e) == StatusLook(e) /\ UNCHANGED fdbOnly
FdbResult(e) == Result(e) /\ UNCHANGED fdbOnly

(* bufferWorkflowOutput *)
FdbFinish(e) ==
    /\ At(e, "call") /\ ex[e].step > Len(Steps[W(e)])
    /\ Goto(e, "done")
    /\ buffer' = [buffer EXCEPT ![P(e)] = @ \cup {W(e)}]
    /\ UNCHANGED <<tables, resolvers, channel, returned, now, crashes, messages, flushing>>

(* flushWorkflowStatusBuffer empties the buffer, then writes what it held. *)
FlushTake(p) ==
    /\ buffer[p] # {} /\ flushing[p] = {}
    /\ flushing' = [flushing EXCEPT ![p] = buffer[p]]
    /\ buffer' = [buffer EXCEPT ![p] = {}]
    /\ UNCHANGED <<vars, messages>>

FlushWrite(p) ==
    /\ flushing[p] # {}
    /\ workflow_status' = [w \in Workflows |->
          IF w \in flushing[p] THEN "SUCCESS" ELSE workflow_status[w]]
    /\ flushing' = [flushing EXCEPT ![p] = {}]
    /\ UNCHANGED <<postgresOnly, operation_outputs, workflow_events, messages, buffer, ex,
                   returned, now, crashes>>

(* A failed write is not given back to the buffer. *)
FlushFails(p) ==
    /\ flushing[p] # {} /\ crashes > 0
    /\ crashes' = crashes - 1
    /\ flushing' = [flushing EXCEPT ![p] = {}]
    /\ UNCHANGED <<tables, resolvers, channel, messages, buffer, ex, returned, now>>

(* send appends to the array of its destination, whether that exists or not. *)
FdbSend(e) ==
    /\ Calls(e, "send")
    /\ LET box == <<Op(e).to, Op(e).topic>>
       IN IF Recorded(e)
          THEN Return(e, Null) /\ UNCHANGED <<operation_outputs, messages>>
          ELSE /\ messages' = Put(messages, box, Append(Queue(box), Op(e).msg))
               /\ Record(e, Null)
               /\ Fire("recv", box, e)
    /\ UNCHANGED <<postgresOnly, workflow_events, workflow_status, buffer, flushing, now, crashes>>

FdbSetEvent(e) ==
    /\ Calls(e, "setEvent")
    /\ LET box == <<W(e), Op(e).key>>
       IN IF Recorded(e)
          THEN Return(e, Null) /\ UNCHANGED <<operation_outputs, workflow_events>>
          ELSE /\ workflow_events' = Put(workflow_events, box, Op(e).value)
               /\ Record(e, Null)
               /\ Fire("getEvent", box, e)
    /\ UNCHANGED <<postgresOnly, fdbOnly, workflow_status, now, crashes>>

Found(e) == IF Op(e).op = "recv" THEN Queue(Box(e)) # <<>> ELSE EventValue(e) # Null
Resumed(e) == IF Op(e).op = "recv" THEN [ex[e] EXCEPT !.pc = "consume"]
              ELSE [ex[e] EXCEPT !.pc = "record", !.value = EventValue(e)]

(* getAndWatch reads the key and sets the watch in one transaction; the     *)
(* timer that cancels the watch lives in memory only.                       *)
GetAndWatch(e) ==
    /\ At(e, "look") /\ Op(e).op \in {"recv", "getEvent"}
    /\ ex' = [ex EXCEPT ![e] =
          IF Found(e) THEN Resumed(e) ELSE [@ EXCEPT !.pc = "watch", !.at = Deadline]]
    /\ UNCHANGED <<tables, resolvers, channel, fdbOnly, returned, now, crashes>>

WatchEnds(e) ==
    /\ At(e, "watch")
    /\ ex[e].woken \/ now >= ex[e].at
    /\ ex' = [ex EXCEPT ![e] = Resumed(e)]
    /\ UNCHANGED <<tables, resolvers, channel, fdbOnly, returned, now, crashes>>

FdbConsume(e) ==
    /\ At(e, "consume")
    /\ LET queue == Queue(Box(e))
           message == IF queue = <<>> THEN Null ELSE Head(queue)
       IN IF Recorded(e)
          THEN Conflict(e) /\ UNCHANGED <<operation_outputs, messages>>
          ELSE /\ Record(e, message)
               /\ messages' = IF Len(queue) > 1 THEN Put(messages, Box(e), Tail(queue))
                              ELSE Drop(messages, Box(e))
               /\ Return(e, message)
    /\ UNCHANGED <<postgresOnly, workflow_events, workflow_status, buffer, flushing, now, crashes>>

(* sleepms only sleeps: after a crash the whole duration starts again. *)
FdbSleep(e) ==
    /\ Calls(e, "sleep")
    /\ ex' = [ex EXCEPT ![e].pc = "wait", ![e].at = Deadline]
    /\ UNCHANGED <<tables, resolvers, channel, fdbOnly, returned, now, crashes>>

FdbSleepEnds(e) == SleepEnds(e) /\ UNCHANGED fdbOnly

(* A crash loses the buffers too; getPendingWorkflows finds what to resume. *)
FdbCrash(p) ==
    /\ Crash(p)
    /\ buffer' = [buffer EXCEPT ![p] = {}]
    /\ flushing' = [flushing EXCEPT ![p] = {}]
    /\ UNCHANGED messages

FdbStep(e) ==
    \/ FdbStart(e) \/ FdbFinish(e) \/ FdbSend(e) \/ FdbSetEvent(e)
    \/ FdbCheckRecord(e) \/ GetAndWatch(e) \/ WatchEnds(e) \/ FdbConsume(e)
    \/ FdbStatusLook(e) \/ FdbRecordValue(e) \/ FdbSleep(e) \/ FdbSleepEnds(e) \/ FdbResult(e)

FdbNext ==
    \/ \E e \in Executions : FdbStep(e)
    \/ \E p \in Processes : FlushTake(p) \/ FlushWrite(p) \/ FlushFails(p) \/ FdbCrash(p)
    \/ Tick /\ UNCHANGED fdbOnly
=============================================================================
