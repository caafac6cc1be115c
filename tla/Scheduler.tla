----------------------------- MODULE Scheduler -----------------------------
(***************************************************************************)
(* scheduler/scheduler.ts: the DetachableLoop of one scheduled workflow in *)
(* each process, the scheduler_state row they share, and the workflows     *)
(* they start, whose UUID is made of the function and the scheduled time.  *)
(* The crontab is given by the numbers that scheduler/crontab.ts makes of  *)
(* its fields; how it makes them of the text is not modelled.  Time is     *)
(* counted in seconds.                                                     *)
(***************************************************************************)
EXTENDS Integers, FiniteSets

CONSTANTS Loops,         \* the processes that may run the loop
          Patterns,      \* the converted crontab: the numbers of its six fields
          MaxIters,      \* nextWakeupTime looks this many seconds ahead (3599)
          MaxClock, None

ASSUME SchedulerAssumption ==
    /\ MaxIters \in Nat \ {0} /\ MaxClock \in Nat
    /\ IsFiniteSet(Loops) /\ None \notin Nat

VARIABLES
    mode,        \* SchedulerMode: ExactlyOncePerInterval or ...WhenActive
    last_run,    \* scheduler_state.last_run_time, None before the first
    first_run,   \* (history) the first time ever recorded
    started,     \* workflows started: [time, uuid]
    loop,        \* [Loops -> [st, lastExec, next, isRunning, told, deaf]]: told is that
                 \* destroyScheduler was called, deaf that the loop did not hear it
    clock, faults

schedVars == <<mode, last_run, first_run, started, loop, clock, faults>>

Down == [st |-> "down", lastExec |-> 0, next |-> 0, isRunning |-> FALSE,
         told |-> FALSE, deaf |-> FALSE]

SchedInit(MaxFaults) ==
    /\ mode \in {"ExactlyOncePerInterval", "ExactlyOncePerIntervalWhenActive"}
    /\ last_run = None /\ first_run = None /\ started = {}
    /\ \E active \in (SUBSET Loops) \ {{}} :
          loop = [p \in Loops |-> IF p \in active THEN Down ELSE [Down EXCEPT !.st = "absent"]]
    /\ clock = 0 /\ faults = MaxFaults

(* TimeMatcher.match: all six fields of the date are listed. *)
match(patterns, date) == \A i \in 1..6 : date[i] \in patterns[i]

(* The date of a second: JavaScript's Date, within the first hours of a day. *)
DateOf(t) == <<t % 60, (t \div 60) % 60, (t \div 3600) % 24, 1, 1, 1>>
OnSchedule(t) == match(Patterns, DateOf(t))

(* The first matching second after t, or the last one looked at. *)
nextWakeupTime(t) ==
    LET hits == {s \in (t + 1)..(t + MaxIters) : OnSchedule(s)}
    IN IF hits = {} THEN t + MaxIters ELSE CHOOSE s \in hits : \A r \in hits : s <= r

St(p, st) == loop[p].st = st
To(p, st) == loop' = [loop EXCEPT ![p].st = st]

(* new DetachableLoop, startLoop: the stored time is read in one mode only. *)
Boot(p) ==
    /\ St(p, "down")
    /\ loop' = [loop EXCEPT ![p] =
          [Down EXCEPT !.lastExec = clock,
                       !.st = IF mode = "ExactlyOncePerInterval" THEN "reading" ELSE "plan",
                       !.isRunning = mode # "ExactlyOncePerInterval"]]
    /\ UNCHANGED <<mode, last_run, first_run, started, clock, faults>>

(* Mutant of ReadStored: a restarted loop goes on from the present. *)
StoredIgnored(p) ==
    /\ St(p, "reading")
    /\ loop' = [loop EXCEPT ![p].isRunning = TRUE, ![p].st = "plan"]
    /\ UNCHANGED <<mode, last_run, first_run, started, clock, faults>>

ReadStored(p) ==
    /\ St(p, "reading")
    /\ loop' = [loop EXCEPT ![p].lastExec = IF last_run = None THEN @ ELSE last_run,
                            ![p].isRunning = TRUE, ![p].st = "plan"]
    /\ UNCHANGED <<mode, last_run, first_run, started, clock, faults>>

Plan(p) ==
    /\ St(p, "plan")
    /\ IF loop[p].isRunning
       THEN loop' = [loop EXCEPT ![p].next = nextWakeupTime(loop[p].lastExec),
                                 ![p].st = "sleeping"]
       ELSE To(p, "ended")
    /\ UNCHANGED <<mode, last_run, first_run, started, clock, faults>>

(* The timer fired, nothing was left to wait for, or the sleep was interrupted. *)
Wake(p) ==
    /\ St(p, "sleeping")
    /\ loop[p].next <= clock \/ ~loop[p].isRunning
    /\ loop' = [loop EXCEPT ![p] =
          IF ~loop[p].isRunning THEN [@ EXCEPT !.st = "ended"]
          ELSE IF OnSchedule(loop[p].next) THEN [@ EXCEPT !.st = "start"]
          ELSE [@ EXCEPT !.lastExec = loop[p].next, !.st = "plan"]]
    /\ UNCHANGED <<mode, last_run, first_run, started, clock, faults>>

(* Mutant of WorkflowUUID: named after the moment it is started. *)
UUIDOfNow(p) == <<loop[p].next, clock>>

WorkflowUUID(p) == loop[p].next

StartWorkflow(p) ==
    /\ St(p, "start")
    /\ started' = started \cup {[time |-> loop[p].next, uuid |-> WorkflowUUID(p)]}
    /\ To(p, "record")
    /\ UNCHANGED <<mode, last_run, first_run, clock, faults>>

(* A query of the loop fails and its promise is rejected.  Until             *)
(* destroyScheduler awaits it, nobody handles that and the process exits.    *)
LoopFails(p) ==
    /\ faults > 0
    /\ loop[p].st \in {"reading", "start", "record"}
    /\ loop' = [loop EXCEPT ![p] = IF @.told THEN [@ EXCEPT !.st = "failed"] ELSE Down]
    /\ faults' = faults - 1
    /\ UNCHANGED <<mode, last_run, first_run, started, clock>>

Later(t) == IF last_run = None \/ last_run < t THEN t ELSE last_run

(* setLastScheduledTime keeps the greater time and the loop goes on from it. *)
RecordTime(p) ==
    /\ St(p, "record")
    /\ last_run' = Later(loop[p].next)
    /\ first_run' = IF first_run = None THEN loop[p].next ELSE first_run
    /\ loop' = [loop EXCEPT ![p].lastExec = Later(loop[p].next), ![p].st = "plan"]
    /\ UNCHANGED <<mode, started, clock, faults>>

(* Mutant of setStopLoopFlag: the flag is not cleared. *)
StopForgotten(p) ==
    /\ ~loop[p].told /\ loop[p].st \notin {"down", "absent"}
    /\ loop' = [loop EXCEPT ![p].told = TRUE, ![p].deaf = ~loop[p].isRunning]
    /\ UNCHANGED <<mode, last_run, first_run, started, clock, faults>>

(* destroyScheduler tells each loop once.  A loop that still reads the       *)
(* stored time is not running yet: setStopLoopFlag returns at once, and the  *)
(* loop goes on when the query answers, never to be told again.              *)
setStopLoopFlag(p) ==
    /\ ~loop[p].told /\ loop[p].st \notin {"down", "absent"}
    /\ loop' = [loop EXCEPT ![p].told = TRUE, ![p].deaf = ~loop[p].isRunning,
                            ![p].isRunning = FALSE]
    /\ UNCHANGED <<mode, last_run, first_run, started, clock, faults>>

CrashLoop(p) ==
    /\ faults > 0 /\ loop[p].st \notin {"down", "absent"}
    /\ loop' = [loop EXCEPT ![p] = Down]
    /\ faults' = faults - 1
    /\ UNCHANGED <<mode, last_run, first_run, started, clock>>

ClockTick ==
    /\ clock < MaxClock
    /\ clock' = clock + 1
    /\ UNCHANGED <<mode, last_run, first_run, started, loop, faults>>

LoopStep(p) == Boot(p) \/ ReadStored(p) \/ Plan(p) \/ Wake(p) \/ StartWorkflow(p) \/ RecordTime(p)

SchedNext ==
    \/ \E p \in Loops : LoopStep(p) \/ LoopFails(p) \/ setStopLoopFlag(p) \/ CrashLoop(p)
    \/ ClockTick

SchedSpec(MaxFaults) == SchedInit(MaxFaults) /\ [][SchedNext]_schedVars

-----------------------------------------------------------------------------
Alone == Cardinality({p \in Loops : loop[p].st # "absent"}) = 1

(* Exactly once per interval: however often loops crash, restart and race,   *)
(* a scheduled time starts workflows of one UUID only; and with one process  *)
(* that stores its times (ExactlyOncePerInterval), no scheduled time between *)
(* the first recorded one and the last is left out, although the loop hops   *)
(* over stretches without a match and catches up after being down.           *)
OncePerInterval ==
    /\ \A a, b \in started : a.time = b.time => a = b
    /\ \A a \in started : OnSchedule(a.time)
    /\ (Alone /\ mode = "ExactlyOncePerInterval" /\ last_run # None) =>
          \A t \in first_run..last_run : OnSchedule(t) => \E a \in started : a.time = t

(* Intervals missed while the process was down are made up: once a time is   *)
(* recorded, every later scheduled time is eventually started, also after a  *)
(* query that failed ended the process, unless it was told to stop.          *)
MissedMadeUp ==
    \A t \in 0..MaxClock : OnSchedule(t) =>
        [](Alone /\ mode = "ExactlyOncePerInterval" /\ last_run # None /\ last_run < t
             => <>((\E a \in started : a.time = t) \/ \E p \in Loops : loop[p].told))

(* destroyScheduler waits for every loop.  A loop that heard the stop ends,  *)
(* asleep, about to start a workflow or between starting it and storing its  *)
(* time.  One that was told while it read the stored time (deaf) did not     *)
(* hear it and need never end: for that loop destroyScheduler may wait for   *)
(* ever, and nothing is claimed here.                                        *)
StopEnds ==
    \A p \in Loops : [](loop[p].told /\ ~loop[p].deaf
                          => <>(loop[p].st \in {"ended", "failed", "down"}))
=============================================================================
