---------------------------- MODULE MCReceivers ----------------------------
(***************************************************************************)
(* What starts workflows from outside: the scheduler, the Kafka and SQS    *)
(* receivers, and the S3 component's workflows.  They share no state, so   *)
(* one run explores them one at a time: part says which one moves, and the *)
(* others stay in an initial state.                                        *)
(***************************************************************************)
EXTENDS Scheduler, StreamReceivers, S3Files

VARIABLE part

mcVars == <<part, schedVars, streamVars, s3Vars>>

(* One initial state of each part that does not move. *)
SchedStill == mode = "ExactlyOncePerInterval" /\ \A p \in Loops : loop[p] = Down
StreamStill == topicExists
S3Still == op = "save"

MCInit ==
    /\ part \in {"scheduler", "streams", "s3"}
    /\ SchedInit(1) /\ StreamInit /\ S3Init
    /\ part # "scheduler" => SchedStill
    /\ part # "streams" => StreamStill
    /\ part # "s3" => S3Still

(* A loop's timer fires, or its query comes back; the clock moves on. *)
SchedStep ==
    /\ part = "scheduler" /\ UNCHANGED <<part, streamVars, s3Vars>>
    /\ (\E p \in Loops : LoopStep(p)) \/ ClockTick

Unmoved == UNCHANGED <<part, schedVars, s3Vars>>
KafkaMoves == part = "streams" /\ KafkaStep /\ Unmoved
SqsMoves == part = "streams" /\ SqsStep /\ Unmoved

MCNext ==
    \/ part = "scheduler" /\ SchedNext /\ UNCHANGED <<part, streamVars, s3Vars>>
    \/ part = "streams" /\ StreamNext /\ Unmoved
    \/ part = "s3" /\ S3Next /\ UNCHANGED <<part, schedVars, streamVars>>

(* The event loop resumes each receiver whose call came back, and the        *)
(* brokers deliver what they hold.                                           *)
MCSpec ==
    /\ MCInit /\ [][MCNext]_mcVars
    /\ WF_mcVars(SchedStep)
    /\ WF_mcVars(KafkaMoves) /\ WF_mcVars(SqsMoves)

(* Seconds 2 and 5 of every minute: further apart than the matcher looks. *)
MCPatterns == <<{2, 5}, 0..59, 0..23, 1..31, 1..12, 0..6>>
MCWFKey == [m1 |-> "m1", m2 |-> "m2"]

(* Handled comes about: a message that the broker delivers again after a     *)
(* failure or a crash is not passed over and blocks nothing behind it, but   *)
(* for a transaction that throws on every delivery (kafka.ts eachMessage).   *)
EveryMessageRuns == part = "streams" => <>Handled
=============================================================================
