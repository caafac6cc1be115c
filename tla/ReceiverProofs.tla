--------------------------- MODULE ReceiverProofs ---------------------------
(***************************************************************************)
(* What holds of the scheduler, the Kafka and SQS receivers and the S3     *)
(* workflows, for any number of loops, messages, faults and days.          *)
(***************************************************************************)
EXTENDS Scheduler, StreamReceivers, S3Files, FiniteSetTheorems, WellFoundedInduction, TLAPS

-----------------------------------------------------------------------------
(* S3Files.  The object outlives the table's entry only while somebody is    *)
(* still to delete it, and no upload comes once recv has given up.           *)

S3Types ==
    /\ op \in {"save", "upload"}
    /\ pc \in {"put", "newActiveFile", "cleanup", "newPendingFile", "presign", "recv",
               "waiting", "fileActivated", "failed", "done"}
    /\ deleter \in {"none", "table", "object", "done"}
    /\ table \in {"absent", "pending", "active", "deleted"}
    /\ object \in BOOLEAN /\ finished \in BOOLEAN
    /\ url \in Nat /\ until \in Nat /\ day \in Nat

\* Where saveStringToFile can be: it never presigns, so nobody else uploads.
S3Saves ==
    op = "save" =>
        /\ pc \in {"put", "newActiveFile", "cleanup", "failed", "done"}
        /\ url = 0
        /\ pc = "newActiveFile" => object

\* Where writeFileViaURL can be.  What the client declared finished is in the
\* bucket until deleteFile runs, which waits for the end of the workflow.
S3Uploads ==
    op = "upload" =>
        /\ pc \in {"newPendingFile", "presign", "recv", "waiting", "fileActivated",
                   "failed", "done"}
        /\ finished /\ deleter = "none" => object
        /\ pc \in {"fileActivated", "done"} => finished

\* deleteFile runs after the workflow; only an ended workflow has an active file.
S3Ends ==
    /\ deleter # "none" => pc \in {"failed", "done"}
    /\ table = "active" => pc = "done" /\ deleter = "none"
    /\ pc = "done" /\ deleter = "none" => object

\* The wait of recv ends after the presigned post.
S3Expires ==
    /\ url <= day + Expiration
    /\ pc = "waiting" => url <= until
    /\ op = "upload" /\ deleter # "none" /\ ~finished => url <= day

S3Inv ==
    /\ S3Types
    /\ S3Saves
    /\ S3Uploads
    /\ S3Ends
    /\ S3Expires
    /\ BucketMatchesTable

\* No step of the three workflows, of the client or of the clock breaks it.
LEMMA S3Step ==
    ASSUME S3Inv, [S3Next]_s3Vars
    PROVE  S3Inv'
  <1> USE S3Assumption
  <1> USE DEF S3Inv, S3Types, S3Saves, S3Uploads, S3Ends, S3Expires, BucketMatchesTable, Step3
  <1>1. CASE PutObject \/ PutFails \/ CleanUp \/ NewActiveFile
    BY <1>1 DEF PutObject, PutFails, CleanUp, NewActiveFile
  <1>2. CASE NewPendingFile \/ Presign \/ PresignFails
    BY <1>2 DEF NewPendingFile, Presign, PresignFails
  <1>3. CASE RecvStart \/ RecvAnswers \/ RecvTimesOut
    BY <1>3 DEF RecvStart, RecvAnswers, RecvTimesOut, RecvTimeout
  <1>4. CASE FileActivated \/ ActivationFails \/ FileDeleted \/ DeleteObject
    BY <1>4 DEF FileActivated, ActivationFails, FileDeleted, DeleteObject
  <1>5. CASE ClientUploads
    BY <1>5 DEF ClientUploads
  <1>6. CASE ClientFinishes
    BY <1>6 DEF ClientFinishes
  <1>7. CASE NextDay
    BY <1>7 DEF NextDay
  <1>8. CASE UNCHANGED s3Vars
    BY <1>8 DEF s3Vars
  <1> QED
    BY <1>1, <1>2, <1>3, <1>4, <1>5, <1>6, <1>7, <1>8 DEF S3Next

\* For every lifetime of the presigned post and every wait longer than it, an
\* active file has its object, and an upload that was given up leaves none
\* (saveStringToFile, writeFileViaURL, deleteFile).
THEOREM BucketAndTableAgree == S3Spec => []BucketMatchesTable
  <1>1. S3Init => S3Inv
    <2> SUFFICES ASSUME S3Init PROVE S3Inv
      OBVIOUS
    <2>1. S3Types
      BY DEF S3Init, S3Types
    <2>2. S3Saves /\ S3Uploads /\ S3Ends /\ BucketMatchesTable
      BY DEF S3Init, S3Saves, S3Uploads, S3Ends, BucketMatchesTable
    <2>3. S3Expires
      BY S3Assumption DEF S3Init, S3Expires
    <2> QED
      BY <2>1, <2>2, <2>3 DEF S3Inv
  <1>2. S3Inv /\ [S3Next]_s3Vars => S3Inv'
    BY S3Step
  <1>3. S3Inv => BucketMatchesTable
    BY DEF S3Inv
  <1> QED
    BY <1>1, <1>2, <1>3, PTL DEF S3Spec

-----------------------------------------------------------------------------
(* StreamReceivers.  What is in a receiver's hands is what the broker will   *)
(* deliver next, and what it is about to acknowledge is on record.           *)

StreamTypes ==
    /\ kafka \in [st : {"connect", "run", "commit", "failed", "closed"}, tries : Nat, at : Nat]
    /\ committed \in Nat \ {0}
    /\ sqs \in [st : {"validate", "poll", "start", "delete", "failed", "closed"},
                msg : SUBSET Messages, down : BOOLEAN]
    /\ queue \subseteq Messages

KafkaInHand ==
    /\ kafka.at # 0 => kafka.at = committed
    /\ kafka.st = "commit" => kafka.at # 0 /\ KafkaUUID(kafka.at) \in ran

SqsInHand == sqs.st = "delete" => \A m \in sqs.msg : <<"sqs", WFKey[m]>> \in ran

StreamInv ==
    /\ StreamTypes
    /\ KafkaInHand
    /\ SqsInHand
    /\ NoMessageLost

\* A step that keeps what is on record and acknowledges nothing loses nothing.
LEMMA KeepsMessages ==
    ASSUME NoMessageLost, ran \subseteq ran', UNCHANGED <<committed, queue>>
    PROVE  NoMessageLost'
  BY DEF NoMessageLost

\* Steps of the Kafka consumer.
LEMMA KafkaKeeps ==
    ASSUME StreamInv, KafkaStep \/ TopicCreated \/ KafkaRestart
    PROVE  StreamInv'
  <1> USE DEF StreamInv, sqsVars
  <1>0. SqsInHand'
    BY DEF SqsInHand, KafkaStep, Subscribe, Fetch, EachMessage, CommitOffset, Disconnect,
           TopicCreated, KafkaRestart
  <1>1. CASE Subscribe \/ Disconnect \/ TopicCreated \/ KafkaRestart
    <2>1. StreamTypes' /\ KafkaInHand'
      BY <1>1 DEF Subscribe, Disconnect, TopicCreated, KafkaRestart, StreamTypes, KafkaInHand
    <2>2. NoMessageLost'
      BY <1>1, KeepsMessages DEF Subscribe, Disconnect, TopicCreated, KafkaRestart
    <2> QED
      BY <1>0, <2>1, <2>2
  <1>2. CASE Fetch
    <2>1. StreamTypes' /\ KafkaInHand'
      BY <1>2 DEF Fetch, StreamTypes, KafkaInHand
    <2>2. NoMessageLost'
      BY <1>2, KeepsMessages DEF Fetch
    <2> QED
      BY <1>0, <2>1, <2>2
  <1>3. CASE EachMessage
    <2> DEFINE throws == Method = "transaction" /\ kafka.at \in Poison
    <2>0. kafka' = IF throws THEN [kafka EXCEPT !.st = "run", !.at = 0]
                   ELSE [kafka EXCEPT !.st = "commit"]
      BY <1>3 DEF EachMessage, StreamTypes
    <2>1. StreamTypes' /\ KafkaInHand'
      <3>1. CASE throws
        <4>1. kafka' = [kafka EXCEPT !.st = "run", !.at = 0]
          BY <2>0, <3>1
        <4>2. kafka'.st = "run" /\ kafka'.at = 0
          BY <4>1 DEF StreamTypes
        <4>4. UNCHANGED <<committed, sqs, queue>>
          BY <1>3 DEF EachMessage
        <4>3. StreamTypes'
          BY <4>1, <4>4 DEF StreamTypes
        <4> QED
          BY <4>2, <4>3 DEF KafkaInHand
      <3>2. CASE ~throws
        BY <1>3, <2>0, <3>2 DEF EachMessage, StreamTypes, KafkaInHand
      <3> QED
        BY <3>1, <3>2
    <2>2. NoMessageLost'
      BY <1>3, KeepsMessages DEF EachMessage
    <2> QED
      BY <1>0, <2>1, <2>2
  <1>4. CASE CommitOffset
    <2>0. kafka'.st = "run" /\ kafka'.at = 0
      BY <1>4 DEF CommitOffset, StreamTypes
    <2>1. StreamTypes' /\ KafkaInHand'
      <3>1. kafka' \in [st : {"connect", "run", "commit", "failed", "closed"},
                        tries : Nat, at : Nat]
        BY <1>4 DEF CommitOffset, StreamTypes
      <3>2. committed' \in Nat \ {0}
        BY <1>4 DEF CommitOffset, StreamTypes
      <3> QED
        BY <1>4, <2>0, <3>1, <3>2 DEF CommitOffset, StreamTypes, KafkaInHand
    <2>2. committed' = committed + 1 /\ KafkaUUID(committed) \in ran
      BY <1>4 DEF CommitOffset, StreamTypes, KafkaInHand
    <2>3. ASSUME NEW o \in Offsets, o < committed'
          PROVE  KafkaUUID(o) \in ran
      <3>1. o \in Nat /\ committed \in Nat
        BY StreamAssumption DEF Offsets, StreamTypes
      <3>2. o < committed \/ o = committed
        BY <2>2, <2>3, <3>1
      <3> QED
        BY <2>2, <3>2 DEF NoMessageLost
    <2>4. NoMessageLost'
      BY <1>4, <2>3 DEF CommitOffset, NoMessageLost
    <2> QED
      BY <1>0, <2>1, <2>4
  <1> QED
    BY <1>1, <1>2, <1>3, <1>4 DEF KafkaStep

\* Steps of the SQS receiver.
LEMMA SqsKeeps ==
    ASSUME StreamInv, SqsStep \/ ListenerFails \/ destroyReceivers
    PROVE  StreamInv'
  <1> USE DEF StreamInv, kafkaVars
  <1>0. KafkaInHand'
    BY DEF KafkaInHand, SqsStep, ValidateConnection, Poll, StartForMessage, DeleteMessage,
           Reappear, ListenerFails, destroyReceivers
  <1>1. CASE ValidateConnection \/ Reappear \/ ListenerFails \/ destroyReceivers
    <2>1. StreamTypes' /\ SqsInHand'
      <3>1. CASE ValidateConnection
        BY <3>1 DEF ValidateConnection, StreamTypes, SqsInHand
      <3>2. CASE Reappear
        BY <3>2 DEF Reappear, StreamTypes, SqsInHand
      <3>3. CASE ListenerFails
        BY <3>3 DEF ListenerFails, StreamTypes, SqsInHand
      <3>4. CASE destroyReceivers
        BY <3>4 DEF destroyReceivers, StreamTypes, SqsInHand
      <3> QED
        BY <1>1, <3>1, <3>2, <3>3, <3>4
    <2>2. NoMessageLost'
      BY <1>1, KeepsMessages DEF ValidateConnection, Reappear, ListenerFails, destroyReceivers
    <2> QED
      BY <1>0, <2>1, <2>2
  <1>2. CASE Poll
    <2>1. StreamTypes' /\ SqsInHand'
      <3>1. CASE sqs.down
        <4>1. sqs' = [sqs EXCEPT !.st = "closed"]
          BY <1>2, <3>1 DEF Poll
        <4>2. sqs'.st = "closed"
          BY <4>1 DEF StreamTypes
        <4>3. StreamTypes'
          BY <1>2, <4>1 DEF Poll, StreamTypes
        <4> QED
          BY <4>2, <4>3 DEF SqsInHand
      <3>2. CASE ~sqs.down
        <4>1. PICK m \in queue \ hidden : sqs' = [sqs EXCEPT !.st = "start", !.msg = {m}]
          BY <1>2, <3>2 DEF Poll
        <4>2. sqs'.st = "start"
          BY <4>1 DEF StreamTypes
        <4>3. StreamTypes'
          BY <1>2, <4>1 DEF Poll, StreamTypes
        <4> QED
          BY <4>2, <4>3 DEF SqsInHand
      <3> QED
        BY <3>1, <3>2
    <2>2. NoMessageLost'
      BY <1>2, KeepsMessages DEF Poll
    <2> QED
      BY <1>0, <2>1, <2>2
  <1>3. CASE StartForMessage
    <2>1. StreamTypes' /\ SqsInHand'
      BY <1>3 DEF StartForMessage, StreamTypes, SqsInHand
    <2>2. NoMessageLost'
      BY <1>3, KeepsMessages DEF StartForMessage
    <2> QED
      BY <1>0, <2>1, <2>2
  <1>4. CASE DeleteMessage
    <2>1. StreamTypes' /\ SqsInHand'
      BY <1>4 DEF DeleteMessage, StreamTypes, SqsInHand
    <2>2. NoMessageLost'
      BY <1>4 DEF DeleteMessage, SqsInHand, NoMessageLost
    <2> QED
      BY <1>0, <2>1, <2>2
  <1> QED
    BY <1>1, <1>2, <1>3, <1>4 DEF SqsStep

\* For every partition, queue and number of failures: a message that the broker
\* will not deliver again has its workflow or transaction on record (eachMessage
\* of the Kafka receivers, the loop of the SQS receiver).
THEOREM MessagesNotLost == StreamSpec => []NoMessageLost
  <1>1. StreamInit => StreamInv
    BY DEF StreamInit, StreamInv, StreamTypes, KafkaInHand, SqsInHand, NoMessageLost, Offsets
  <1>2. StreamInv /\ [StreamNext]_streamVars => StreamInv'
    <2> SUFFICES ASSUME StreamInv, [StreamNext]_streamVars PROVE StreamInv'
      OBVIOUS
    <2>1. CASE UNCHANGED streamVars
      BY <2>1 DEF streamVars, StreamInv, StreamTypes, KafkaInHand, SqsInHand, NoMessageLost
    <2> QED
      BY <2>1, KafkaKeeps, SqsKeeps DEF StreamNext
  <1>3. StreamInv => NoMessageLost
    BY DEF StreamInv
  <1> QED
    BY <1>1, <1>2, <1>3, PTL DEF StreamSpec

-----------------------------------------------------------------------------
(* Scheduler.  The time stored by the only loop of ExactlyOncePerInterval    *)
(* divides the schedule: up to it everything was started, and between it and *)
(* where the loop stands nothing was scheduled.                              *)

LoopStates == {"down", "absent", "reading", "plan", "sleeping", "start", "record",
               "ended", "failed"}

SchedTypes ==
    /\ loop \in [Loops -> [st : LoopStates, lastExec : Nat, next : Nat,
                           isRunning : BOOLEAN, told : BOOLEAN, deaf : BOOLEAN]]
    /\ last_run \in Nat \cup {None} /\ first_run \in Nat \cup {None}
    /\ clock \in Nat

\* Only scheduled times are started, under the UUID made of the time alone.
OnTime ==
    /\ \A a \in started : /\ a.time \in Nat /\ OnSchedule(a.time)
                           /\ a = [time |-> a.time, uuid |-> a.time]
    /\ \A p \in Loops : loop[p].st \in {"start", "record"} => OnSchedule(loop[p].next)
    /\ \A p \in Loops : loop[p].st = "record" =>
          [time |-> loop[p].next, uuid |-> loop[p].next] \in started

Quiet(s, t) == \A r \in Nat : s < r /\ r <= t => ~OnSchedule(r)

OnlyLoop(p) == /\ mode = "ExactlyOncePerInterval"
               /\ \A q \in Loops : loop[q].st # "absent" => q = p

\* Where a loop stands relative to the stored time, and its wake-up time to it.
Stands(p) ==
    /\ (loop[p].st \in {"plan", "sleeping", "start", "record"} /\ last_run # None) =>
          last_run <= loop[p].lastExec /\ Quiet(last_run, loop[p].lastExec)
    /\ loop[p].st \in {"sleeping", "start", "record"} =>
          loop[p].lastExec < loop[p].next /\ Quiet(loop[p].lastExec, loop[p].next - 1)

Covered ==
    /\ last_run = None <=> first_run = None
    /\ last_run # None =>
          /\ first_run <= last_run
          /\ \A t \in Nat : first_run <= t /\ t <= last_run /\ OnSchedule(t) =>
                 \E a \in started : a.time = t

SoleLoop == \A p \in Loops : OnlyLoop(p) => Stands(p) /\ Covered

SchedInv == SchedTypes /\ OnTime /\ SoleLoop

\* A set of natural numbers that is not empty has a least member.
LEMMA LeastMember ==
    ASSUME NEW S \in SUBSET Nat, S # {}
    PROVE  \E s \in S : \A r \in S : s <= r
  <1> DEFINE Less == {ss \in Nat \X Nat : ss[1] < ss[2]}
  <1>1. IsWellFoundedOn(Less, Nat)
    BY NatLessThanWellFounded DEF OpToRel
  <1>2. PICK x \in S : \A y \in S : ~(<<y, x>> \in Less)
    <2> HIDE DEF Less
    <2> QED
      BY <1>1, WFMin
  <1>3. ASSUME NEW y \in S PROVE x <= y
    <2>1. ~(<<y, x>> \in Less)
      BY <1>2
    <2>2. <<y, x>> \in Nat \X Nat => ~(y < x)
      BY <2>1
    <2>3. x \in Nat /\ y \in Nat
      OBVIOUS
    <2> QED
      BY <2>2, <2>3
  <1> QED
    BY <1>3

\* nextWakeupTime moves on, and never past a scheduled time.
LEMMA WakeupSkipsNothing ==
    ASSUME NEW t \in Nat
    PROVE  /\ nextWakeupTime(t) \in Nat /\ t < nextWakeupTime(t)
           /\ Quiet(t, nextWakeupTime(t) - 1)
  <1> DEFINE hits == {s \in (t + 1)..(t + MaxIters) : OnSchedule(s)}
  <1>1. CASE hits = {}
    <2>1. nextWakeupTime(t) = t + MaxIters
      BY <1>1 DEF nextWakeupTime
    <2>2. \A s \in (t + 1)..(t + MaxIters) : ~OnSchedule(s)
      BY <1>1
    <2> HIDE DEF hits
    <2> QED
      BY <2>1, <2>2, SchedulerAssumption DEF Quiet
  <1>2. CASE hits # {}
    <2> DEFINE n == nextWakeupTime(t)
    <2>1. n = CHOOSE s \in hits : \A r \in hits : s <= r
      BY <1>2 DEF nextWakeupTime
    <2>2. hits \in SUBSET Nat
      BY SchedulerAssumption
    <2>3. \E s \in hits : \A r \in hits : s <= r
      BY <1>2, <2>2, LeastMember
    <2>4. n \in hits /\ \A r \in hits : n <= r
      BY <2>1, <2>3
    <2>5. n \in (t + 1)..(t + MaxIters)
      BY <2>4
    <2>6. ASSUME NEW r \in Nat, t < r, r <= n - 1 PROVE ~OnSchedule(r)
      <3>1. r \in (t + 1)..(t + MaxIters) /\ ~(n <= r)
        BY <2>5, <2>6, SchedulerAssumption
      <3> QED
        BY <2>4, <3>1
    <2>7. n \in Nat /\ t < n
      BY <2>5, SchedulerAssumption
    <2> QED
      BY <2>6, <2>7 DEF Quiet
  <1> QED
    BY <1>1, <1>2

Record == [st : LoopStates, lastExec : Nat, next : Nat, isRunning : BOOLEAN, told : BOOLEAN,
           deaf : BOOLEAN]

\* A step of one loop: it is not absent before or after, and no other moves.
Moves(p, r) ==
    /\ loop[p].st # "absent" /\ r.st # "absent" /\ r \in Record
    /\ loop' = [loop EXCEPT ![p] = r]
    /\ mode' = mode

\* What such a step has to show of the loop that moves.
LEMMA OneLoopMoves ==
    ASSUME SchedInv, NEW p \in Loops, NEW r, Moves(p, r),
           OnlyLoop(p) => Stands(p)' /\ Covered'
    PROVE  SoleLoop'
  <1> SUFFICES ASSUME NEW q \in Loops, OnlyLoop(q)' PROVE Stands(q)' /\ Covered'
    BY DEF SoleLoop
  <1>1. loop'[p] = r /\ \A x \in Loops \ {p} : loop'[x] = loop[x]
    BY DEF Moves, SchedInv, SchedTypes
  <1>2. q = p
    BY <1>1 DEF OnlyLoop, Moves
  <1>3. OnlyLoop(p)
    BY <1>1, <1>2 DEF OnlyLoop, Moves
  <1> QED
    BY <1>2, <1>3

\* The loop that moves is not about to start or record anything.
LEMMA MovesOnTime ==
    ASSUME SchedInv, NEW p \in Loops, NEW r, Moves(p, r), started' = started,
           r.st \in {"start", "record"} => r.st = "start" /\ OnSchedule(r.next)
    PROVE  OnTime'
  <1>1. loop'[p] = r /\ \A x \in Loops \ {p} : loop'[x] = loop[x]
    BY DEF Moves, SchedInv, SchedTypes
  <1>2. ASSUME NEW q \in Loops
        PROVE  /\ loop'[q].st \in {"start", "record"} => OnSchedule(loop'[q].next)
               /\ loop'[q].st = "record" =>
                     [time |-> loop'[q].next, uuid |-> loop'[q].next] \in started
    BY <1>1 DEF OnTime, SchedInv
  <1> QED
    BY <1>2 DEF OnTime, SchedInv, OnSchedule

\* A step that leaves the table and what was started alone.
LEMMA PlainMove ==
    ASSUME SchedInv, NEW p \in Loops, NEW r, Moves(p, r),
           UNCHANGED <<last_run, first_run, started, clock>>,
           r.st \in {"start", "record"} => r.st = "start" /\ OnSchedule(r.next),
           (OnlyLoop(p) /\ r.st \in {"plan", "sleeping", "start", "record"} /\ last_run # None) =>
              last_run <= r.lastExec /\ Quiet(last_run, r.lastExec),
           (OnlyLoop(p) /\ r.st \in {"sleeping", "start", "record"}) =>
              r.lastExec < r.next /\ Quiet(r.lastExec, r.next - 1)
    PROVE  SchedInv'
  <1>1. loop'[p] = r
    BY DEF Moves, SchedInv, SchedTypes
  <1>2. SchedTypes'
    BY DEF Moves, SchedInv, SchedTypes, Record
  <1>3. OnTime'
    BY MovesOnTime
  <1>4. ASSUME OnlyLoop(p) PROVE Stands(p)'
    BY <1>1, <1>4 DEF Stands, Quiet, OnSchedule
  <1>5. ASSUME OnlyLoop(p) PROVE Covered'
    BY <1>5 DEF SchedInv, SoleLoop, Covered, OnSchedule
  <1>6. SoleLoop'
    BY <1>4, <1>5, OneLoopMoves
  <1> QED
    BY <1>2, <1>3, <1>6 DEF SchedInv

\* A loop is started, fails, is told to stop, crashes.
LEMMA BootKeeps ==
    ASSUME SchedInv, NEW p \in Loops,
           Boot(p) \/ LoopFails(p) \/ setStopLoopFlag(p) \/ CrashLoop(p)
    PROVE  SchedInv'
  <1> USE DEF SchedInv
  <1>0. loop[p] \in Record
    BY DEF SchedTypes, Record
  <1>1. CASE Boot(p)
    <2> DEFINE r == [Down EXCEPT !.lastExec = clock,
                       !.st = IF mode = "ExactlyOncePerInterval" THEN "reading" ELSE "plan",
                       !.isRunning = mode # "ExactlyOncePerInterval"]
    <2>1. r \in Record /\ r.st = (IF mode = "ExactlyOncePerInterval" THEN "reading" ELSE "plan")
      BY DEF Down, Record, LoopStates, SchedTypes
    <2>2. loop' = [loop EXCEPT ![p] = r] /\ mode' = mode
          /\ UNCHANGED <<last_run, first_run, started, clock>> /\ loop[p].st = "down"
      BY <1>1 DEF Boot, St
    <2> HIDE DEF r
    <2>3. Moves(p, r)
      BY <2>1, <2>2 DEF Moves
    <2>4. OnlyLoop(p) => r.st = "reading"
      BY <2>1 DEF OnlyLoop
    <2>5. r.st \in {"reading", "plan"}
      BY <2>1
    <2> QED
      BY <2>2, <2>3, <2>4, <2>5, PlainMove
  <1>2. CASE LoopFails(p)
    <2> DEFINE r == IF loop[p].told THEN [loop[p] EXCEPT !.st = "failed"] ELSE Down
    <2>1. r \in Record /\ r.st \in {"failed", "down"}
      BY <1>0 DEF Record, LoopStates, Down
    <2>2. loop' = [loop EXCEPT ![p] = r] /\ mode' = mode
          /\ UNCHANGED <<last_run, first_run, started, clock>> /\ loop[p].st # "absent"
      BY <1>2 DEF LoopFails
    <2> HIDE DEF r
    <2>3. Moves(p, r)
      BY <2>1, <2>2 DEF Moves
    <2> QED
      BY <2>1, <2>2, <2>3, PlainMove
  <1>3. CASE setStopLoopFlag(p)
    <2> DEFINE r == [loop[p] EXCEPT !.told = TRUE, !.deaf = ~loop[p].isRunning,
                                    !.isRunning = FALSE]
    <2>1. r \in Record
      BY <1>0 DEF Record
    <2>2. r.st = loop[p].st /\ r.next = loop[p].next /\ r.lastExec = loop[p].lastExec
      BY <1>0 DEF Record
    <2>3. loop' = [loop EXCEPT ![p] = r] /\ mode' = mode
          /\ UNCHANGED <<last_run, first_run, started, clock>> /\ loop[p].st # "absent"
      BY <1>3 DEF setStopLoopFlag
    <2> HIDE DEF r
    <2>4. Moves(p, r)
      BY <2>1, <2>2, <2>3 DEF Moves
    <2>5. loop'[p] = r /\ \A x \in Loops \ {p} : loop'[x] = loop[x]
      BY <2>3 DEF SchedTypes
    <2>6. SchedTypes'
      BY <2>1, <2>3 DEF SchedTypes, Record
    <2>7. OnTime'
      <3>1. ASSUME NEW q \in Loops
            PROVE  loop'[q].st = loop[q].st /\ loop'[q].next = loop[q].next
        BY <2>2, <2>5
      <3>2. ASSUME NEW q \in Loops
            PROVE  /\ loop'[q].st \in {"start", "record"} => OnSchedule(loop'[q].next)
                   /\ loop'[q].st = "record" =>
                         [time |-> loop'[q].next, uuid |-> loop'[q].next] \in started
        BY <3>1 DEF OnTime
      <3> QED
        BY <2>3, <3>2 DEF OnTime, OnSchedule
    <2>8. ASSUME OnlyLoop(p) PROVE Stands(p)' /\ Covered'
      <3>1. Stands(p) /\ Covered
        BY <2>8 DEF SoleLoop
      <3>2. Covered'
        BY <2>3, <3>1 DEF Covered, OnSchedule
      <3>3. Stands(p)'
        BY <2>2, <2>3, <2>5, <3>1 DEF Stands, Quiet, OnSchedule
      <3> QED
        BY <3>2, <3>3
    <2>9. SoleLoop'
      BY <2>4, <2>8, OneLoopMoves
    <2> QED
      BY <2>6, <2>7, <2>9
  <1>4. CASE CrashLoop(p)
    <2>1. Down \in Record /\ Down.st = "down"
      BY DEF Down, Record, LoopStates
    <2>2. loop' = [loop EXCEPT ![p] = Down] /\ mode' = mode
          /\ UNCHANGED <<last_run, first_run, started, clock>> /\ loop[p].st # "absent"
      BY <1>4 DEF CrashLoop
    <2>3. Moves(p, Down)
      BY <2>1, <2>2 DEF Moves
    <2> QED
      BY <2>1, <2>2, <2>3, PlainMove
  <1> QED
    BY <1>1, <1>2, <1>3, <1>4

\* A loop reads the stored time, plans its next wake-up, wakes.
LEMMA PlanKeeps ==
    ASSUME SchedInv, NEW p \in Loops, ReadStored(p) \/ Plan(p) \/ Wake(p)
    PROVE  SchedInv'
  <1> USE DEF SchedInv
  <1>0. loop[p] \in Record
    BY DEF SchedTypes, Record
  <1>6. OnlyLoop(p) => Stands(p)
    BY DEF SoleLoop
  <1>1. CASE ReadStored(p)
    <2> DEFINE last == IF last_run = None THEN loop[p].lastExec ELSE last_run
               r == [loop[p] EXCEPT !.lastExec = last, !.isRunning = TRUE, !.st = "plan"]
    <2>1. last \in Nat
      BY <1>0 DEF Record, SchedTypes
    <2>2. loop' = [loop EXCEPT ![p] = r] /\ mode' = mode
          /\ UNCHANGED <<last_run, first_run, started, clock>> /\ loop[p].st = "reading"
      BY <1>1 DEF ReadStored, St
    <2>3. last_run # None => last = last_run
      OBVIOUS
    <2> HIDE DEF last
    <2>4. r \in Record /\ r.st = "plan" /\ r.lastExec = last
      BY <1>0, <2>1 DEF Record, LoopStates
    <2> HIDE DEF r
    <2>5. Moves(p, r)
      BY <2>2, <2>4 DEF Moves
    <2>6. last_run # None => last_run <= r.lastExec /\ Quiet(last_run, r.lastExec)
      BY <2>1, <2>3, <2>4 DEF Quiet, SchedTypes
    <2> QED
      BY <2>2, <2>4, <2>5, <2>6, PlainMove
  <1>2. CASE Plan(p) /\ loop[p].isRunning
    <2> DEFINE n == nextWakeupTime(loop[p].lastExec)
               r == [loop[p] EXCEPT !.next = n, !.st = "sleeping"]
    <2>1. loop' = [loop EXCEPT ![p] = r] /\ mode' = mode
          /\ UNCHANGED <<last_run, first_run, started, clock>> /\ loop[p].st = "plan"
      BY <1>2 DEF Plan, St
    <2>2. loop[p].lastExec \in Nat
      BY <1>0 DEF Record
    <2>3. n \in Nat /\ loop[p].lastExec < n /\ Quiet(loop[p].lastExec, n - 1)
      BY <2>2, WakeupSkipsNothing
    <2> HIDE DEF n
    <2>4. r \in Record /\ r.st = "sleeping" /\ r.lastExec = loop[p].lastExec /\ r.next = n
      BY <1>0, <2>3 DEF Record, LoopStates
    <2> HIDE DEF r
    <2>5. Moves(p, r)
      BY <2>1, <2>4 DEF Moves
    <2>6. OnlyLoop(p) /\ last_run # None => last_run <= r.lastExec /\ Quiet(last_run, r.lastExec)
      BY <1>6, <2>1, <2>4 DEF Stands
    <2> QED
      BY <2>1, <2>3, <2>4, <2>5, <2>6, PlainMove
  <1>3. CASE (Plan(p) \/ Wake(p)) /\ ~loop[p].isRunning
    <2> DEFINE r == [loop[p] EXCEPT !.st = "ended"]
    <2>1. loop' = [loop EXCEPT ![p] = r] /\ mode' = mode
          /\ UNCHANGED <<last_run, first_run, started, clock>> /\ loop[p].st # "absent"
      BY <1>3 DEF Plan, Wake, St, To
    <2>2. r \in Record /\ r.st = "ended"
      BY <1>0 DEF Record, LoopStates
    <2> HIDE DEF r
    <2>3. Moves(p, r)
      BY <2>1, <2>2 DEF Moves
    <2> QED
      BY <2>1, <2>2, <2>3, PlainMove
  <1>4. CASE Wake(p) /\ loop[p].isRunning /\ OnSchedule(loop[p].next)
    <2> DEFINE r == [loop[p] EXCEPT !.st = "start"]
    <2>1. loop' = [loop EXCEPT ![p] = r] /\ mode' = mode
          /\ UNCHANGED <<last_run, first_run, started, clock>> /\ loop[p].st = "sleeping"
      BY <1>4 DEF Wake, St
    <2>2. /\ r \in Record /\ r.st = "start"
          /\ r.lastExec = loop[p].lastExec /\ r.next = loop[p].next
      BY <1>0 DEF Record, LoopStates
    <2> HIDE DEF r
    <2>3. Moves(p, r)
      BY <2>1, <2>2 DEF Moves
    <2>4. OnlyLoop(p) =>
            /\ last_run # None => last_run <= r.lastExec /\ Quiet(last_run, r.lastExec)
            /\ r.lastExec < r.next /\ Quiet(r.lastExec, r.next - 1)
      BY <1>6, <2>1, <2>2 DEF Stands
    <2> QED
      BY <1>4, <2>1, <2>2, <2>3, <2>4, PlainMove
  <1>5. CASE Wake(p) /\ loop[p].isRunning /\ ~OnSchedule(loop[p].next)
    <2> DEFINE r == [loop[p] EXCEPT !.lastExec = loop[p].next, !.st = "plan"]
    <2>1. loop' = [loop EXCEPT ![p] = r] /\ mode' = mode
          /\ UNCHANGED <<last_run, first_run, started, clock>> /\ loop[p].st = "sleeping"
      BY <1>5 DEF Wake, St
    <2>2. r \in Record /\ r.st = "plan" /\ r.lastExec = loop[p].next
      BY <1>0 DEF Record, LoopStates
    <2> HIDE DEF r
    <2>3. Moves(p, r)
      BY <2>1, <2>2 DEF Moves
    <2>4. ASSUME OnlyLoop(p), last_run # None
          PROVE  last_run <= r.lastExec /\ Quiet(last_run, r.lastExec)
      <3> DEFINE e == loop[p].lastExec
                 n == loop[p].next
      <3>1. last_run <= e /\ Quiet(last_run, e) /\ e < n /\ Quiet(e, n - 1)
        BY <1>6, <2>1, <2>4 DEF Stands
      <3>2. e \in Nat /\ n \in Nat /\ last_run \in Nat
        BY <1>0, <2>4 DEF Record, SchedTypes
      <3>3. ~OnSchedule(n)
        BY <1>5
      <3> HIDE DEF e, n
      <3>4. ASSUME NEW t \in Nat, last_run < t, t <= n PROVE ~OnSchedule(t)
        <4>1. t <= e \/ (e < t /\ t <= n - 1) \/ t = n
          BY <3>2, <3>4
        <4> QED
          BY <3>1, <3>3, <3>4, <4>1 DEF Quiet
      <3>5. last_run <= n
        BY <3>1, <3>2
      <3> QED
        BY <2>2, <3>4, <3>5 DEF Quiet, n
    <2> QED
      BY <2>1, <2>2, <2>3, <2>4, PlainMove
  <1> QED
    BY <1>1, <1>2, <1>3, <1>4, <1>5

\* A loop starts the workflow of the time it woke for.
LEMMA StartKeeps ==
    ASSUME SchedInv, NEW p \in Loops, StartWorkflow(p)
    PROVE  SchedInv'
  <1> USE DEF SchedInv
  <1> DEFINE n == loop[p].next
             a == [time |-> n, uuid |-> n]
             r == [loop[p] EXCEPT !.st = "record"]
  <1>1. loop[p] \in Record
    BY DEF SchedTypes, Record
  <1>2. loop' = [loop EXCEPT ![p] = r] /\ mode' = mode /\ started' = started \cup {a}
        /\ UNCHANGED <<last_run, first_run, clock>> /\ loop[p].st = "start"
    BY DEF StartWorkflow, St, To, WorkflowUUID
  <1>3. r \in Record /\ r.st = "record" /\ r.lastExec = loop[p].lastExec /\ r.next = n
    BY <1>1 DEF Record, LoopStates
  <1>4. n \in Nat /\ OnSchedule(n)
    BY <1>1, <1>2 DEF Record, OnTime
  <1> HIDE DEF r, n
  <1>5. Moves(p, r)
    BY <1>2, <1>3 DEF Moves
  <1>6. loop'[p] = r /\ \A x \in Loops \ {p} : loop'[x] = loop[x]
    BY <1>2 DEF SchedTypes
  <1>7. SchedTypes'
    BY <1>2, <1>3 DEF SchedTypes, Record
  <1>8. OnTime'
    <2>1. ASSUME NEW b \in started'
          PROVE  b.time \in Nat /\ OnSchedule(b.time) /\ b = [time |-> b.time, uuid |-> b.time]
      BY <1>2, <1>4 DEF OnTime
    <2>2. ASSUME NEW q \in Loops
          PROVE  /\ loop'[q].st \in {"start", "record"} => OnSchedule(loop'[q].next)
                 /\ loop'[q].st = "record" =>
                       [time |-> loop'[q].next, uuid |-> loop'[q].next] \in started'
      <3>1. CASE q = p
        BY <1>2, <1>3, <1>4, <1>6, <3>1
      <3>2. CASE q # p
        BY <1>2, <1>6, <3>2 DEF OnTime
      <3> QED
        BY <3>1, <3>2
    <2> QED
      BY <2>1, <2>2 DEF OnTime, OnSchedule
  <1>9. ASSUME OnlyLoop(p) PROVE Stands(p)' /\ Covered'
    <2>1. Stands(p) /\ Covered
      BY <1>9 DEF SoleLoop
    <2>2. Covered'
      BY <1>2, <2>1 DEF Covered, OnSchedule
    <2>3. Stands(p)'
      BY <1>2, <1>3, <1>6, <2>1 DEF Stands, Quiet, OnSchedule, n
    <2> QED
      BY <2>2, <2>3
  <1>10. SoleLoop'
    BY <1>5, <1>9, OneLoopMoves
  <1> QED
    BY <1>7, <1>8, <1>10

\* setLastScheduledTime: the time is stored, and nothing before it was missed.
LEMMA RecordKeeps ==
    ASSUME SchedInv, NEW p \in Loops, RecordTime(p)
    PROVE  SchedInv'
  <1> USE DEF SchedInv
  <1> DEFINE n == loop[p].next
             l == Later(n)
             r == [loop[p] EXCEPT !.lastExec = l, !.st = "plan"]
  <1>1. loop[p] \in Record
    BY DEF SchedTypes, Record
  <1>2. /\ loop' = [loop EXCEPT ![p] = r] /\ mode' = mode /\ last_run' = l
        /\ first_run' = (IF first_run = None THEN n ELSE first_run)
        /\ UNCHANGED <<started, clock>> /\ loop[p].st = "record"
    BY DEF RecordTime, St
  <1>3. n \in Nat /\ l \in Nat
    BY <1>1 DEF Record, Later, SchedTypes
  <1> HIDE DEF l
  <1>4. r \in Record /\ r.st = "plan" /\ r.lastExec = l
    BY <1>1, <1>3 DEF Record, LoopStates
  <1> HIDE DEF r, n
  <1>5. Moves(p, r)
    BY <1>2, <1>4 DEF Moves
  <1>6. loop'[p] = r /\ \A x \in Loops \ {p} : loop'[x] = loop[x]
    BY <1>2 DEF SchedTypes
  <1>7. SchedTypes'
    BY <1>2, <1>3, <1>4 DEF SchedTypes, Record
  <1>8. OnTime'
    BY <1>2, <1>4, <1>5, MovesOnTime
  <1>9. ASSUME OnlyLoop(p) PROVE Stands(p)' /\ Covered'
    <2> DEFINE e == loop[p].lastExec
    <2>1. Stands(p) /\ Covered
      BY <1>9 DEF SoleLoop
    <2>2. e < n /\ Quiet(e, n - 1) /\ (last_run # None => last_run <= e /\ Quiet(last_run, e))
      BY <1>2, <2>1 DEF Stands, n
    <2>3. e \in Nat /\ last_run \in Nat \cup {None} /\ first_run \in Nat \cup {None}
      BY <1>1 DEF Record, SchedTypes
    <2> HIDE DEF e
    <2>4. l = n
      BY <1>3, <2>2, <2>3 DEF l, Later
    <2>5. Stands(p)'
      <3>1. n <= n /\ \A t \in Nat : ~(n < t /\ t <= n)
        BY <1>3
      <3>2. loop'[p].st = "plan" /\ loop'[p].lastExec = n /\ last_run' = n
        BY <1>2, <1>4, <1>6, <2>4
      <3> QED
        BY <3>1, <3>2 DEF Stands, Quiet
    <2>6. [time |-> n, uuid |-> n] \in started
      BY <1>2 DEF OnTime, n
    <2>7. n # None /\ first_run' # None /\ last_run' # None
      BY <1>2, <1>3, <2>4, SchedulerAssumption
    <2>8. CASE last_run = None
      <3>1. first_run' = n /\ last_run' = n
        BY <1>2, <2>1, <2>4, <2>8 DEF Covered
      <3>2. \A t \in Nat : n <= t /\ t <= n => \E a \in started : a.time = t
        BY <1>3, <2>6
      <3>3. \A t \in Nat : first_run' <= t /\ t <= last_run' /\ OnSchedule(t) =>
               \E a \in started' : a.time = t
        BY <1>2, <3>1, <3>2
      <3>4. first_run' <= last_run'
        BY <1>3, <3>1
      <3>5. Covered'
        BY <2>7, <3>3, <3>4 DEF Covered, OnSchedule
      <3> QED
        BY <2>5, <3>5
    <2>9. CASE last_run # None
      <3>1. first_run' = first_run /\ last_run' = n /\ first_run \in Nat /\ last_run \in Nat
            /\ first_run <= last_run
        BY <1>2, <2>1, <2>3, <2>4, <2>9 DEF Covered
      <3>2. ASSUME NEW t \in Nat, first_run <= t, t <= n, OnSchedule(t)
            PROVE  \E a \in started : a.time = t
        <4>1. t <= last_run \/ (last_run < t /\ t <= e) \/ (e < t /\ t <= n - 1) \/ t = n
          BY <1>3, <2>3, <3>1, <3>2
        <4>2. ~(last_run < t /\ t <= e) /\ ~(e < t /\ t <= n - 1)
          BY <2>2, <2>9, <3>2 DEF Quiet
        <4>3. CASE t <= last_run
          BY <2>1, <2>9, <3>2, <4>3 DEF Covered
        <4>4. CASE t = n
          BY <2>6, <4>4
        <4> QED
          BY <4>1, <4>2, <4>3, <4>4
      <3>3. first_run' <= last_run'
        BY <1>3, <2>2, <2>3, <2>9, <3>1
      <3>4. \A t \in Nat : first_run' <= t /\ t <= last_run' /\ OnSchedule(t) =>
               \E a \in started' : a.time = t
        BY <1>2, <3>1, <3>2
      <3>5. Covered'
        BY <2>7, <3>3, <3>4 DEF Covered, OnSchedule
      <3> QED
        BY <2>5, <3>5
    <2> QED
      BY <2>8, <2>9
  <1>10. SoleLoop'
    BY <1>5, <1>9, OneLoopMoves
  <1> QED
    BY <1>7, <1>8, <1>10

\* For every crontab, number of processes, look-ahead and number of failures: a
\* scheduled time is started under one UUID, nothing else is started, and a
\* single process that stores its times misses none in between
\* (DetachableLoop.startLoop, setLastScheduledTime).
THEOREM ScheduleOncePerInterval ==
    ASSUME NEW MaxFaults
    PROVE  SchedSpec(MaxFaults) => []OncePerInterval
  <1>1. SchedInit(MaxFaults) => SchedInv
    <2> SUFFICES ASSUME SchedInit(MaxFaults) PROVE SchedInv
      OBVIOUS
    <2>1. PICK active \in (SUBSET Loops) \ {{}} :
             loop = [p \in Loops |-> IF p \in active THEN Down ELSE [Down EXCEPT !.st = "absent"]]
      BY DEF SchedInit
    <2>2. ASSUME NEW p \in Loops
          PROVE  loop[p] \in Record /\ loop[p].st \in {"down", "absent"}
      BY <2>1 DEF Down, Record, LoopStates
    <2>3. SchedTypes
      BY <2>1, <2>2 DEF SchedInit, SchedTypes, Record
    <2>4. OnTime
      BY <2>2 DEF OnTime, SchedInit
    <2>5. Covered
      BY DEF Covered, SchedInit
    <2>6. \A p \in Loops : Stands(p)
      BY <2>2 DEF Stands
    <2> QED
      BY <2>3, <2>4, <2>5, <2>6 DEF SchedInv, SoleLoop
  <1>2. SchedInv /\ [SchedNext]_schedVars => SchedInv'
    <2> SUFFICES ASSUME SchedInv, [SchedNext]_schedVars PROVE SchedInv'
      OBVIOUS
    <2>1. CASE ClockTick \/ UNCHANGED schedVars
      <3>1. UNCHANGED <<mode, last_run, first_run, started, loop>> /\ clock' \in Nat
        BY <2>1 DEF ClockTick, schedVars, SchedInv, SchedTypes
      <3>2. SchedTypes'
        BY <3>1 DEF SchedInv, SchedTypes
      <3>3. OnTime'
        BY <3>1 DEF SchedInv, OnTime, OnSchedule
      <3>4. SoleLoop'
        BY <3>1 DEF SchedInv, SoleLoop, OnlyLoop, Stands, Covered, Quiet, OnSchedule
      <3> QED
        BY <3>2, <3>3, <3>4 DEF SchedInv
    <2>2. CASE \E p \in Loops : LoopStep(p) \/ LoopFails(p) \/ setStopLoopFlag(p) \/ CrashLoop(p)
      BY <2>2, BootKeeps, PlanKeeps, StartKeeps, RecordKeeps DEF LoopStep
    <2> QED
      BY <2>1, <2>2 DEF SchedNext
  <1>3. SchedInv => OncePerInterval
    <2> SUFFICES ASSUME SchedInv PROVE OncePerInterval
      OBVIOUS
    <2>1. ASSUME NEW a \in started, NEW b \in started, a.time = b.time PROVE a = b
      BY <2>1 DEF SchedInv, OnTime
    <2>2. \A a \in started : OnSchedule(a.time)
      BY DEF SchedInv, OnTime
    <2>3. ASSUME Alone, mode = "ExactlyOncePerInterval", last_run # None,
                 NEW t \in first_run..last_run, OnSchedule(t)
          PROVE  \E a \in started : a.time = t
      <3> DEFINE S == {p \in Loops : loop[p].st # "absent"}
      <3>1. IsFiniteSet(S)
        BY SchedulerAssumption, FS_Subset
      <3>2. PICK p : S = {p}
        BY <2>3, <3>1, FS_Singleton DEF Alone
      <3>3. p \in Loops /\ OnlyLoop(p)
        BY <2>3, <3>2 DEF OnlyLoop
      <3>4. Covered
        BY <3>3 DEF SchedInv, SoleLoop
      <3>5. first_run \in Nat /\ last_run \in Nat
        BY <2>3, <3>4 DEF Covered, SchedInv, SchedTypes
      <3>6. t \in Nat /\ first_run <= t /\ t <= last_run
        BY <3>5
      <3> QED
        BY <2>3, <3>4, <3>6 DEF Covered
    <2> QED
      BY <2>1, <2>2, <2>3 DEF OncePerInterval
  <1> QED
    BY <1>1, <1>2, <1>3, PTL DEF SchedSpec

=============================================================================
