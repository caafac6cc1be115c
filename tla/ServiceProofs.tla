--------------------------- MODULE ServiceProofs ---------------------------
(***************************************************************************)
(* What holds of a process and its write buffers, of processes that        *)
(* provision one database server, of the registrations a recovery looks    *)
(* functions up in, of the HTTP server and of the validation of arguments, *)
(* for any number of workflows, processes, functions and requests and for  *)
(* any argument.                                                           *)
(***************************************************************************)
EXTENDS ProcessLifecycle, Provisioning, Registration, HttpServer, DataValidation,
        FiniteSetTheorems, TLAPS

-----------------------------------------------------------------------------
(* ProcessLifecycle.  What a stage holds, in its buffer, in the statement    *)
(* being tried or in its table, only grows; and what waits to be written to  *)
(* workflow_inputs has its status in one of these places, or nowhere ever.   *)

LifeTypes ==
    /\ buffer \in [Stages -> SUBSET Jobs]
    /\ written \in [Stages -> SUBSET Jobs]
    /\ job \in [Jobs -> {"none", "accepted", "running", "succeeded", "failed"}]
    /\ flush.at \in Stages \cup {"idle"} /\ flush.local \in SUBSET Jobs
    /\ flush = [at |-> flush.at, local |-> flush.local, seen |-> flush.seen, total |-> flush.total]
    /\ flags \in [initialized : BOOLEAN, isFlushingBuffers : BOOLEAN, interval : BOOLEAN,
                  open : BOOLEAN, schedulerHeard : BOOLEAN]
    /\ unrecorded \in SUBSET Jobs

\* A flush runs under the flag, but for the last one of destroy.
FlushFlag ==
    flush.at # "idle" => flags.isFlushingBuffers \/ phase \in {"awaitFlush", "closeUser", "exited"}

Kept(g) == buffer[g] \cup InFlight(g) \cup written[g]

Unwritten == buffer["inputs"] \cup InFlight("inputs")

StatusBefore == Unwritten \subseteq Kept("status") \cup unrecorded

LifeInv == LifeTypes /\ FlushFlag /\ NothingDropped /\ StatusBefore /\ InputsFollowStatus

\* What a step that neither takes, writes nor gives back may do to the buffers.
LEMMA KeptWithoutFlush ==
    ASSUME UNCHANGED flush,
           \A s \in Stages : buffer[s] \subseteq buffer'[s] /\ written[s] \subseteq written'[s]
    PROVE  \A s \in Stages : Kept(s) \subseteq Kept(s)'
  BY DEF Kept, InFlight

\* A stage that takes its buffer holds what the buffer held, and the other
\* stages keep theirs; nothing was in the flush.
LEMMA TakingKeeps ==
    ASSUME NEW g \in Stages, NEW buf \in [Stages -> SUBSET Jobs], Taking(g, buf),
           UNCHANGED written,
           \A s \in Stages : buf[s] = buffer[s] \cup InFlight(s)
    PROVE  /\ \A s \in Stages : Kept(s) \subseteq Kept(s)'
           /\ buffer' \in [Stages -> SUBSET Jobs] /\ flush'.at = g
           /\ flush'.local \in SUBSET Jobs
           /\ flush' = [at |-> flush'.at, local |-> flush'.local, seen |-> flush'.seen,
                        total |-> flush'.total]
           /\ Unwritten' = Unwritten
  <1>1. flush' = [at |-> g, local |-> buf[g], seen |-> 0, total |-> Cardinality(buf[g])]
    BY DEF Taking
  <1>2. flush'.at = g /\ flush'.local = buf[g] /\ flush'.seen = 0
        /\ flush'.total = Cardinality(buf[g])
    BY <1>1
  <1>3. buffer' \in [Stages -> SUBSET Jobs] /\ buffer'[g] = {}
        /\ \A s \in Stages \ {g} : buffer'[s] = buf[s]
    BY DEF Taking
  <1>4. ASSUME NEW s \in Stages PROVE buffer'[s] \cup InFlight(s)' = buf[s]
    BY <1>2, <1>3 DEF InFlight
  <1>5. \A s \in Stages : Kept(s) \subseteq Kept(s)'
    BY <1>4 DEF Kept
  <1>6. Unwritten' = Unwritten
    BY <1>4 DEF Unwritten, Stages
  <1> QED
    BY <1>1, <1>2, <1>3, <1>5, <1>6

\* What was in the flush returns to its buffer.
LEMMA GiveBack ==
    ASSUME LifeTypes, flush.at # "idle"
    PROVE  /\ GiveBackTo(buffer) \in [Stages -> SUBSET Jobs]
           /\ \A s \in Stages : GiveBackTo(buffer)[s] = buffer[s] \cup InFlight(s)
  BY DEF LifeTypes, GiveBackTo, Buffered, InFlight

\* The step lemma: a step that keeps what the stages hold, and lets a workflow
\* end only when its entries are held, keeps NothingDropped.
LEMMA HeldStaysHeld ==
    ASSUME LifeTypes, NothingDropped, job' = job, \A s \in Stages : Kept(s) \subseteq Kept(s)'
    PROVE  NothingDropped'
  <1>1. Kept("status") \subseteq Kept("status")' /\ Kept("results") \subseteq Kept("results")'
        /\ Kept("inputs") \subseteq Kept("inputs")'
    BY DEF Stages
  <1> QED
    BY <1>1 DEF NothingDropped, Kept

\* The same for inputs whose status is to be written.
LEMMA StatusStaysBefore ==
    ASSUME StatusBefore, \A s \in Stages : Kept(s) \subseteq Kept(s)',
           Unwritten' \subseteq Unwritten, unrecorded \subseteq unrecorded'
    PROVE  StatusBefore'
  BY DEF StatusBefore, Stages

\* Starting, stopping and accepting: only phases, flags and callers change.
LEMMA PhaseKeeps ==
    ASSUME LifeInv,
           \/ Starting \/ onSigterm \/ DeafLoopFails
           \/ destroyRuntime \/ destroySystemDatabase \/ destroyExecutor
           \/ \E j \in Jobs : AcceptJob(j)
    PROVE  LifeInv'
  <1> USE DEF LifeInv
  <1>1. UNCHANGED <<buffer, written, flush, unrecorded, refused>>
    BY DEF Starting, loadClasses, initAndStart, StartFails, tellScheduler, onSigterm, DeafLoopFails, destroyRuntime,
           destroySystemDatabase, destroyExecutor, AcceptJob
  <1>2. /\ flags' \in [initialized : BOOLEAN, isFlushingBuffers : BOOLEAN, interval : BOOLEAN,
                       open : BOOLEAN, schedulerHeard : BOOLEAN]
        /\ flags'.isFlushingBuffers = flags.isFlushingBuffers
    <2>1. CASE initAndStart
      BY <2>1 DEF initAndStart, LifeTypes
    <2>2. CASE destroyRuntime
      BY <2>2 DEF destroyRuntime, LifeTypes
    <2>3. CASE \E h \in BOOLEAN : flags' = [flags EXCEPT !.schedulerHeard = h]
      BY <2>3 DEF LifeTypes
    <2>4. CASE UNCHANGED flags
      BY <2>4 DEF LifeTypes
    <2> QED
      BY <2>1, <2>2, <2>3, <2>4 DEF Starting, loadClasses, StartFails, tellScheduler, onSigterm, DeafLoopFails,
         destroySystemDatabase, destroyExecutor, AcceptJob
  <1>3. phase \in {"awaitFlush", "closeUser", "exited"} =>
           phase' \in {"awaitFlush", "closeUser", "exited"}
    BY DEF Starting, loadClasses, initAndStart, StartFails, tellScheduler, onSigterm, DeafLoopFails, destroyRuntime,
           destroySystemDatabase, destroyExecutor, AcceptJob, After
  <1>4. FlushFlag'
    BY <1>1, <1>2, <1>3 DEF FlushFlag
  <1>5. /\ job' \in [Jobs -> {"none", "accepted", "running", "succeeded", "failed"}]
        /\ \A j \in Jobs : job'[j] \in {"succeeded", "failed"} => job'[j] = job[j]
    <2>1. CASE UNCHANGED job
      BY <2>1 DEF LifeTypes
    <2>2. CASE \E j \in Jobs : AcceptJob(j)
      BY <2>2 DEF AcceptJob, LifeTypes
    <2> QED
      BY <2>1, <2>2 DEF Starting, loadClasses, initAndStart, StartFails, tellScheduler, onSigterm, DeafLoopFails,
         destroyRuntime, destroySystemDatabase, destroyExecutor
  <1>6. LifeTypes'
    BY <1>1, <1>2, <1>5 DEF LifeTypes
  <1>7. NothingDropped'
    BY <1>1, <1>5 DEF NothingDropped, InFlight
  <1>8. StatusBefore' /\ InputsFollowStatus'
    BY <1>1 DEF StatusBefore, Unwritten, Kept, InFlight, InputsFollowStatus
  <1> QED
    BY <1>4, <1>6, <1>7, <1>8

\* A workflow starts, or another process records its results.
LEMMA JobStartKeeps ==
    ASSUME LifeInv, NEW j \in Jobs, StartJob(j) \/ OtherRecords(j)
    PROVE  LifeInv'
  <1> USE DEF LifeInv
  <1>1. UNCHANGED <<phase, buffer, flush, flags, unrecorded, refused>>
    BY DEF StartJob, OtherRecords
  <1>2. written' \in [Stages -> SUBSET Jobs] /\ \A s \in Stages : written[s] \subseteq written'[s]
    BY DEF StartJob, OtherRecords, LifeTypes, Stages
  <1>3. /\ job' \in [Jobs -> {"none", "accepted", "running", "succeeded", "failed"}]
        /\ \A k \in Jobs : job'[k] \in {"succeeded", "failed"} => job'[k] = job[k]
    BY DEF StartJob, OtherRecords, LifeTypes
  <1>4. LifeTypes'
    BY <1>1, <1>2, <1>3 DEF LifeTypes
  <1>5. \A s \in Stages : Kept(s) \subseteq Kept(s)'
    BY <1>1, <1>2, KeptWithoutFlush
  <1>6. NothingDropped'
    BY <1>1, <1>2, <1>3 DEF NothingDropped, InFlight, Stages
  <1>7. Unwritten' = Unwritten
    BY <1>1 DEF Unwritten, InFlight
  <1>8. StatusBefore' /\ InputsFollowStatus' /\ FlushFlag'
    BY <1>1, <1>5, <1>7, StatusStaysBefore DEF InputsFollowStatus, FlushFlag
  <1> QED
    BY <1>4, <1>6, <1>8

\* A workflow returns or throws.
LEMMA JobEndKeeps ==
    ASSUME LifeInv, NEW j \in Jobs, FinishJob(j) \/ FailJob(j)
    PROVE  LifeInv'
  <1> USE DEF LifeInv
  <1>1. UNCHANGED <<phase, flush, flags, refused>>
    BY DEF FinishJob, FailJob
  <1>2. /\ buffer' \in [Stages -> SUBSET Jobs] /\ written' \in [Stages -> SUBSET Jobs]
        /\ buffer'["inputs"] = buffer["inputs"] \cup ({j} \cap SingleTxn)
        /\ \A s \in Stages : buffer[s] \subseteq buffer'[s] /\ written[s] \subseteq written'[s]
        /\ unrecorded' \in SUBSET Jobs /\ unrecorded \subseteq unrecorded'
        /\ j \in buffer'["status"] \cup written'["status"] \cup unrecorded'
    <2>1. CASE FinishJob(j)
      <3>1. buffer["status"] \in SUBSET Jobs /\ buffer["inputs"] \in SUBSET Jobs
            /\ buffer["results"] \in SUBSET Jobs
        BY DEF LifeTypes, Stages
      <3>2. buffer' = [status  |-> buffer["status"] \cup {j},
                       inputs  |-> buffer["inputs"] \cup ({j} \cap SingleTxn),
                       results |-> buffer["results"] \cup ({j} \cap Reads)]
        BY <2>1 DEF FinishJob
      <3>3. buffer' \in [status : SUBSET Jobs, inputs : SUBSET Jobs, results : SUBSET Jobs]
        BY <3>1, <3>2
      <3>4. ASSUME NEW f \in [status : SUBSET Jobs, inputs : SUBSET Jobs, results : SUBSET Jobs]
            PROVE  f \in [Stages -> SUBSET Jobs]
        BY DEF Stages
      <3>5. buffer' \in [Stages -> SUBSET Jobs]
        BY <3>3, <3>4
      <3> QED
        BY <2>1, <3>5 DEF FinishJob, LifeTypes, Stages
    <2>2. CASE FailJob(j)
      <3>1. /\ buffer' \in [Stages -> SUBSET Jobs]
            /\ buffer'["inputs"] = buffer["inputs"] \cup ({j} \cap SingleTxn)
            /\ \A s \in Stages : buffer[s] \subseteq buffer'[s]
        BY <2>2 DEF FailJob, Buffered, LifeTypes, Stages
      <3>2. CASE written' = [written EXCEPT !.status = @ \cup {j}] /\ UNCHANGED unrecorded
        <4>1. written' \in [Stages -> SUBSET Jobs] /\ j \in written'["status"]
              /\ \A s \in Stages : written[s] \subseteq written'[s]
          BY <3>2 DEF LifeTypes, Stages
        <4>2. unrecorded' \in SUBSET Jobs /\ unrecorded \subseteq unrecorded'
          BY <3>2 DEF LifeTypes
        <4>3. j \in buffer'["status"] \cup written'["status"] \cup unrecorded'
          BY <4>1
        <4> QED
          BY <3>1, <4>1, <4>2, <4>3
      <3>3. CASE unrecorded' = unrecorded \cup {j} /\ UNCHANGED written
        <4>1. unrecorded' \in SUBSET Jobs /\ unrecorded \subseteq unrecorded'
              /\ written' \in [Stages -> SUBSET Jobs]
              /\ \A s \in Stages : written[s] \subseteq written'[s]
          BY <3>3 DEF LifeTypes
        <4>2. j \in buffer'["status"] \cup written'["status"] \cup unrecorded'
          BY <3>3
        <4> QED
          BY <3>1, <4>1, <4>2
      <3> QED
        BY <2>2, <3>2, <3>3 DEF FailJob
    <2> QED
      BY <2>1, <2>2
  <1>3. /\ job' \in [Jobs -> {"none", "accepted", "running", "succeeded", "failed"}]
        /\ \A k \in Jobs \ {j} : job'[k] = job[k]
        /\ job'[j] = "succeeded" =>
             j \in buffer'["status"] /\ (j \in Reads => j \in buffer'["results"])
    BY DEF FinishJob, FailJob, LifeTypes
  <1>4. LifeTypes'
    BY <1>1, <1>2, <1>3 DEF LifeTypes
  <1>5. \A s \in Stages : Kept(s) \subseteq Kept(s)'
    BY <1>1, <1>2, KeptWithoutFlush
  <1>6. NothingDropped'
    <2>1. ASSUME NEW k \in Jobs
          PROVE  /\ job'[k] = "succeeded" => k \in Kept("status")'
                 /\ job'[k] = "succeeded" /\ k \in Reads => k \in Kept("results")'
                 /\ job'[k] \in {"succeeded", "failed"} /\ k \in SingleTxn => k \in Kept("inputs")'
      <3>1. CASE k = j
        BY <1>2, <1>3, <3>1 DEF Kept
      <3>2. CASE k # j
        <4>1. /\ job[k] = "succeeded" => k \in Kept("status")
              /\ job[k] = "succeeded" /\ k \in Reads => k \in Kept("results")
              /\ job[k] \in {"succeeded", "failed"} /\ k \in SingleTxn => k \in Kept("inputs")
          BY DEF NothingDropped, Kept
        <4> QED
          BY <1>3, <1>5, <3>2, <4>1 DEF Stages
      <3> QED
        BY <3>1, <3>2
    <2> QED
      BY <2>1 DEF NothingDropped, Kept
  <1>7. StatusBefore'
    <2>1. Unwritten' = Unwritten \cup ({j} \cap SingleTxn)
      BY <1>1, <1>2 DEF Unwritten, InFlight
    <2>2. Kept("status") \subseteq Kept("status")'
      BY <1>5 DEF Stages
    <2>3. j \in Kept("status")' \cup unrecorded'
      BY <1>2 DEF Kept
    <2> QED
      BY <1>2, <2>1, <2>2, <2>3 DEF StatusBefore
  <1>8. InputsFollowStatus' /\ FlushFlag'
    BY <1>1, <1>2 DEF InputsFollowStatus, FlushFlag
  <1> QED
    BY <1>4, <1>6, <1>7, <1>8

\* The flush worker begins, or destroy flushes once more.
LEMMA FlushBeginKeeps ==
    ASSUME LifeInv, FlushTick \/ LastFlush
    PROVE  LifeInv'
  <1> USE DEF LifeInv
  <1>1. UNCHANGED <<job, written, unrecorded, refused>>
    BY DEF FlushTick, LastFlush
  <1>2. flags' \in [initialized : BOOLEAN, isFlushingBuffers : BOOLEAN, interval : BOOLEAN,
                    open : BOOLEAN, schedulerHeard : BOOLEAN]
    BY DEF FlushTick, LastFlush, LifeTypes
  <1>3. FlushFlag'
    <2>1. CASE FlushTick
      BY <2>1 DEF FlushTick, FlushFlag, LifeTypes
    <2>2. CASE LastFlush
      BY <2>2 DEF LastFlush, FlushFlag
    <2> QED
      BY <2>1, <2>2
  <1>4. CASE UNCHANGED <<buffer, flush>>
    <2>1. LifeTypes'
      BY <1>1, <1>2, <1>4 DEF LifeTypes
    <2>2. NothingDropped' /\ StatusBefore' /\ InputsFollowStatus'
      BY <1>1, <1>4 DEF NothingDropped, StatusBefore, Unwritten, Kept, InFlight, InputsFollowStatus
    <2> QED
      BY <1>3, <2>1, <2>2
  <1>5. CASE Taking("results", buffer) /\ flush.at = "idle"
    <2>1. buffer \in [Stages -> SUBSET Jobs] /\ "results" \in Stages
          /\ \A s \in Stages : buffer[s] = buffer[s] \cup InFlight(s)
      BY <1>5 DEF LifeTypes, InFlight, Stages
    <2>2. /\ \A s \in Stages : Kept(s) \subseteq Kept(s)'
          /\ buffer' \in [Stages -> SUBSET Jobs] /\ flush'.at = "results"
          /\ flush'.local \in SUBSET Jobs
          /\ flush' = [at |-> flush'.at, local |-> flush'.local, seen |-> flush'.seen,
                       total |-> flush'.total]
          /\ Unwritten' = Unwritten
      BY <1>1, <1>5, <2>1, TakingKeeps
    <2>3. LifeTypes'
      BY <1>1, <1>2, <2>1, <2>2 DEF LifeTypes
    <2>4. NothingDropped' /\ StatusBefore'
      BY <1>1, <2>2, HeldStaysHeld, StatusStaysBefore
    <2>5. InputsFollowStatus'
      BY <1>1 DEF InputsFollowStatus
    <2> QED
      BY <1>3, <2>3, <2>4, <2>5
  <1>6. flush.at = "idle" \/ UNCHANGED <<buffer, flush>>
    BY DEF FlushTick, LastFlush, FlushFlag
  <1> QED
    BY <1>4, <1>5, <1>6 DEF FlushTick, LastFlush

\* A statement writes a batch.
LEMMA FlushOkKeeps ==
    ASSUME LifeInv, FlushOk
    PROVE  LifeInv'
  <1> USE DEF LifeInv
  <1>1. UNCHANGED <<phase, job, buffer, flags, unrecorded, refused>>
        /\ flush.at \in Stages
    BY DEF FlushOk, LifeTypes
  <1>2. PICK e \in SUBSET flush.local :
           /\ written' = [written EXCEPT ![flush.at] = @ \cup Passing(e)]
           /\ flush' = [flush EXCEPT !.local = @ \ Passing(e), !.seen = @ + Cardinality(e)]
    BY DEF FlushOk, BatchesOf
  <1> DEFINE b == Passing(e)
  <1>3. b \subseteq flush.local
    BY DEF Passing
  <1> HIDE DEF b
  <1>4. written' \in [Stages -> SUBSET Jobs] /\ written'[flush.at] = written[flush.at] \cup b
        /\ \A s \in Stages \ {flush.at} : written'[s] = written[s]
    BY <1>1, <1>2, <1>3 DEF LifeTypes, b
  <1>5. /\ flush'.at = flush.at /\ flush'.local = flush.local \ b
        /\ flush' = [at |-> flush'.at, local |-> flush'.local, seen |-> flush'.seen,
                     total |-> flush'.total]
    <2>1. flush = [at |-> flush.at, local |-> flush.local, seen |-> flush.seen, total |-> flush.total]
      BY DEF LifeTypes
    <2>2. flush' = [at |-> flush.at, local |-> flush.local \ b,
                    seen |-> flush.seen + Cardinality(e), total |-> flush.total]
      BY <1>2, <2>1 DEF b
    <2> QED
      BY <2>2
  <1>6. LifeTypes'
    BY <1>1, <1>4, <1>5 DEF LifeTypes
  <1>7. \A s \in Stages : Kept(s) \subseteq Kept(s)'
    BY <1>1, <1>4, <1>5 DEF Kept, InFlight
  <1>8. Unwritten' \subseteq Unwritten
    BY <1>1, <1>5 DEF Unwritten, InFlight
  <1>9. NothingDropped' /\ StatusBefore'
    BY <1>1, <1>7, <1>8, HeldStaysHeld, StatusStaysBefore
  <1>10. FlushFlag' /\ InputsFollowStatus'
    BY <1>1, <1>5 DEF FlushFlag, InputsFollowStatus
  <1> QED
    BY <1>6, <1>9, <1>10

\* A stage ends: what was not written goes back, and the next stage begins.
LEMMA StageEndKeeps ==
    ASSUME LifeInv, flush.at # "idle", StageEnds(GiveBackTo(buffer)),
           UNCHANGED <<phase, job, written, unrecorded>>, refused' \subseteq unrecorded
    PROVE  LifeInv'
  <1> USE DEF LifeInv
  <1> DEFINE buf == GiveBackTo(buffer)
  <1>1. buf \in [Stages -> SUBSET Jobs] /\ \A s \in Stages : buf[s] = buffer[s] \cup InFlight(s)
    BY GiveBack
  <1>2. InputsFollowStatus'
    BY DEF InputsFollowStatus
  <1> HIDE DEF buf
  <1>3. CASE flush.at = "inputs"
    <2>1. flush' = NoFlush /\ buffer' = buf /\ flags' = [flags EXCEPT !.isFlushingBuffers = FALSE]
      BY <1>3 DEF StageEnds, buf
    <2>2. flush'.at = "idle" /\ flush'.local = {}
          /\ flush' = [at |-> flush'.at, local |-> flush'.local, seen |-> flush'.seen,
                       total |-> flush'.total]
      BY <2>1 DEF NoFlush
    <2>3. LifeTypes'
      BY <1>1, <2>1, <2>2 DEF LifeTypes
    <2>4. \A s \in Stages : Kept(s) \subseteq Kept(s)'
      BY <1>1, <2>1 DEF Kept
    <2>5. Unwritten' \subseteq Unwritten
      BY <1>1, <2>1, <2>2 DEF Unwritten, InFlight, Stages
    <2>6. NothingDropped' /\ StatusBefore'
      BY <2>4, <2>5, HeldStaysHeld, StatusStaysBefore
    <2>7. FlushFlag'
      BY <2>2 DEF FlushFlag
    <2> QED
      BY <1>2, <2>3, <2>6, <2>7
  <1>4. CASE flush.at # "inputs"
    <2>1. NextStage[flush.at] \in Stages
      BY <1>4 DEF LifeTypes, Stages, NextStage
    <2>2. Taking(NextStage[flush.at], buf) /\ UNCHANGED flags
      BY <1>4 DEF StageEnds, buf
    <2>3. /\ \A s \in Stages : Kept(s) \subseteq Kept(s)'
          /\ buffer' \in [Stages -> SUBSET Jobs] /\ flush'.at \in Stages
          /\ flush'.local \in SUBSET Jobs
          /\ flush' = [at |-> flush'.at, local |-> flush'.local, seen |-> flush'.seen,
                       total |-> flush'.total]
          /\ Unwritten' = Unwritten
      BY <1>1, <2>1, <2>2, TakingKeeps
    <2>4. LifeTypes'
      BY <2>2, <2>3 DEF LifeTypes
    <2>5. NothingDropped' /\ StatusBefore'
      BY <2>3, HeldStaysHeld, StatusStaysBefore
    <2>6. FlushFlag'
      BY <2>2 DEF FlushFlag
    <2> QED
      BY <1>2, <2>4, <2>5, <2>6
  <1> QED
    BY <1>3, <1>4

\* What the foreign key refuses has its status nowhere: the status of the rest
\* of the batch is neither waiting, which Passing excludes, nor in flight.
LEMMA RefusedIsUnrecorded ==
    ASSUME LifeInv, flush.at = "inputs", NEW e \in SUBSET flush.local
    PROVE  Passing(e) \ written["status"] \subseteq unrecorded
  <1>1. Passing(e) = e \ buffer["status"]
    BY DEF Passing
  <1>2. e \subseteq Unwritten
    BY DEF Unwritten, InFlight
  <1>3. InFlight("status") = {}
    BY DEF InFlight
  <1> QED
    BY <1>1, <1>2, <1>3 DEF LifeInv, StatusBefore, Kept

LEMMA LifeStep ==
    ASSUME LifeInv, [LifeNext]_lifeVars
    PROVE  LifeInv'
  <1>1. CASE FlushFails
    <2>1. refused' \subseteq unrecorded
      <3>1. CASE UNCHANGED refused
        BY <3>1 DEF LifeInv, InputsFollowStatus
      <3>2. CASE ~UNCHANGED refused
        <4>1. PICK e \in SUBSET flush.local :
                 refused' = IF flush.at = "inputs" THEN refused \cup (Passing(e) \ written.status)
                            ELSE refused
          BY <1>1, <3>2 DEF FlushFails, BatchesOf
        <4> QED
          BY <3>2, <4>1, RefusedIsUnrecorded DEF LifeInv, InputsFollowStatus
      <3> QED
        BY <3>1, <3>2
    <2> QED
      BY <1>1, <2>1, StageEndKeeps DEF FlushFails
  <1>2. CASE FlushStageDone
    BY <1>2, StageEndKeeps DEF FlushStageDone, LifeInv, InputsFollowStatus
  <1>3. CASE UNCHANGED lifeVars
    BY <1>3 DEF lifeVars, LifeInv, LifeTypes, FlushFlag, NothingDropped, StatusBefore, Unwritten,
                Kept, InFlight, InputsFollowStatus
  <1> QED
    BY <1>1, <1>2, <1>3, PhaseKeeps, JobStartKeeps, JobEndKeeps, FlushBeginKeeps, FlushOkKeeps
       DEF LifeNext, Stopping, Flushing, JobEnds

LEMMA LifeInvariant == LifeSpec => []LifeInv
  <1>1. LifeInit => LifeInv
    <2> SUFFICES ASSUME LifeInit PROVE LifeInv
      OBVIOUS
    <2>1. flush.at = "idle" /\ flush.local = {}
          /\ flush = [at |-> flush.at, local |-> flush.local, seen |-> flush.seen, total |-> flush.total]
      BY DEF LifeInit, NoFlush
    <2>2. LifeTypes
      BY <2>1 DEF LifeInit, LifeTypes
    <2>3. FlushFlag /\ NothingDropped /\ InputsFollowStatus
      BY <2>1 DEF LifeInit, FlushFlag, NothingDropped, InputsFollowStatus
    <2>4. StatusBefore
      BY <2>1 DEF LifeInit, StatusBefore, Unwritten, InFlight, Stages
    <2> QED
      BY <2>2, <2>3, <2>4 DEF LifeInv
  <1> QED
    BY <1>1, LifeStep, PTL DEF LifeSpec

\* For every number of workflows, batch size and number of failed statements:
\* what a finished workflow buffered is in its buffer, in the statement being
\* tried or in its table (flushWorkflowResultBuffer, flushWorkflowStatusBuffer,
\* flushWorkflowInputsBuffer).
THEOREM BuffersDropNothing == LifeSpec => []NothingDropped
  BY LifeInvariant, PTL DEF LifeInv

\* The foreign key of workflow_inputs refuses only inputs of workflows whose
\* error could not be recorded (flushWorkflowInputsBuffer).
THEOREM StatusPrecedesInputs == LifeSpec => []InputsFollowStatus
  BY LifeInvariant, PTL DEF LifeInv

-----------------------------------------------------------------------------
(* Provisioning.  Objects are never dropped, so what a process found or made *)
(* on its way is still there when it goes on.                                *)

ProvSteps == Objs \cup {"commands", "migrate", "migrating", "check", "ready", "failed", "aborted"}

ProvTypes ==
    /\ step \in [Starters -> ProvSteps] /\ saw \in [Starters -> {"unknown", "there", "missing"}]
    /\ migrated \in Nat
    /\ \A p \in Starters : step[p] \in {"database", "commands"} => p \in Migrators

\* What a process at a step has behind it.
Behind == [commands  |-> {"database"},
           table     |-> {"database", "schema"},
           index     |-> {"database", "schema", "table"},
           sysdb     |-> {"database", "schema", "table", "index"},
           migrate   |-> Objs, migrating |-> Objs, check |-> Objs, ready |-> Objs]

WayMade(p) ==
    /\ step[p] \in DOMAIN Behind => Behind[step[p]] \subseteq exist
    /\ step[p] = "schema" /\ (p \in Migrators \/ saw[p] # "unknown") => "database" \in exist
    /\ step[p] \in Objs /\ saw[p] = "there" => step[p] \in exist
    /\ step[p] = "commands" => saw[p] = "unknown"
    /\ step[p] = "ready" => migrated >= 1

ProvInv == ProvTypes /\ \A p \in Starters : WayMade(p)

\* A process that moves disturbs no other, since objects and migrations only
\* come to be.
LEMMA OthersKeepTheirWay ==
    ASSUME ProvInv, NEW p \in Starters, NEW st, NEW sn,
           step' = [step EXCEPT ![p] = st], saw' = [saw EXCEPT ![p] = sn],
           exist \subseteq exist', migrated' \in Nat, migrated <= migrated'
    PROVE  \A q \in Starters \ {p} : WayMade(q)'
  <1> SUFFICES ASSUME NEW q \in Starters \ {p} PROVE WayMade(q)'
    OBVIOUS
  <1>1. step'[q] = step[q] /\ saw'[q] = saw[q]
    BY DEF ProvInv, ProvTypes
  <1>2. WayMade(q) /\ migrated \in Nat
    BY DEF ProvInv, ProvTypes
  <1>3. migrated >= 1 => migrated' >= 1
    BY <1>2
  <1> QED
    BY <1>1, <1>2, <1>3 DEF WayMade

\* What a step of a process has to show of where it takes the process.
GoesTo(p, st, sn) ==
    /\ st \in ProvSteps /\ sn \in {"unknown", "there", "missing"}
    /\ step' = [step EXCEPT ![p] = st] /\ saw' = [saw EXCEPT ![p] = sn]
    /\ exist \subseteq exist' /\ migrated' \in Nat /\ migrated <= migrated'
    /\ st \in {"database", "commands"} => p \in Migrators
    /\ st \in DOMAIN Behind => Behind[st] \subseteq exist'
    /\ st = "schema" /\ (p \in Migrators \/ sn # "unknown") => "database" \in exist'
    /\ st \in Objs /\ sn = "there" => st \in exist'
    /\ st = "commands" => sn = "unknown"
    /\ st = "ready" => migrated' >= 1

LEMMA ProvMove ==
    ASSUME ProvInv, NEW p \in Starters, NEW st, NEW sn, GoesTo(p, st, sn)
    PROVE  ProvInv'
  <1>1. step'[p] = st /\ saw'[p] = sn
    BY DEF GoesTo, ProvInv, ProvTypes
  <1>2. WayMade(p)'
    BY <1>1 DEF GoesTo, WayMade
  <1>3. ProvTypes'
    BY <1>1 DEF GoesTo, ProvInv, ProvTypes
  <1>4. \A q \in Starters \ {p} : WayMade(q)'
    BY OthersKeepTheirWay DEF GoesTo
  <1> QED
    BY <1>2, <1>3, <1>4 DEF ProvInv

\* Looking for an object.
LEMMA LookKeeps ==
    ASSUME ProvInv, NEW p \in Starters, Look(p) \/ LookFails(p)
    PROVE  ProvInv'
  <1>1. step[p] \in ProvSteps /\ saw[p] \in {"unknown", "there", "missing"} /\ WayMade(p)
        /\ migrated \in Nat /\ (step[p] \in {"database", "commands"} => p \in Migrators)
    BY DEF ProvInv, ProvTypes
  <1>2. CASE Look(p)
    <2> DEFINE sn == IF step[p] \in exist THEN "there" ELSE "missing"
    <2>1. step' = [step EXCEPT ![p] = step[p]] /\ saw' = [saw EXCEPT ![p] = sn]
      BY <1>2 DEF Look, ProvInv, ProvTypes
    <2>2. UNCHANGED <<exist, migrated>> /\ step[p] \in Objs
      BY <1>2 DEF Look
    <2>3. step[p] = "schema" => "database" \in exist
      BY <1>1, <1>2 DEF Look, WayMade
    <2>4. sn \in {"unknown", "there", "missing"} /\ (sn = "there" => step[p] \in exist)
      OBVIOUS
    <2>5. step[p] \notin {"ready", "commands"}
      BY <2>2 DEF Objs, FollowedBy
    <2> HIDE DEF sn
    <2>6. GoesTo(p, step[p], sn)
      BY <1>1, <2>1, <2>2, <2>3, <2>4, <2>5 DEF WayMade, GoesTo
    <2> QED
      BY <2>6, ProvMove
  <1>3. CASE LookFails(p)
    <2>1. step' = [step EXCEPT ![p] = "failed"] /\ saw' = [saw EXCEPT ![p] = saw[p]]
          /\ UNCHANGED <<exist, migrated>>
      BY <1>3 DEF LookFails, ProvInv, ProvTypes
    <2>2. "failed" \in ProvSteps /\ "failed" \notin Objs /\ "failed" \notin DOMAIN Behind
      BY DEF ProvSteps, Objs, FollowedBy, Behind
    <2>3. GoesTo(p, "failed", saw[p])
      BY <1>1, <2>1, <2>2 DEF GoesTo
    <2> QED
      BY <2>3, ProvMove
  <1> QED
    BY <1>2, <1>3

\* The object is there, or is created: the process goes on to the next one.
LEMMA ForwardKeeps ==
    ASSUME ProvInv, NEW p \in Starters, step[p] \in Objs, saw[p] # "unknown", Forward(p),
           exist' = exist \cup {step[p]}, migrated' = migrated
    PROVE  ProvInv'
  <1> DEFINE st == FollowedBy[step[p]]
  <1>1. step[p] \in ProvSteps /\ WayMade(p) /\ migrated \in Nat
        /\ (step[p] \in {"database", "commands"} => p \in Migrators)
    BY DEF ProvInv, ProvTypes
  <1>2. step' = [step EXCEPT ![p] = st] /\ saw' = [saw EXCEPT ![p] = "unknown"]
    BY DEF Forward
  <1>3. step[p] \in {"database", "schema", "table", "index", "sysdb"}
    BY DEF Objs, FollowedBy
  <1>4. Objs = {"database", "schema", "table", "index", "sysdb"}
    BY DEF Objs, FollowedBy
  <1>5. st \in ProvSteps /\ (st \in {"database", "commands"} => p \in Migrators)
        /\ st \notin {"schema", "ready"}
    BY <1>1, <1>3, <1>4 DEF FollowedBy, ProvSteps
  <1>6. st \in DOMAIN Behind /\ Behind[st] \subseteq exist'
    <2>1. CASE step[p] = "database"
      BY <2>1 DEF FollowedBy, Behind
    <2>2. CASE step[p] = "schema"
      BY <1>1, <2>2 DEF FollowedBy, Behind, WayMade
    <2>3. CASE step[p] = "table"
      BY <1>1, <2>3 DEF FollowedBy, Behind, WayMade
    <2>4. CASE step[p] = "index"
      BY <1>1, <2>4 DEF FollowedBy, Behind, WayMade
    <2>5. CASE step[p] = "sysdb"
      BY <1>1, <1>4, <2>5 DEF FollowedBy, Behind, WayMade
    <2> QED
      BY <1>3, <2>1, <2>2, <2>3, <2>4, <2>5
  <1> HIDE DEF st
  <1>7. GoesTo(p, st, "unknown")
    BY <1>1, <1>2, <1>5, <1>6 DEF GoesTo
  <1> QED
    BY <1>7, ProvMove

LEMMA ProvKeeps ==
    ASSUME ProvInv, NEW p \in Starters, ProvStep(p)
    PROVE  ProvInv'
  <1>1. step[p] \in ProvSteps /\ saw[p] \in {"unknown", "there", "missing"} /\ WayMade(p)
        /\ migrated \in Nat
    BY DEF ProvInv, ProvTypes
  <1>2. Objs = {"database", "schema", "table", "index", "sysdb"}
    BY DEF Objs, FollowedBy
  <1>3. DOMAIN Behind = {"commands", "table", "index", "sysdb", "migrate", "migrating", "check",
                         "ready"}
    BY DEF Behind
  <1>4. ASSUME NEW st \in {"failed", "aborted"}, step' = [step EXCEPT ![p] = st],
               UNCHANGED <<saw, exist, migrated>>
        PROVE  ProvInv'
    <2>1. saw' = [saw EXCEPT ![p] = saw[p]] /\ st \in ProvSteps
      BY <1>4 DEF ProvInv, ProvTypes, ProvSteps
    <2>2. exist \subseteq exist' /\ migrated' \in Nat /\ migrated <= migrated'
      BY <1>1, <1>4
    <2>3. st \notin Objs /\ st \notin DOMAIN Behind /\ st \notin {"schema", "ready", "database", "commands"}
      BY <1>2, <1>3
    <2>4. GoesTo(p, st, saw[p])
      BY <1>1, <1>4, <2>1, <2>2, <2>3 DEF GoesTo
    <2> QED
      BY <2>4, ProvMove
  <1>5. CASE Skip(p)
    BY <1>5, ForwardKeeps, <1>1 DEF Skip, WayMade
  <1>6. CASE Create(p)
    BY <1>4, <1>6, ForwardKeeps DEF Create
  <1>7. CASE RunCommands(p)
    <2>1. CASE step' = [step EXCEPT ![p] = "schema"]
      <3>1. saw' = [saw EXCEPT ![p] = saw[p]] /\ "schema" \in ProvSteps /\ UNCHANGED <<exist, migrated>>
        BY <1>2, <1>7 DEF ProvInv, ProvTypes, ProvSteps, RunCommands
      <3>2. "database" \in exist
        BY <1>1, <1>7 DEF RunCommands, WayMade, Behind
      <3>3. saw[p] = "unknown"
        BY <1>1, <1>7 DEF RunCommands, WayMade
      <3>4. exist \subseteq exist' /\ migrated' \in Nat /\ migrated <= migrated'
        BY <1>1, <3>1
      <3>5. GoesTo(p, "schema", saw[p])
        BY <1>1, <1>3, <2>1, <3>1, <3>2, <3>3, <3>4 DEF GoesTo
      <3> QED
        BY <3>5, ProvMove
    <2> QED
      BY <1>4, <1>7, <2>1 DEF RunCommands
  <1>8. ASSUME NEW st \in {"migrating", "check", "ready"}, step' = [step EXCEPT ![p] = st],
               step[p] \in {"migrate", "migrating", "check"}, st = "ready" => migrated >= 1,
               UNCHANGED <<saw, exist, migrated>>
        PROVE  ProvInv'
    <2>1. saw' = [saw EXCEPT ![p] = saw[p]] /\ st \in ProvSteps
      BY <1>8 DEF ProvInv, ProvTypes, ProvSteps
    <2>2. Behind[step[p]] = Objs /\ Behind[st] = Objs
      BY <1>8 DEF Behind
    <2>3. Behind[st] \subseteq exist
      BY <1>1, <1>3, <1>8, <2>2 DEF WayMade
    <2>4. exist \subseteq exist' /\ migrated' \in Nat /\ migrated <= migrated'
      BY <1>1, <1>8
    <2>5. st \notin Objs /\ st \notin {"schema", "database", "commands"}
      BY <1>2, <1>8
    <2>6. GoesTo(p, st, saw[p])
      BY <1>1, <1>8, <2>1, <2>3, <2>4, <2>5 DEF GoesTo
    <2> QED
      BY <2>6, ProvMove
  <1>9. CASE TakeLock(p)
    BY <1>8, <1>9 DEF TakeLock
  <1>10. CASE MigrateOne(p)
    <2>1. step' = [step EXCEPT ![p] = step[p]] /\ saw' = [saw EXCEPT ![p] = saw[p]]
          /\ migrated' = migrated + 1 /\ exist' = exist /\ step[p] = "migrating"
      BY <1>10 DEF MigrateOne, ProvInv, ProvTypes
    <2>2. GoesTo(p, step[p], saw[p])
      BY <1>1, <1>2, <2>1 DEF WayMade, GoesTo
    <2> QED
      BY <2>2, ProvMove
  <1>11. CASE Unlock(p)
    <2>1. migrated >= 1
      BY <1>11, ProvisioningAssumption DEF Unlock
    <2> QED
      BY <1>8, <1>11, <2>1 DEF Unlock
  <1>12. CASE CheckTable(p)
    BY <1>4, <1>8, <1>12 DEF CheckTable, tableExists
  <1> QED
    BY <1>5, <1>6, <1>7, <1>9, <1>10, <1>11, <1>12, LookKeeps DEF ProvStep

\* For every number of processes and migrations, whichever of them migrate and
\* however their looks and statements interleave: a process that goes on has
\* the tables it writes to (createDBOSTables, init of the system database).
THEOREM ReadyIsUsable == ProvSpec => []ReadyMeansUsable
  <1>1. ProvInit => ProvInv
    <2> SUFFICES ASSUME ProvInit PROVE ProvInv
      OBVIOUS
    <2>1. Objs = {"database", "schema", "table", "index", "sysdb"}
      BY DEF Objs, FollowedBy
    <2>2. \A p \in Starters : /\ step[p] = (IF p \in Migrators THEN "database" ELSE "schema")
                              /\ saw[p] = "unknown"
      BY DEF ProvInit, FirstStep
    <2>3. ProvTypes
      BY <2>1, <2>2 DEF ProvInit, ProvTypes, ProvSteps, FirstStep
    <2>4. \A p \in Starters : WayMade(p)
      BY <2>2 DEF WayMade, Behind
    <2> QED
      BY <2>3, <2>4 DEF ProvInv
  <1>2. ProvInv /\ [ProvNext]_provVars => ProvInv'
    <2> SUFFICES ASSUME ProvInv, [ProvNext]_provVars PROVE ProvInv'
      OBVIOUS
    <2>1. CASE UNCHANGED provVars
      BY <2>1 DEF provVars, ProvInv, ProvTypes, WayMade
    <2> QED
      BY <2>1, ProvKeeps DEF ProvNext
  <1>3. ProvInv => ReadyMeansUsable
    BY DEF ProvInv, WayMade, ReadyMeansUsable, Behind
  <1> QED
    BY <1>1, <1>2, <1>3, PTL DEF ProvSpec

-----------------------------------------------------------------------------
(* Registration.  A status names the function that was called, without its   *)
(* class if it is an old one, and the maps of a started executor hold the    *)
(* functions of the deployed application and nothing else.                   *)

CallRecord(r) == r = [class |-> r.class, name |-> r.name, kind |-> r.kind, instance |-> r.instance]

Deployed ==
    /\ code \subseteq [class : ClassNames, name : FunctionNames, kind : OpKind]
    /\ instances \subseteq [class : ClassNames, name : InstanceNames]
    /\ stage \in {"registered", "recovering", "up"} => maps = code

StatusOfCall ==
    IF pending = Nothing THEN recovered = Nothing
    ELSE /\ called.class \in ClassNames /\ CallRecord(called)
         /\ \/ pending = called
            \/ pending = [called EXCEPT !.class = ""] /\ called.instance = ""

RegInv == Deployed /\ StatusOfCall /\ RecoversTheSame

\* The function that a recovery finds is the one that was called, if the lookup
\* is exact or the function is still there.
LEMMA FindsTheSame ==
    ASSUME RegInv, maps = code, pending # Nothing, NEW f, Lookup(pending) = {f},
           pending.class = "" =>
             \E g \in code : g.class = called.class /\ g.name = called.name /\ g.kind = called.kind
    PROVE  /\ f.class = called.class /\ f.name = called.name /\ f.kind = called.kind
           /\ \/ getConfiguredInstance(pending) = called.instance
              \/ [class |-> called.class, name |-> called.instance] \notin instances
  <1> USE DEF RegInv
  <1> DEFINE named == {g \in maps : g.kind = pending.kind /\ g.name = pending.name /\ g.kind # "procedure"}
             exact == {g \in named : g.class = pending.class}
  <1>1. Lookup(pending) = IF exact # {} THEN exact ELSE IF pending.class = "" THEN named ELSE {}
    BY DEF Lookup
  <1>2. called.class \in ClassNames /\ called.class # ""
    BY RegistrationAssumption DEF StatusOfCall
  <1>3. CASE pending = called
    <2>1. Lookup(pending) = exact
      BY <1>1, <1>2, <1>3
    <2>2. f \in exact
      BY <2>1
    <2>3. f.class = called.class /\ f.name = called.name /\ f.kind = called.kind
      BY <1>3, <2>2
    <2>4. \/ getConfiguredInstance(pending) = called.instance
          \/ [class |-> called.class, name |-> called.instance] \notin instances
      BY <1>3 DEF getConfiguredInstance
    <2> QED
      BY <2>3, <2>4
  <1>4. CASE pending = [called EXCEPT !.class = ""] /\ called.instance = ""
    <2>1. pending.class = "" /\ pending.name = called.name /\ pending.kind = called.kind
          /\ pending.instance = ""
      BY <1>4 DEF StatusOfCall, CallRecord
    <2>2. \A g \in maps : g.class # ""
      BY RegistrationAssumption DEF Deployed
    <2>3. exact = {}
      BY <2>1, <2>2
    <2>4. named = {f}
      BY <1>1, <2>1, <2>3
    <2>5. PICK g \in code : g.class = called.class /\ g.name = called.name /\ g.kind = called.kind
      BY <2>1
    <2>6. f \in named
      BY <2>4
    <2>7. g \in named
      BY <2>1, <2>5, <2>6
    <2>8. f = g
      BY <2>4, <2>7
    <2>9. [class |-> "", name |-> ""] \notin instances
      <3>1. ASSUME [class |-> "", name |-> ""] \in instances PROVE FALSE
        <4>1. [class |-> "", name |-> ""] \in [class : ClassNames, name : InstanceNames]
          BY <3>1 DEF Deployed
        <4> QED
          BY <4>1, RegistrationAssumption
      <3> QED
        BY <3>1
    <2>10. getConfiguredInstance(pending) = ""
      BY <2>1, <2>9 DEF getConfiguredInstance, NoInstance
    <2> QED
      BY <1>4, <2>5, <2>8, <2>10
  <1> QED
    BY <1>3, <1>4 DEF StatusOfCall

\* A function is called: its status names it.
LEMMA CallKeeps ==
    ASSUME RegInv, Call
    PROVE  RegInv'
  <1> USE DEF RegInv
  <1>1. UNCHANGED <<code, instances, maps, stage, recovered>> /\ maps = code /\ recovered = Nothing
    BY DEF Call, Deployed, StatusOfCall
  <1>0. PICK f \in maps, legacy \in BOOLEAN : \E i :
          /\ legacy => i = NoInstance
          /\ called' = [class |-> f.class, name |-> f.name, kind |-> f.kind, instance |-> i]
          /\ pending' = IF legacy THEN [called' EXCEPT !.class = ""] ELSE called'
    BY DEF Call
  <1>2. PICK i :
          /\ legacy => i = NoInstance
          /\ called' = [class |-> f.class, name |-> f.name, kind |-> f.kind, instance |-> i]
          /\ pending' = IF legacy THEN [called' EXCEPT !.class = ""] ELSE called'
    BY <1>0
  <1>3. f.class \in ClassNames /\ f.kind \in OpKind
    BY <1>1 DEF Deployed
  <1>4. called'.class = f.class /\ called'.name = f.name /\ called'.kind = f.kind /\ called'.instance = i
    BY <1>2
  <1>5. CallRecord(called')
    BY <1>2 DEF CallRecord
  <1>6. pending' # Nothing
    <2>1. pending'.kind = f.kind
      BY <1>2
    <2>2. Nothing.kind = "none" /\ "none" \notin OpKind
      BY DEF Nothing, NoCall, OpKind
    <2> QED
      BY <1>3, <2>1, <2>2
  <1>7. pending' = called' \/ (pending' = [called' EXCEPT !.class = ""] /\ called'.instance = "")
    BY <1>2, <1>4 DEF NoInstance
  <1>8. StatusOfCall'
    BY <1>3, <1>4, <1>5, <1>6, <1>7 DEF StatusOfCall, CallRecord
  <1>9. Deployed' /\ RecoversTheSame'
    BY <1>1 DEF Deployed, RecoversTheSame
  <1> QED
    BY <1>8, <1>9

LEMMA RegStep ==
    ASSUME RegInv, [RegNext]_regVars
    PROVE  RegInv'
  <1> USE DEF RegInv
  <1>1. CASE Decorate
    <2>1. recovered' = Nothing /\ UNCHANGED <<pending, called>>
      BY <1>1 DEF Decorate
    <2>2. Deployed'
      BY <1>1 DEF Decorate, Deployed, Applications, Configurations
    <2>3. StatusOfCall' /\ RecoversTheSame'
      BY <2>1 DEF StatusOfCall, RecoversTheSame
    <2> QED
      BY <2>2, <2>3
  <1>2. CASE registerClass
    <2>1. maps' = code
      <3>1. maps' = UNION {Registered(kind) : kind \in OpKind}
        BY <1>2 DEF registerClass
      <3>2. ASSUME NEW g PROVE g \in maps' <=> g \in code
        <4>1. g \in code => g.kind \in OpKind
          BY DEF Deployed
        <4> QED
          BY <3>1, <4>1 DEF Registered
      <3> QED
        BY <3>2
    <2>2. UNCHANGED <<code, instances, pending, called, recovered>>
      BY <1>2 DEF registerClass
    <2> QED
      BY <2>1, <2>2 DEF Deployed, StatusOfCall, RecoversTheSame
  <1>3. CASE recoverPendingWorkflows
    <2>1. UNCHANGED <<code, instances, maps, pending, called>> /\ maps = code
          /\ stage' = "recovering"
      BY <1>3 DEF recoverPendingWorkflows, Deployed
    <2>2. Deployed' /\ StatusOfCall'
      BY <1>3, <2>1 DEF recoverPendingWorkflows, Deployed, StatusOfCall
    <2>3. CASE recovered' \in {Nothing, Threw}
      BY <2>2, <2>3 DEF RecoversTheSame
    <2>4. CASE recovered' \notin {Nothing, Threw}
      <3>1. pending # Nothing
        BY <1>3, <2>4 DEF recoverPendingWorkflows
      <3>2. PICK f : Lookup(pending) = {f}
        BY <1>3, <2>4, <3>1 DEF recoverPendingWorkflows
      <3>3. recovered' = [class |-> f.class, name |-> f.name, kind |-> f.kind,
                          instance |-> getConfiguredInstance(pending)]
        BY <1>3, <2>4, <3>1, <3>2 DEF recoverPendingWorkflows
      <3>4. recovered'.class = f.class /\ recovered'.name = f.name /\ recovered'.kind = f.kind
            /\ recovered'.instance = getConfiguredInstance(pending)
        BY <3>3
      <3>5. RecoversTheSame'
        BY <2>1, <3>1, <3>2, <3>4, FindsTheSame DEF RecoversTheSame
      <3> QED
        BY <2>2, <3>5
    <2> QED
      BY <2>3, <2>4
  <1>4. CASE initialize \/ Stop
    BY <1>4 DEF initialize, Stop, Deployed, StatusOfCall, RecoversTheSame
  <1>5. CASE Ends
    BY <1>5 DEF Ends, Deployed, StatusOfCall, RecoversTheSame
  <1>6. CASE UNCHANGED regVars
    BY <1>6 DEF regVars, Deployed, StatusOfCall, RecoversTheSame
  <1> QED
    BY <1>1, <1>2, <1>3, <1>4, <1>5, <1>6, CallKeeps DEF RegNext

\* For all applications and any number of deployments between a call and its
\* recovery: the recovery calls the same function on the same instance, or
\* fails (getWorkflowInfoByStatus, executeWorkflowUUID).
THEOREM RecoveryCallsTheSame == RegSpec => []RecoversTheSame
  <1>1. RegInit => RegInv
    BY DEF RegInit, RegInv, Deployed, StatusOfCall, RecoversTheSame
  <1>2. RegInv => RecoversTheSame
    BY DEF RegInv
  <1> QED
    BY <1>1, <1>2, RegStep, PTL DEF RegSpec

-----------------------------------------------------------------------------
(* HttpServer.  As long as all requests are one user's, there is one outcome *)
(* that any of them can have got: "forbidden" when the user is turned away   *)
(* or lacks the role, and else the one that was recorded first.              *)

ReqRecord(r) ==
    /\ DOMAIN r = {"at", "user", "body", "out", "status", "found"}
    /\ r.at \in {"absent", "auth", "parse", "check", "run", "record", "finish", "wait",
                 "respond", "done"}
    /\ r.user \in Users /\ r.out # "PENDING" /\ r.found \in BOOLEAN

HttpTypes ==
    /\ req = [q \in Requests |-> req[q]]
    /\ \A q \in Requests : ReqRecord(req[q])
    /\ wfUser \in Users \cup {Unset}
    /\ wfRow = "PENDING" => wfUser \in Users
    /\ opRow # "PENDING" /\ wfBuffer # "PENDING" /\ opBuffer # "PENDING"
    /\ ~api.readOnly => opBuffer = Unset

\* The outcome of the operation is recorded where it is produced.
Once == api.kind # "handler" /\ ~api.readOnly

\* What a request that found an outcome on record does with it.
Answers(r) ==
    r.found => /\ opRow # Unset
               /\ r.at \in {"finish", "wait", "respond", "done"}
               /\ opRow \notin Errors =>
                     /\ r.at # "wait" /\ r.out = opRow
                     /\ r.at = "done" => r.status = StatusOf(opRow)

Turned(u) == api.authMiddleware /\ u = "nobody"

Outcome(u, o) == IF Turned(u) \/ Denied(u) THEN o = "forbidden" ELSE o = opRow /\ o # Unset

OneUser(u) == \A q \in Requests : req[q].at # "absent" => req[q].user = u

\* What a request of the user has in its hands.
InHand(u, r) ==
    /\ r.at = "record" => r.out # Unset /\ (Denied(u) => r.out = "forbidden")
    /\ r.at = "finish" => Outcome(u, r.out)
    /\ r.at \in {"respond", "done"} /\ (api.bodyArg => r.body) => Outcome(u, r.out)
    /\ r.at = "done" => r.status = StatusOf(r.out)
    /\ Turned(u) => r.at \in {"absent", "auth", "respond", "done"}

\* What is on record for the workflow UUID.
OnRecord(u) ==
    /\ opRow = Unset \/ Outcome(u, opRow)
    /\ wfRow \in {Unset, "PENDING"} \/ Outcome(u, wfRow)
    /\ wfBuffer = Unset \/ Outcome(u, wfBuffer)
    /\ wfUser \in {Unset, u}
    /\ Turned(u) => wfRow = Unset /\ wfBuffer = Unset

Agreed(u) == OnRecord(u) /\ \A q \in Requests : InHand(u, req[q])

HttpInv ==
    /\ HttpTypes /\ \A q \in Requests : Answers(req[q])
    /\ Once => \A u \in Users : OneUser(u) => Agreed(u)

\* A step of one request that records nothing.
LEMMA RequestMoves ==
    ASSUME HttpInv, NEW q \in Requests, NEW r, req' = [req EXCEPT ![q] = r], ReqRecord(r),
           Answers(r), r.at # "absent", UNCHANGED <<api, HttpRecords>>,
           req[q].at # "absent" => r.user = req[q].user,
           \A u \in Users : Once /\ OneUser(u) /\ Agreed(u) /\ r.user = u => InHand(u, r)
    PROVE  HttpInv'
  <1>1. req'[q] = r /\ (\A x \in Requests \ {q} : req'[x] = req[x])
        /\ req' = [x \in Requests |-> req'[x]]
    BY DEF HttpInv, HttpTypes
  <1>2. HttpTypes'
    BY <1>1 DEF HttpInv, HttpTypes, HttpRecords
  <1>4. \A x \in Requests : Answers(req[x])'
    BY <1>1 DEF HttpInv, Answers, HttpRecords
  <1>3. ASSUME Once, NEW u \in Users, OneUser(u)' PROVE Agreed(u)'
    <2>1. r.user = u
      BY <1>1, <1>3 DEF OneUser
    <2>2. OneUser(u)
      BY <1>1, <1>3, <2>1 DEF OneUser
    <2>3. Agreed(u)
      BY <1>3, <2>2 DEF HttpInv
    <2>4. InHand(u, r)
      BY <1>3, <2>1, <2>2, <2>3
    <2>5. ASSUME NEW x \in Requests PROVE InHand(u, req'[x])
      BY <1>1, <2>3, <2>4 DEF Agreed
    <2>6. api' = api /\ opRow' = opRow /\ wfRow' = wfRow /\ wfBuffer' = wfBuffer /\ wfUser' = wfUser
      BY DEF HttpRecords
    <2>7. OnRecord(u)'
      BY <2>3, <2>6 DEF Agreed, OnRecord, Outcome, Turned, Denied, getRequiredRoles
    <2>8. \A x \in Requests : InHand(u, req[x])'
      BY <2>5, <2>6 DEF InHand, Outcome, Turned, Denied, getRequiredRoles
    <2> QED
      BY <2>7, <2>8 DEF Agreed
  <1> QED
    BY <1>2, <1>3, <1>4 DEF HttpInv, HttpRecords, Once

\* A step of one request that records something for the workflow UUID: opRow
\* changes only from Unset, so what others have in their hands still stands.
LEMMA RequestRecords ==
    ASSUME HttpInv, NEW q \in Requests, NEW r, req' = [req EXCEPT ![q] = r], ReqRecord(r),
           r.at # "absent", req[q].at # "absent", r.user = req[q].user, api' = api,
           opRow # Unset => opRow' = opRow,
           wfUser' \in Users \cup {Unset}, wfRow' = "PENDING" => wfUser' \in Users,
           opRow' # "PENDING", wfBuffer' # "PENDING", opBuffer' # "PENDING",
           ~api.readOnly => opBuffer' = Unset, Answers(req[q])',
           \A u \in Users : Once /\ OneUser(u) /\ Agreed(u) /\ r.user = u =>
              OnRecord(u)' /\ InHand(u, req[q])'
    PROVE  HttpInv'
  <1>1. req'[q] = r /\ (\A x \in Requests \ {q} : req'[x] = req[x])
        /\ req' = [x \in Requests |-> req'[x]]
    BY DEF HttpInv, HttpTypes
  <1>2. HttpTypes'
    BY <1>1 DEF HttpInv, HttpTypes
  <1>4. \A x \in Requests : Answers(req[x])'
    BY <1>1 DEF HttpInv, Answers
  <1>3. ASSUME Once, NEW u \in Users, OneUser(u)' PROVE Agreed(u)'
    <2>1. r.user = u
      BY <1>1, <1>3 DEF OneUser
    <2>2. OneUser(u)
      BY <1>1, <1>3, <2>1 DEF OneUser
    <2>3. Agreed(u)
      BY <1>3, <2>2 DEF HttpInv
    <2>4. OnRecord(u)' /\ InHand(u, req[q])'
      BY <1>1, <1>3, <2>1, <2>2, <2>3
    <2>5. ASSUME NEW o PROVE Outcome(u, o) => Outcome(u, o)'
      BY DEF Outcome, Turned, Denied, getRequiredRoles
    <2>6. ASSUME NEW x \in Requests \ {q} PROVE InHand(u, req[x])'
      <3>1. InHand(u, req[x])
        BY <2>3 DEF Agreed
      <3>2. Outcome(u, req[x].out) => Outcome(u, req[x].out)'
        BY <1>1, <2>5 DEF Outcome, Turned, Denied, getRequiredRoles
      <3> QED
        BY <1>1, <3>1, <3>2 DEF InHand, Turned, Denied, getRequiredRoles
    <2> QED
      BY <2>4, <2>6 DEF Agreed
  <1> QED
    BY <1>2, <1>3, <1>4 DEF HttpInv, Once

\* What Go makes of a request.
LEMMA GoRecord ==
    ASSUME HttpTypes, NEW q \in Requests, NEW at, NEW out, Go(q, at, out), out # "PENDING",
           at \in {"parse", "check", "run", "record", "finish", "wait", "respond"}
    PROVE  \E r : /\ req' = [req EXCEPT ![q] = r] /\ ReqRecord(r) /\ r.at = at /\ r.out = out
                  /\ r.user = req[q].user /\ r.body = req[q].body /\ r.found = req[q].found
  <1> DEFINE r == [req[q] EXCEPT !.at = at, !.out = out]
  <1>1. DOMAIN req[q] = {"at", "user", "body", "out", "status", "found"} /\ req[q].user \in Users
        /\ req[q].found \in BOOLEAN
    BY DEF HttpTypes, ReqRecord
  <1>2. req' = [req EXCEPT ![q] = r]
    BY DEF Go, HttpTypes
  <1>3. ReqRecord(r) /\ r.at = at /\ r.out = out /\ r.user = req[q].user /\ r.body = req[q].body
        /\ r.found = req[q].found
    BY <1>1 DEF ReqRecord
  <1> QED
    BY <1>2, <1>3

LEMMA GoFoundRecord ==
    ASSUME HttpTypes, NEW q \in Requests, NEW at, NEW out, GoFound(q, at, out), out # "PENDING",
           at \in {"finish", "wait"}
    PROVE  \E r : /\ req' = [req EXCEPT ![q] = r] /\ ReqRecord(r) /\ r.at = at /\ r.out = out
                  /\ r.user = req[q].user /\ r.body = req[q].body /\ r.found
  <1> DEFINE r == [req[q] EXCEPT !.at = at, !.out = out, !.found = TRUE]
  <1>1. DOMAIN req[q] = {"at", "user", "body", "out", "status", "found"} /\ req[q].user \in Users
    BY DEF HttpTypes, ReqRecord
  <1>2. req' = [req EXCEPT ![q] = r]
    BY DEF GoFound, HttpTypes
  <1>3. ReqRecord(r) /\ r.at = at /\ r.out = out /\ r.user = req[q].user /\ r.body = req[q].body
        /\ r.found
    BY <1>1 DEF ReqRecord
  <1> QED
    BY <1>2, <1>3

\* Arrival, authentication, and the recovery endpoint.
LEMMA ArriveKeeps ==
    ASSUME HttpInv, NEW q \in Requests, Arrive(q) \/ recoveryHandler(q)
    PROVE  HttpInv'
  <1>1. ReqRecord(req[q]) /\ req[q].at = "absent" /\ UNCHANGED <<api, HttpRecords>> /\ ~req[q].found
    BY DEF HttpInv, HttpTypes, Answers, Arrive, recoveryHandler, At
  <1>2. CASE Arrive(q)
    <2>1. PICK user \in Users, body \in BOOLEAN :
             req' = [req EXCEPT ![q] = [@ EXCEPT !.at = "auth", !.user = user, !.body = body]]
      BY <1>2 DEF Arrive, Users
    <2> DEFINE r == [req[q] EXCEPT !.at = "auth", !.user = user, !.body = body]
    <2>2. req' = [req EXCEPT ![q] = r]
      BY <2>1
    <2>3. ReqRecord(r) /\ r.at = "auth" /\ Answers(r)
      BY <1>1 DEF ReqRecord, Answers
    <2> HIDE DEF r
    <2>4. ASSUME NEW u \in Users PROVE InHand(u, r)
      BY <2>3 DEF InHand
    <2> QED
      BY <1>1, <2>2, <2>3, <2>4, RequestMoves
  <1>3. CASE recoveryHandler(q)
    <2>1. wfRow = "PENDING" /\ wfUser \in Users
      BY <1>3 DEF recoveryHandler, HttpInv, HttpTypes
    <2> DEFINE r == [req[q] EXCEPT !.at = "check", !.user = wfUser]
    <2>2. req' = [req EXCEPT ![q] = r]
      BY <1>3 DEF recoveryHandler, getRecoveryContext
    <2>3. ReqRecord(r) /\ r.at = "check" /\ Answers(r)
      BY <1>1, <2>1 DEF ReqRecord, Answers
    <2> HIDE DEF r
    <2>4. ASSUME NEW u \in Users, Agreed(u) PROVE InHand(u, r)
      BY <2>1, <2>3, <2>4 DEF InHand, Agreed, OnRecord, Unset
    <2> QED
      BY <1>1, <2>2, <2>3, <2>4, RequestMoves
  <1> QED
    BY <1>2, <1>3

\* Steps that only move the request on.
LEMMA MoveKeeps ==
    ASSUME HttpInv, NEW q \in Requests, Authenticate(q) \/ CheckRecorded(q) \/ Run(q) \/ WaitReturns(q)
    PROVE  HttpInv'
  <1>1. HttpTypes /\ UNCHANGED <<api, HttpRecords>> /\ req[q].at # "absent"
    BY DEF HttpInv, Authenticate, CheckRecorded, Run, WaitReturns, At
  <1>2. PICK at, out :
           /\ at \in {"parse", "run", "record", "finish", "wait", "respond"} /\ out # "PENDING"
           /\ \/ Go(q, at, out) /\ (req[q].found => at = "respond" /\ opRow \in Errors)
              \/ GoFound(q, at, out) /\ at \in {"finish", "wait"} /\ opRow # Unset
                 /\ (opRow \notin Errors => at = "finish" /\ out = opRow)
           /\ \A u \in Users : Once /\ Agreed(u) /\ req[q].user = u =>
              /\ at = "record" => out # Unset /\ (Denied(u) => out = "forbidden")
              /\ at = "finish" => Outcome(u, out)
              /\ at = "respond" => Outcome(u, out)
              /\ Turned(u) => at = "respond"
    <2>0. req[q].found => req[q].at \in {"finish", "wait", "respond", "done"}
                          /\ (opRow \notin Errors => req[q].at # "wait")
      BY DEF HttpInv, Answers
    <2>1. CASE Authenticate(q)
      BY <2>0, <2>1 DEF Authenticate, Outcome, Turned, Unset, At
    <2>2. CASE CheckRecorded(q)
      <3>1. ASSUME NEW u \in Users, Agreed(u) PROVE ~Turned(u)
        BY <2>2, <3>1 DEF Agreed, InHand, CheckRecorded, At
      <3>2. ASSUME NEW u \in Users, Agreed(u), opRow # Unset PROVE Outcome(u, opRow)
        BY <3>2 DEF Agreed, OnRecord
      <3>3. CASE api.kind = "workflow" /\ Denied(req[q].user)
        <4>1. Go(q, "finish", "forbidden")
          BY <2>2, <3>3 DEF CheckRecorded
        <4>2. ~req[q].found
          BY <2>0, <2>2 DEF CheckRecorded, At
        <4> QED
          BY <3>1, <3>3, <4>1, <4>2 DEF Outcome
      <3>4. CASE ~(api.kind = "workflow" /\ Denied(req[q].user))
        <4>1. IF opRow = Unset THEN Go(q, "run", Unset)
              ELSE IF (api.kind = "transaction" \/ api.readOnly) /\ opRow \in Errors
                   THEN GoFound(q, "wait", Unset)
              ELSE GoFound(q, "finish", opRow)
          BY <2>2, <3>4 DEF CheckRecorded
        <4>2. ~req[q].found
          BY <2>0, <2>2 DEF CheckRecorded, At
        <4>3. CASE Go(q, "run", Unset)
          BY <3>1, <4>2, <4>3 DEF Unset
        <4>4. CASE GoFound(q, "wait", Unset) /\ opRow # Unset /\ opRow \in Errors
          BY <3>1, <4>4 DEF Unset
        <4>5. CASE GoFound(q, "finish", opRow) /\ opRow # Unset
          BY <1>1, <3>1, <3>2, <4>5 DEF HttpTypes
        <4> QED
          BY <4>1, <4>3, <4>4, <4>5
      <3> QED
        BY <3>3, <3>4
    <2>3. CASE Run(q)
      <3>1. ASSUME NEW u \in Users, Agreed(u) PROVE ~Turned(u)
        BY <2>3, <3>1 DEF Agreed, InHand, Run, At
      <3>2. ~req[q].found
        BY <2>0, <2>3 DEF Run, At
      <3>3. PICK out \in Replies : /\ Denied(req[q].user) => out = "forbidden"
                                   /\ Go(q, IF api.kind = "handler" THEN "respond" ELSE "record", out)
        BY <2>3 DEF Run
      <3> DEFINE at == IF api.kind = "handler" THEN "respond" ELSE "record"
      <3>4. out # "PENDING" /\ out # Unset
        BY DEF Replies, Unset
      <3>5. at \in {"respond", "record"} /\ (Once => at = "record")
        BY DEF Once
      <3> HIDE DEF at
      <3> QED
        BY <3>1, <3>2, <3>3, <3>4, <3>5 DEF at
    <2>4. CASE WaitReturns(q)
      <3>1. ASSUME NEW u \in Users, Agreed(u) PROVE ~Turned(u) /\ Outcome(u, wfRow)
        BY <2>4, <3>1 DEF Agreed, InHand, OnRecord, WaitReturns, At
      <3> QED
        BY <2>0, <2>4, <3>1 DEF WaitReturns, HttpTypes, At
    <2> QED
      BY <2>1, <2>2, <2>3, <2>4
  <1>3. PICK r : /\ req' = [req EXCEPT ![q] = r] /\ ReqRecord(r) /\ r.at = at /\ r.out = out
                 /\ r.user = req[q].user /\ r.body = req[q].body
                 /\ \/ r.found = req[q].found /\ (req[q].found => at = "respond" /\ opRow \in Errors)
                    \/ at \in {"finish", "wait"} /\ opRow # Unset
                       /\ (opRow \notin Errors => at = "finish" /\ out = opRow)
    <2>1. CASE Go(q, at, out) /\ (req[q].found => at = "respond" /\ opRow \in Errors)
      BY <1>1, <1>2, <2>1, GoRecord
    <2>2. CASE GoFound(q, at, out) /\ at \in {"finish", "wait"} /\ opRow # Unset
               /\ (opRow \notin Errors => at = "finish" /\ out = opRow)
      <3>1. HttpTypes /\ GoFound(q, at, out) /\ out # "PENDING" /\ at \in {"finish", "wait"}
        BY <1>1, <1>2, <2>2
      <3>2. PICK r : /\ req' = [req EXCEPT ![q] = r] /\ ReqRecord(r) /\ r.at = at /\ r.out = out
                     /\ r.user = req[q].user /\ r.body = req[q].body /\ r.found
        BY <3>1, GoFoundRecord
      <3> QED
        BY <2>2, <3>2
    <2> QED
      BY <1>2, <2>1, <2>2
  <1>4. ASSUME NEW u \in Users, Once, Agreed(u), r.user = u PROVE InHand(u, r)
    <2>1. /\ at = "record" => out # Unset /\ (Denied(u) => out = "forbidden")
          /\ at = "finish" => Outcome(u, out)
          /\ at = "respond" => Outcome(u, out)
          /\ Turned(u) => at = "respond"
      BY <1>2, <1>3, <1>4
    <2> QED
      BY <1>2, <1>3, <2>1 DEF InHand
  <1>5. r.at # "absent"
    BY <1>2, <1>3
  <1>6. Answers(r)
    <2>1. req[q].found => opRow # Unset
      BY DEF HttpInv, Answers
    <2> QED
      BY <1>2, <1>3, <2>1 DEF Answers
  <1> QED
    BY <1>1, <1>3, <1>4, <1>5, <1>6, RequestMoves

\* The answer goes out.
LEMMA RespondKeeps ==
    ASSUME HttpInv, NEW q \in Requests, Respond(q)
    PROVE  HttpInv'
  <1> DEFINE r == [req[q] EXCEPT !.at = "done", !.status = StatusOf(req[q].out)]
  <1>1. ReqRecord(req[q]) /\ req[q].at = "respond" /\ UNCHANGED <<api, HttpRecords>>
    BY DEF HttpInv, HttpTypes, Respond, At
  <1>2. req' = [req EXCEPT ![q] = r]
    BY DEF Respond, HttpInv, HttpTypes
  <1>3. ReqRecord(r) /\ r.at = "done" /\ r.out = req[q].out /\ r.body = req[q].body
        /\ r.user = req[q].user /\ r.status = StatusOf(req[q].out) /\ r.found = req[q].found
    BY <1>1 DEF ReqRecord
  <1> HIDE DEF r
  <1>4. ASSUME NEW u \in Users, Agreed(u) PROVE InHand(u, r)
    <2>1. InHand(u, req[q])
      BY <1>4 DEF Agreed
    <2> QED
      BY <1>1, <1>3, <2>1 DEF InHand
  <1>5. r.at # "absent"
    BY <1>3
  <1>6. Answers(r)
    BY <1>1, <1>3 DEF HttpInv, Answers
  <1> QED
    BY <1>1, <1>2, <1>3, <1>4, <1>5, <1>6, RequestMoves

\* The arguments are parsed and the status recorded.
LEMMA ParseKeeps ==
    ASSUME HttpInv, NEW q \in Requests, Parse(q)
    PROVE  HttpInv'
  <1>1. HttpTypes /\ UNCHANGED <<api, opRow, opBuffer, wfBuffer>> /\ req[q].at = "parse" /\ ~req[q].found
    BY DEF HttpInv, Answers, Parse, At
  <1>2. req[q].user \in Users
    BY <1>1 DEF HttpTypes, ReqRecord
  <1>3. ASSUME NEW u \in Users, Agreed(u) PROVE ~Turned(u)
    BY <1>1, <1>3 DEF Agreed, InHand
  <1>4. CASE api.bodyArg /\ ~req[q].body
    <2>1. Go(q, "respond", "clientError") /\ UNCHANGED <<wfRow, wfUser>>
      BY <1>4 DEF Parse
    <2>2. PICK r : /\ req' = [req EXCEPT ![q] = r] /\ ReqRecord(r) /\ r.at = "respond"
                   /\ r.user = req[q].user /\ r.body = req[q].body /\ ~r.found
      BY <1>1, <2>1, GoRecord
    <2>3. ASSUME NEW u \in Users, Agreed(u) PROVE InHand(u, r)
      BY <1>4, <2>2, <2>3 DEF InHand
    <2>4. UNCHANGED <<api, HttpRecords>> /\ r.at # "absent" /\ Answers(r)
      BY <1>1, <2>1, <2>2 DEF HttpRecords, Answers
    <2> QED
      BY <2>2, <2>3, <2>4, RequestMoves
  <1>5. CASE ~(api.bodyArg /\ ~req[q].body)
    <2> DEFINE at == IF api.kind = "handler" THEN "run" ELSE "check"
    <2>1. Go(q, at, Unset) /\ at \in {"run", "check"}
      BY <1>5 DEF Parse
    <2>2. \/ UNCHANGED <<wfRow, wfUser>>
          \/ wfRow = Unset /\ wfRow' = "PENDING" /\ wfUser' = req[q].user
      BY <1>5 DEF Parse
    <2> HIDE DEF at
    <2>3. PICK r : /\ req' = [req EXCEPT ![q] = r] /\ ReqRecord(r) /\ r.at = at
                   /\ r.user = req[q].user /\ ~r.found
      BY <1>1, <2>1, GoRecord DEF Unset
    <2>4. req'[q] = r
      BY <1>1, <2>3 DEF HttpTypes
    <2>5. ASSUME NEW u \in Users, Agreed(u), r.user = u
          PROVE  OnRecord(u)' /\ InHand(u, req[q])'
      <3>1. ~Turned(u) /\ OnRecord(u)
        BY <1>3, <2>5 DEF Agreed
      <3>2. InHand(u, req[q])'
        BY <1>1, <2>1, <2>3, <2>4, <3>1 DEF InHand, Turned
      <3>3. OnRecord(u)'
        BY <1>1, <2>2, <2>3, <2>5, <3>1 DEF OnRecord, Outcome, Turned, Denied, getRequiredRoles
      <3> QED
        BY <3>2, <3>3
    <2>6. /\ wfUser' \in Users \cup {Unset} /\ (wfRow' = "PENDING" => wfUser' \in Users)
          /\ opRow' # "PENDING" /\ wfBuffer' # "PENDING" /\ opBuffer' # "PENDING"
          /\ (~api.readOnly => opBuffer' = Unset) /\ Answers(req[q])'
      BY <1>1, <1>2, <2>2, <2>3, <2>4 DEF HttpTypes, Answers
    <2>7. r.at # "absent" /\ req[q].at # "absent"
      BY <1>1, <2>1, <2>3
    <2> QED
      BY <1>1, <2>3, <2>5, <2>6, <2>7, RequestRecords
  <1> QED
    BY <1>4, <1>5

\* The first outcome is recorded.
LEMMA RecordOutcomeKeeps ==
    ASSUME HttpInv, NEW q \in Requests, RecordOutcome(q)
    PROVE  HttpInv'
  <1>1. HttpTypes /\ UNCHANGED <<api, opBuffer, wfRow, wfBuffer, wfUser>> /\ req[q].at = "record"
        /\ ~req[q].found
    BY DEF HttpInv, Answers, RecordOutcome, At
  <1> DEFINE waits == api.readOnly /\ req[q].out \notin Errors
  <1>5. CASE waits
    <2>1. Go(q, "finish", req[q].out) /\ UNCHANGED opRow /\ ~Once
      BY <1>5 DEF RecordOutcome, Once
    <2>2. req[q].out # "PENDING"
      BY <1>1 DEF HttpTypes, ReqRecord
    <2>3. PICK r : req' = [req EXCEPT ![q] = r] /\ ReqRecord(r) /\ r.at = "finish"
                   /\ r.user = req[q].user /\ ~r.found
      BY <1>1, <2>1, <2>2, GoRecord
    <2>4. UNCHANGED <<api, HttpRecords>> /\ r.at # "absent" /\ Answers(r)
      BY <1>1, <2>1, <2>3 DEF HttpRecords, Answers
    <2> QED
      BY <2>1, <2>3, <2>4, RequestMoves
  <1>2. ASSUME NEW u \in Users, Agreed(u)
        PROVE  /\ ~Turned(u) /\ OnRecord(u)
               /\ req[q].out # Unset /\ (Denied(u) => req[q].out = "forbidden")
    BY <1>1, <1>2 DEF Agreed, InHand
  <1>3. CASE opRow # Unset /\ ~waits
    <2>1. Go(q, "wait", Unset) /\ UNCHANGED opRow
      BY <1>3 DEF RecordOutcome
    <2>2. PICK r : /\ req' = [req EXCEPT ![q] = r] /\ ReqRecord(r) /\ r.at = "wait"
                   /\ r.user = req[q].user /\ ~r.found
      BY <1>1, <2>1, GoRecord DEF Unset
    <2>3. ASSUME NEW u \in Users, Agreed(u) PROVE InHand(u, r)
      BY <1>2, <2>2, <2>3 DEF InHand
    <2>4. UNCHANGED <<api, HttpRecords>> /\ r.at # "absent" /\ Answers(r)
      BY <1>1, <2>1, <2>2 DEF HttpRecords, Answers
    <2> QED
      BY <2>2, <2>3, <2>4, RequestMoves
  <1>4. CASE opRow = Unset /\ ~waits
    <2>0. req[q].out # "PENDING"
      BY <1>1 DEF HttpTypes, ReqRecord
    <2>1. Go(q, "finish", req[q].out) /\ opRow' = req[q].out
      BY <1>4 DEF RecordOutcome
    <2>2. PICK r : /\ req' = [req EXCEPT ![q] = r] /\ ReqRecord(r) /\ r.at = "finish"
                   /\ r.user = req[q].user /\ r.out = req[q].out /\ ~r.found
      BY <1>1, <2>1, <2>0, GoRecord
    <2>3. req'[q] = r
      BY <1>1, <2>2 DEF HttpTypes
    <2>4. ASSUME NEW u \in Users, Once, Agreed(u)
          PROVE  OnRecord(u)' /\ InHand(u, req[q])'
      <3>1. /\ ~Turned(u) /\ OnRecord(u)
            /\ req[q].out # Unset /\ (Denied(u) => req[q].out = "forbidden")
        BY <1>2, <2>4
      <3>2. Outcome(u, opRow)'
        BY <1>1, <2>1, <2>4, <3>1 DEF Outcome, Turned, Denied, getRequiredRoles
      <3>3. Outcome(u, req[q].out)'
        BY <2>1, <2>2, <2>3, <3>2
      <3>4. InHand(u, req[q])'
        BY <1>1, <2>2, <2>3, <3>1, <3>3 DEF InHand, Turned
      <3>5. ASSUME NEW o, Outcome(u, o) PROVE o = "forbidden" /\ Denied(u)
        BY <1>4, <3>1, <3>5 DEF Outcome
      <3>6. OnRecord(u)'
        <4>1. wfRow \in {Unset, "PENDING"} \/ (wfRow = "forbidden" /\ Denied(u))
          BY <3>1, <3>5 DEF OnRecord
        <4>2. wfBuffer = Unset \/ (wfBuffer = "forbidden" /\ Denied(u))
          BY <3>1, <3>5 DEF OnRecord
        <4>3. wfRow' \in {Unset, "PENDING"} \/ Outcome(u, wfRow)'
          BY <1>1, <4>1 DEF Outcome, Turned, Denied, getRequiredRoles
        <4>4. wfBuffer' = Unset \/ Outcome(u, wfBuffer)'
          BY <1>1, <4>2 DEF Outcome, Turned, Denied, getRequiredRoles
        <4>5. wfUser' \in {Unset, u} /\ ~Turned(u)'
          BY <1>1, <3>1 DEF OnRecord, Turned
        <4> QED
          BY <3>2, <4>3, <4>4, <4>5 DEF OnRecord
      <3> QED
        BY <3>4, <3>6
    <2>5. /\ wfUser' \in Users \cup {Unset} /\ (wfRow' = "PENDING" => wfUser' \in Users)
          /\ opRow' # "PENDING" /\ wfBuffer' # "PENDING" /\ opBuffer' # "PENDING"
          /\ (~api.readOnly => opBuffer' = Unset) /\ Answers(req[q])'
      BY <1>1, <2>0, <2>1, <2>2, <2>3 DEF HttpTypes, Answers
    <2>6. r.at # "absent" /\ req[q].at # "absent"
      BY <1>1, <2>2
    <2> QED
      BY <1>1, <1>4, <2>2, <2>4, <2>5, <2>6, RequestRecords
  <1> QED
    BY <1>3, <1>4, <1>5

\* The workflow ends: an error is recorded, an output buffered.
LEMMA FinishKeeps ==
    ASSUME HttpInv, NEW q \in Requests, Finish(q)
    PROVE  HttpInv'
  <1>1. HttpTypes /\ UNCHANGED <<api, opRow>> /\ req[q].at = "finish"
        /\ Go(q, "respond", req[q].out) /\ req[q].out # "PENDING"
    BY DEF HttpInv, Finish, At, HttpTypes, ReqRecord
  <1>2. PICK r : /\ req' = [req EXCEPT ![q] = r] /\ ReqRecord(r) /\ r.at = "respond"
                 /\ r.user = req[q].user /\ r.out = req[q].out /\ r.found = req[q].found
    BY <1>1, GoRecord
  <1>3. req'[q] = r /\ req[q].user \in Users
    BY <1>1, <1>2 DEF HttpTypes, ReqRecord
  <1>4. /\ wfUser' = (IF wfUser = Unset THEN req[q].user ELSE wfUser)
        /\ \/ wfRow' = req[q].out /\ wfRow' \in Errors /\ UNCHANGED wfBuffer
           \/ wfBuffer' = req[q].out /\ UNCHANGED wfRow
    BY DEF Finish
  <1>5. ASSUME NEW u \in Users, Agreed(u), r.user = u
        PROVE  OnRecord(u)' /\ InHand(u, req[q])'
    <2>1. OnRecord(u) /\ InHand(u, req[q])
      BY <1>5 DEF Agreed
    <2>2. ~Turned(u) /\ Outcome(u, req[q].out)
      BY <1>1, <2>1 DEF InHand
    <2>3. ASSUME NEW o PROVE (IF Denied(u) THEN o = "forbidden" ELSE o = opRow /\ o # Unset)
                             <=> Outcome(u, o)
      BY <2>2 DEF Outcome
    <2>4. Outcome(u, wfRow)' <=> (IF Denied(u) THEN wfRow' = "forbidden" ELSE wfRow' = opRow /\ wfRow' # Unset)
      BY <1>1, <2>2 DEF Outcome, Turned, Denied, getRequiredRoles
    <2>5. Outcome(u, wfBuffer)' <=> (IF Denied(u) THEN wfBuffer' = "forbidden" ELSE wfBuffer' = opRow /\ wfBuffer' # Unset)
      BY <1>1, <2>2 DEF Outcome, Turned, Denied, getRequiredRoles
    <2>6. Outcome(u, opRow)' <=> Outcome(u, opRow)
      BY <1>1 DEF Outcome, Turned, Denied, getRequiredRoles
    <2>7. Outcome(u, req[q].out)'
      <3>1. req'[q].out = req[q].out
        BY <1>2, <1>3
      <3> QED
        BY <1>1, <2>2, <3>1 DEF Outcome, Turned, Denied, getRequiredRoles
    <2>8. InHand(u, req[q])'
      BY <1>1, <1>2, <1>3, <2>2, <2>7 DEF InHand, Turned
    <2>9. wfRow' \in {Unset, "PENDING"} \/ Outcome(u, wfRow)'
      BY <1>4, <2>1, <2>2, <2>3, <2>4 DEF OnRecord
    <2>10. wfBuffer' = Unset \/ Outcome(u, wfBuffer)'
      BY <1>4, <2>1, <2>2, <2>3, <2>5 DEF OnRecord
    <2>11. wfUser' \in {Unset, u} /\ (opRow' = Unset \/ Outcome(u, opRow)') /\ ~Turned(u)'
      BY <1>1, <1>2, <1>4, <1>5, <2>1, <2>2, <2>6 DEF OnRecord, Turned
    <2>12. OnRecord(u)'
      BY <2>9, <2>10, <2>11 DEF OnRecord
    <2> QED
      BY <2>8, <2>12
  <1>6. /\ wfUser' \in Users \cup {Unset} /\ (wfRow' = "PENDING" => wfUser' \in Users)
        /\ opRow' # "PENDING" /\ wfBuffer' # "PENDING"
    BY <1>1, <1>3, <1>4 DEF HttpTypes, Users, Unset, Errors
  <1>8. opBuffer' # "PENDING" /\ (~api.readOnly => opBuffer' = Unset)
    BY <1>1 DEF Finish, HttpTypes
  <1>9. Answers(req[q])'
    BY <1>1, <1>2, <1>3 DEF HttpInv, Answers
  <1>7. r.at # "absent" /\ req[q].at # "absent"
    BY <1>1, <1>2
  <1> QED
    BY <1>1, <1>2, <1>5, <1>6, <1>7, <1>8, <1>9, RequestRecords

LEMMA HttpStep ==
    ASSUME HttpInv, [HttpNext]_httpVars
    PROVE  HttpInv'
  <1>1. CASE FlushOutput
    <2>1. UNCHANGED <<api, req, opRow, opBuffer, wfUser>> /\ wfBuffer # Unset /\ wfRow' = wfBuffer
          /\ wfBuffer' = Unset
      BY <1>1 DEF FlushOutput
    <2>2. ASSUME NEW u \in Users, Agreed(u) PROVE Agreed(u)'
      <3>1. Outcome(u, wfBuffer) /\ OnRecord(u) /\ ~Turned(u)
        BY <2>1, <2>2 DEF Agreed, OnRecord
      <3>2. OnRecord(u)'
        <4>1. Outcome(u, wfRow)' /\ (opRow' = Unset \/ Outcome(u, opRow)')
          BY <2>1, <3>1 DEF OnRecord, Outcome, Turned, Denied, getRequiredRoles
        <4>2. ~Turned(u)' /\ wfUser' \in {Unset, u} /\ wfBuffer' = Unset
          BY <2>1, <3>1 DEF OnRecord, Turned
        <4> QED
          BY <4>1, <4>2 DEF OnRecord
      <3>3. \A q \in Requests : InHand(u, req[q])'
        BY <2>1, <2>2 DEF Agreed, InHand, Outcome, Turned, Denied, getRequiredRoles
      <3> QED
        BY <3>2, <3>3 DEF Agreed
    <2>3. HttpTypes'
      BY <2>1 DEF HttpInv, HttpTypes, Unset
    <2>4. \A q \in Requests : Answers(req[q])'
      BY <2>1 DEF HttpInv, Answers
    <2> QED
      BY <2>1, <2>2, <2>3, <2>4 DEF HttpInv, OneUser, Once
  <1>3. CASE FlushResults
    <2>1. UNCHANGED <<api, req, wfRow, wfBuffer, wfUser>> /\ opRow = Unset /\ opRow' = opBuffer
          /\ opBuffer # Unset /\ opBuffer' = Unset
      BY <1>3 DEF FlushResults
    <2>2. ~Once'
      BY <2>1 DEF HttpInv, HttpTypes, Once
    <2>3. HttpTypes'
      BY <2>1 DEF HttpInv, HttpTypes, Unset
    <2>4. \A q \in Requests : Answers(req[q])'
      BY <2>1 DEF HttpInv, Answers
    <2> QED
      BY <2>2, <2>3, <2>4 DEF HttpInv
  <1>2. CASE listen \/ UNCHANGED httpVars
    <2>1. UNCHANGED <<api, req, opRow, opBuffer, wfRow, wfBuffer, wfUser>>
      BY <1>2 DEF listen, httpVars, HttpRecords
    <2> QED
      BY <2>1 DEF HttpInv, HttpTypes, Once, Answers, OneUser, Agreed, OnRecord, InHand, Outcome, Turned, Denied,
                  getRequiredRoles
  <1> QED
    BY <1>1, <1>2, <1>3, ArriveKeeps, MoveKeeps, RespondKeeps, ParseKeeps, RecordOutcomeKeeps, FinishKeeps
       DEF HttpNext, HandleRequest

\* For every number of requests and every endpoint whose operation records its
\* outcome at once: as long as one user sends them, the requests with one
\* workflow UUID are answered with one status; and at every endpoint, read-only
\* transactions too, a request that found a recorded result is answered with it
\* (wrappedHandler, runWorkflow).
THEOREM OneAnswer == HttpSpec => []AnsweredAlike
  <1>1. HttpInit => HttpInv
    <2> SUFFICES ASSUME HttpInit PROVE HttpInv
      OBVIOUS
    <2>1. ASSUME NEW q \in Requests
          PROVE  ReqRecord(req[q]) /\ req[q].at = "absent"
      BY DEF HttpInit, ReqRecord, Users, Unset
    <2>2. HttpTypes /\ \A q \in Requests : Answers(req[q])
      BY <2>1 DEF HttpInit, HttpTypes, Unset, Answers
    <2>3. ASSUME NEW u \in Users PROVE Agreed(u)
      BY <2>1 DEF HttpInit, Agreed, OnRecord, InHand
    <2> QED
      BY <2>2, <2>3 DEF HttpInv
  <1>2. HttpInv => AnsweredAlike
    <2> SUFFICES ASSUME HttpInv PROVE AnsweredAlike
      OBVIOUS
    <2> DEFINE present == {q \in Requests : req[q].at # "absent"}
               served == {q \in Requests : req[q].at = "done" /\ (api.bodyArg => req[q].body)}
               users == {req[q].user : q \in present}
               answers == {req[q].status : q \in served}
    <2>1. IsFiniteSet(Users)
      <3>1. IsFiniteSet({"nobody"}) /\ IsFiniteSet({"reader"}) /\ IsFiniteSet({"writer"})
        BY FS_Singleton
      <3>2. IsFiniteSet({"nobody"} \cup {"reader"})
        BY <3>1, FS_Union
      <3>3. IsFiniteSet(({"nobody"} \cup {"reader"}) \cup {"writer"})
        BY <3>1, <3>2, FS_Union
      <3>4. Users = ({"nobody"} \cup {"reader"}) \cup {"writer"}
        BY DEF Users
      <3> QED
        BY <3>3, <3>4
    <2>2. users \in SUBSET Users
      BY DEF HttpInv, HttpTypes, ReqRecord
    <2>3. IsFiniteSet(users)
      BY <2>1, <2>2, FS_Subset
    <2>4. ASSUME Once, Cardinality(users) = 1
          PROVE  answers = {} \/ \E s : answers = {s}
      <3>1. PICK u : users = {u}
        BY <2>3, <2>4, FS_Singleton
      <3>2. u \in Users /\ OneUser(u)
        BY <2>2, <3>1 DEF OneUser
      <3>3. Agreed(u)
        BY <2>4, <3>2 DEF HttpInv
      <3>4. ASSUME NEW q \in served PROVE Outcome(u, req[q].out) /\ req[q].status = StatusOf(req[q].out)
        BY <3>3 DEF Agreed, InHand
      <3>5. ASSUME NEW q \in served, NEW p \in served PROVE req[q].status = req[p].status
        <4>1. req[q].out = req[p].out
          BY <3>4 DEF Outcome
        <4> QED
          BY <3>4, <4>1
      <3>6. CASE served = {}
        BY <3>6
      <3>7. CASE served # {}
        <4>1. PICK p \in served : TRUE
          BY <3>7
        <4>2. answers = {req[p].status}
          BY <3>5, <4>1
        <4> QED
          BY <4>2
      <3> QED
        BY <3>6, <3>7
    <2>5. ASSUME Once, Cardinality(users) = 1 PROVE Cardinality(answers) <= 1
      <3>1. CASE answers = {}
        BY <3>1, FS_EmptySet
      <3>2. ASSUME NEW s, answers = {s} PROVE Cardinality(answers) <= 1
        <4>1. Cardinality(answers) = 1
          BY <3>2, FS_Singleton
        <4> QED
          BY <4>1
      <3> QED
        BY <2>4, <2>5, <3>1, <3>2
    <2>6. ASSUME NEW q \in Requests, req[q].at = "done", req[q].found, opRow \notin Errors
          PROVE  req[q].status = StatusOf(opRow)
      BY <2>6 DEF HttpInv, Answers
    <2>7. api.kind # "handler" /\ ~api.readOnly /\ Cardinality(users) = 1 => Cardinality(answers) <= 1
      BY <2>5 DEF Once
    <2>8. /\ users = {req[q].user : q \in {r \in Requests : ~At(r, "absent")}}
          /\ served = {q \in Requests : At(q, "done") /\ (api.bodyArg => req[q].body)}
      BY DEF At
    <2> HIDE DEF users, served
    <2>9. \A q \in Requests :
             At(q, "done") /\ req[q].found /\ opRow \notin Errors => req[q].status = StatusOf(opRow)
      BY <2>6 DEF At
    <2> QED
      BY <2>7, <2>8, <2>9 DEF AnsweredAlike
  <1> QED
    BY <1>1, <1>2, HttpStep, PTL DEF HttpSpec

-----------------------------------------------------------------------------
(* DataValidation, for every value rather than for the samples of the run.   *)

AnyValue(x) ==
    \/ x \in {Undefined, Null, Val("object", 0)}
    \/ \E s : \E t \in {"string", "String", "Date"} : x = Val(t, s)
    \/ \E n \in Int, t \in {"number", "Number", "bigint"} : x = Val(t, n)
    \/ \E b \in BOOLEAN, t \in {"boolean", "Boolean"} : x = Val(t, b)

\* What is left of a value once null is undefined and primitives are unwrapped.
Plain(x) ==
    \/ x = Undefined
    \/ x = Val("object", 0)
    \/ \E s : x = Val("string", s) \/ x = Val("Date", s)
    \/ \E n \in Int : x = Val("number", n) \/ x = Val("bigint", n)
    \/ \E b \in BOOLEAN : x = Val("boolean", b)

\* Every argument of the run is one of the values.
LEMMA SampleValues == \A x \in Values : AnyValue(x)
  <1> SUFFICES ASSUME NEW x \in Values PROVE AnyValue(x)
    OBVIOUS
  <1>1. CASE x \in {Undefined, Null, Val("object", 0)}
    BY <1>1 DEF AnyValue
  <1>2. CASE \E t \in {"string", "String"}, s \in Strings : x = Val(t, s)
    BY <1>2 DEF AnyValue
  <1>3. CASE \E t \in {"number", "Number", "bigint"}, n \in {-10, 0, 2, 4, 5} : x = Val(t, n)
    BY <1>3 DEF AnyValue
  <1>4. CASE \E t \in {"boolean", "Boolean"}, b \in BOOLEAN : x = Val(t, b)
    BY <1>4 DEF AnyValue
  <1>5. CASE \E s \in {"2024-01-01", "later"} : x = Val("Date", s)
    BY <1>5 DEF AnyValue
  <1> QED
    BY <1>1, <1>2, <1>3, <1>4, <1>5 DEF Values

\* Folding leaves a plain value ...
LEMMA FoldedPlain ==
    ASSUME NEW x, AnyValue(x)
    PROVE  Plain(Folded(x))
  <1>1. CASE x \in {Undefined, Null, Val("object", 0)}
    BY <1>1 DEF Folded, Plain, Undefined, Null, Val
  <1>2. ASSUME NEW t \in {"string", "String", "Date"}, NEW s, x = Val(t, s)
        PROVE  Plain(Folded(x))
    BY <1>2 DEF Folded, Plain, Val
  <1>3. ASSUME NEW t \in {"number", "Number", "bigint"}, NEW n \in Int, x = Val(t, n)
        PROVE  Plain(Folded(x))
    BY <1>3 DEF Folded, Plain, Val
  <1>4. ASSUME NEW t \in {"boolean", "Boolean"}, NEW b \in BOOLEAN, x = Val(t, b)
        PROVE  Plain(Folded(x))
    BY <1>4 DEF Folded, Plain, Val
  <1> QED
    BY <1>1, <1>2, <1>3, <1>4 DEF AnyValue

\* ... and leaves a plain value alone.
LEMMA PlainFolds ==
    ASSUME NEW x, Plain(x)
    PROVE  Folded(x) = x
  BY DEF Plain, Folded, Val, Undefined

\* The record folds a value the way validation does: DBOSJSON has null for
\* undefined, and validation has undefined for null.
LEMMA RecordedFolds ==
    ASSUME NEW x, AnyValue(x)
    PROVE  Folded(Recorded(x)) = Folded(x)
  <1>1. CASE x \in {Undefined, Null}
    BY <1>1 DEF Recorded, Folded, Undefined, Null, Val
  <1>2. CASE x \notin {Undefined, Null}
    <2>1. Recorded(x) = Folded(x)
      BY <1>2 DEF Recorded
    <2> QED
      BY <2>1, FoldedPlain, PlainFolds
  <1> QED
    BY <1>1, <1>2

\* Which validation a value goes through.
LEMMA ByType ==
    ASSUME NEW d, NEW x, NEW y, Folded(y) = x, x # Undefined
    PROVE  /\ d.type \in {"text", "varchar"} => validateMethodArg(d, y) = asText(d, x)
           /\ d.type = "boolean" => validateMethodArg(d, y) = asBoolean(x)
           /\ d.type = "decimal" => validateMethodArg(d, y) = asDecimal(d, x)
           /\ d.type \in {"double", "integer"} => validateMethodArg(d, y) = asNumber(d, x)
           /\ d.type = "timestamp" => validateMethodArg(d, y) = asTimestamp(x)
           /\ d.type = "uuid" => validateMethodArg(d, y) = asUuid(x)
           /\ d.type \notin {"text", "varchar", "boolean", "decimal", "double", "integer",
                             "timestamp", "uuid"}
                => validateMethodArg(d, y) = x
  BY DEF validateMethodArg

\* What validation lets through it lets through again, as it is.
LEMMA ValidatedAgain ==
    ASSUME NEW d, NEW x, Plain(x), validateMethodArg(d, x) # Refused
    PROVE  validateMethodArg(d, validateMethodArg(d, x)) = validateMethodArg(d, x)
  <1> DEFINE r == validateMethodArg(d, x)
  <1>0. Folded(x) = x
    BY PlainFolds
  <1>1. CASE x = Undefined
    <2>1. r = x
      BY <1>0, <1>1 DEF validateMethodArg
    <2> QED
      BY <2>1
  <1>2. CASE x # Undefined
    <2>1. CASE d.type \in {"text", "varchar"}
      <3>1. r = x
        BY <1>0, <1>2, <2>1, ByType DEF asText
      <3> QED
        BY <3>1
    <2>2. CASE d.type = "boolean"
      <3>1. r = asBoolean(x)
        BY <1>0, <1>2, <2>2, ByType
      <3>2. \E b \in BOOLEAN : r = Val("boolean", b)
        <4>1. CASE x.t = "boolean"
          BY <3>1, <4>1 DEF asBoolean, Plain, Val, Undefined
        <4>2. CASE x.t = "number" /\ x.v \in {0, 2}
          <5>1. r = Val("boolean", x.v # 0) /\ (x.v # 0) \in BOOLEAN
            BY <3>1, <4>2 DEF asBoolean
          <5> QED
            BY <5>1
        <4>3. CASE x.t = "string" /\ x.v \in Truthy
          <5>1. r = Val("boolean", TRUE)
            BY <3>1, <4>3 DEF asBoolean, Truthy, Falsy
          <5> QED
            BY <5>1
        <4>4. CASE x.t = "string" /\ x.v \in Falsy
          <5>1. r = Val("boolean", FALSE)
            BY <3>1, <4>4 DEF asBoolean, Truthy, Falsy
          <5> QED
            BY <5>1
        <4> QED
          BY <3>1, <4>1, <4>2, <4>3, <4>4 DEF asBoolean
      <3>3. PICK b \in BOOLEAN : r = Val("boolean", b)
        BY <3>2
      <3>4. Folded(r) = r /\ r # Undefined
        BY <3>3 DEF Folded, Val, Undefined
      <3>5. asBoolean(r) = r
        BY <3>3 DEF asBoolean, Val
      <3> HIDE DEF r
      <3>6. validateMethodArg(d, r) = asBoolean(r)
        BY <2>2, <3>4, ByType
      <3> QED
        BY <3>5, <3>6 DEF r
    <2>3. CASE d.type = "decimal"
      <3>1. r = x
        BY <1>0, <1>2, <2>3, ByType DEF asDecimal
      <3> QED
        BY <3>1
    <2>4. CASE d.type \in {"double", "integer"}
      <3>1. r = asNumber(d, x)
        BY <1>0, <1>2, <2>4, ByType
      <3>2. /\ \E n \in Int : r = Val("number", n)
            /\ d.type = "integer" => r.v % 2 = 0
        <4> DEFINE n == CASE x.t = "number" -> x
                          [] x.t = "string" /\ x.v \in DOMAIN Floats -> Val("number", Floats[x.v])
                          [] x.t = "bigint" -> Val("number", x.v)
                          [] OTHER -> Refused
        <4>1. r = IF d.type = "integer" /\ n # Refused /\ n.v % 2 # 0 THEN Refused ELSE n
          BY <3>1 DEF asNumber
        <4>2. \A s \in DOMAIN Floats : Floats[s] \in Int
          BY DEF Floats
        <4>3. n = Refused \/ \E k \in Int : n = Val("number", k)
          <5>1. CASE x.t = "number"
            BY <5>1 DEF Plain, Val, Undefined
          <5>2. CASE x.t = "string" /\ x.v \in DOMAIN Floats
            BY <4>2, <5>2
          <5>3. CASE x.t = "bigint"
            BY <5>3 DEF Plain, Val, Undefined
          <5> QED
            BY <5>1, <5>2, <5>3
        <4> HIDE DEF n
        <4>4. r = n /\ n # Refused /\ (d.type = "integer" => n.v % 2 = 0)
          BY <4>1
        <4> QED
          BY <4>3, <4>4
      <3>3. PICK n \in Int : r = Val("number", n)
        BY <3>2
      <3>4. Folded(r) = r /\ r # Undefined
        BY <3>3 DEF Folded, Val, Undefined
      <3>5. asNumber(d, r) = r
        BY <3>2, <3>3 DEF asNumber, Val
      <3> HIDE DEF r
      <3>6. validateMethodArg(d, r) = asNumber(d, r)
        BY <2>4, <3>4, ByType
      <3> QED
        BY <3>5, <3>6 DEF r
    <2>5. CASE d.type = "timestamp"
      <3>1. r = asTimestamp(x)
        BY <1>0, <1>2, <2>5, ByType
      <3>2. \E s : r = Val("Date", s)
        BY <3>1 DEF asTimestamp, Plain, Val, Undefined
      <3>3. PICK s : r = Val("Date", s)
        BY <3>2
      <3>4. Folded(r) = r /\ r # Undefined
        BY <3>3 DEF Folded, Val, Undefined
      <3>5. asTimestamp(r) = r
        BY <3>3 DEF asTimestamp, Val
      <3> HIDE DEF r
      <3>6. validateMethodArg(d, r) = asTimestamp(r)
        BY <2>5, <3>4, ByType
      <3> QED
        BY <3>5, <3>6 DEF r
    <2>6. CASE d.type = "uuid"
      <3>1. r = x
        BY <1>0, <1>2, <2>6, ByType DEF asUuid
      <3> QED
        BY <3>1
    <2>7. CASE d.type \notin {"text", "varchar", "boolean", "decimal", "double", "integer",
                              "timestamp", "uuid"}
      <3>1. r = x
        BY <1>0, <1>2, <2>7, ByType
      <3> QED
        BY <3>1
    <2> QED
      BY <2>1, <2>2, <2>3, <2>4, <2>5, <2>6, <2>7
  <1> QED
    BY <1>1, <1>2

\* Validation depends on the folded value only.
LEMMA ValidatedFolded ==
    ASSUME NEW d, NEW x, NEW y, Folded(x) = Folded(y)
    PROVE  validateMethodArg(d, x) = validateMethodArg(d, y)
  BY DEF validateMethodArg

\* Whatever the argument and its description: an execution from the recorded inputs,
\* and one whose arguments were validated before, validates like the first one.
THEOREM ArgumentsValidatedAlike ==
    /\ ArgumentInit => AnyValue(passed.x)
    /\ AnyValue(passed.x) => ValidatedAlike
  <1>1. ArgumentInit => AnyValue(passed.x)
    BY SampleValues DEF ArgumentInit
  <1>2. ASSUME AnyValue(passed.x) PROVE ValidatedAlike
    <2> DEFINE d == passed.d
               x == passed.x
               r == validateMethodArg(d, x)
    <2>1. validateMethodArg(d, Recorded(x)) = r
      BY <1>2, RecordedFolds, ValidatedFolded
    <2>2. Plain(Folded(x)) /\ Folded(Folded(x)) = Folded(x)
      BY <1>2, FoldedPlain, PlainFolds
    <2>3. validateMethodArg(d, Folded(x)) = r
      BY <2>2, ValidatedFolded
    <2>4. r # Refused => validateMethodArg(d, r) = r
      BY <2>2, <2>3, ValidatedAgain
    <2> QED
      BY <2>1, <2>4 DEF ValidatedAlike
  <1> QED
    BY <1>1, <1>2

=============================================================================
