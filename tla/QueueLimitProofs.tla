-------------------------- MODULE QueueLimitProofs --------------------------
(***************************************************************************)
(* The limits of a workflow queue, for any number of dispatch loops,       *)
(* workflows, crashes and cancel commands, for as long as rows have        *)
(* appeared in the order of their times (inOrder):                         *)
(* findAndMarkStartableWorkflows has no more than the queue's concurrency  *)
(* of workflows started, and has started no more than limitPerPeriod of    *)
(* them in a period.  The code does not ensure the order, and without it   *)
(* both are false: the theorems say what holds until a row breaks it.      *)
(*                                                                         *)
(* A loop reads the rows in one transaction and marks them later, so a     *)
(* count of what is started says nothing: another loop may mark its own in *)
(* between.  The concurrency holds because a started workflow has fewer    *)
(* than Concurrency older rows (Below), which nothing that happens later   *)
(* can undo, new rows being newer.  The rate holds because two open        *)
(* transactions that both have something to start want the same oldest     *)
(* row (InOrder), so the one that commits first makes the other fail; what *)
(* a transaction that can commit counted is therefore still all there is   *)
(* to count (Counted).                                                     *)
(*                                                                         *)
(* The last section proves, in any order, that what was claimed is not     *)
(* lost: a PENDING workflow is always in some process's hands, if all      *)
(* processes have the same executor ID.                                    *)
(***************************************************************************)
EXTENDS WorkflowQueueProofs, FiniteSetTheorems, NaturalsInduction, WellFoundedInduction

\* Never claimed by a dispatch loop.
Early == {"NONE", "ENQUEUED"}

\* The rows before the row of w that count towards the concurrency limit.
Older(w) == {v \in Open : rows[v].created < rows[w].created}

Below(w) == Cardinality(Older(w)) < Concurrency

\* What an open transaction of e can still claim.
Winnable(e) == Won(e) \ txn[e].dirty

\* The rows that count towards the rate limit at time t.
Recents(t) == {w \in Workflows : rows[w] # NoRow /\ rows[w].started > 0
                                 /\ rows[w].started > t - Period}

\* The types the limits need in addition.
LimitTypes ==
    /\ runs \in [Executors -> [Workflows -> RunStates]]
    /\ todo \in [Executors -> SUBSET Workflows]
    /\ claimed \in [Executors -> Seq(Workflows)]
    /\ startTime \in [Workflows -> Nat]
    /\ \A e \in Executors : txn[e].picked \in Seq(Workflows) /\ txn[e].recent \in Nat

\* A workflow that executes, or is about to, is no longer waiting.
Begun ==
    \A e \in Executors, w \in Workflows :
        \/ runs[e][w] # "none" \/ w \in todo[e]
        \/ \E i \in DOMAIN claimed[e] : claimed[e][i] = w
        => status[w] \notin Early

\* Loops read a clock that does not go back, and do not hold a transaction open
\* for longer than MaxDispatch.
Clocks ==
    /\ clock > 0
    /\ \A e \in Executors :
          /\ now[e] <= clock
          /\ pc[e] \in {"begin", "mark"} => now[e] > 0 /\ clock <= now[e] + MaxDispatch

\* Rows have distinct times, as each appeared when its time was the newest.
Arrivals ==
    /\ \A w \in Workflows : rows[w] # NoRow => rows[w].created <= clock
    /\ \A e \in Executors, w \in Workflows : calls[e][w] = "insert" => insertAt[e][w] <= clock
    /\ \A v, w \in Workflows :
          rows[v] # NoRow /\ rows[w] # NoRow /\ rows[v].created = rows[w].created => v = w

\* A row that was started or given back belongs to a workflow that was claimed.
Settled ==
    \A w \in Workflows :
        rows[w] # NoRow /\ (rows[w].started > 0 \/ rows[w].completed) => status[w] \notin Early

HoldingBelow == \A w \in Holding : Below(w)

\* What an open transaction can claim is in the queue, below the limit ...
PicksBelow(e) == \A w \in Winnable(e) : w \in Open /\ Below(w)

\* ... and so is everything older that waits.
InOrder(e) ==
    \A w \in Winnable(e) : \A v \in Open :
        status[v] = "ENQUEUED" /\ rows[v].created < rows[w].created => v \in Won(e)

\* A transaction that has something to claim and can commit has counted everything.
Counted(e) ==
    Won(e) # {} /\ Won(e) \cap txn[e].dirty = {} =>
        Cardinality(Recents(now[e])) <= txn[e].recent

TxnSafe == \A e \in Executors : pc[e] = "mark" => PicksBelow(e) /\ InOrder(e) /\ Counted(e)

\* A start that can still share a period with a later one is recorded in its row.
StartsRecorded ==
    Limited => \A w \in Workflows : startTime[w] > 0 =>
        \/ startTime[w] + Period - MaxDispatch <= clock
        \/ rows[w] # NoRow /\ rows[w].started > 0
           /\ startTime[w] <= rows[w].started + MaxDispatch

\* The starts in a period that begins at t.
StartsFrom(t) ==
    {w \in Workflows : startTime[w] >= t /\ startTime[w] < t + Period - MaxDispatch}

RateKept == Limited => \A t \in Nat : t > 0 => Cardinality(StartsFrom(t)) <= Limit

LimInv ==
    /\ Inv /\ LimitTypes /\ Begun /\ Clocks /\ Arrivals
    /\ Settled /\ HoldingBelow /\ TxnSafe /\ StartsRecorded /\ RateKept

\* What holds throughout: all of this, until a row appears that is not the newest.
LimInvInOrder == inOrder => LimInv

----------------------------------------------------------------------------
(* Counting.                                                                 *)

\* What is among the first n members of a sequence has at most n members.
LEMMA AmongFirst ==
    ASSUME NEW n \in Nat, NEW s, NEW T, \A x \in T : \E j \in 1 .. n : x = s[j]
    PROVE  IsFiniteSet(T) /\ Cardinality(T) \in Nat /\ Cardinality(T) <= n
  <1> DEFINE I == {s[j] : j \in 1 .. n}
             f == [j \in 1 .. n |-> s[j]]
  <1>1. IsFiniteSet(1 .. n) /\ Cardinality(1 .. n) = n
    BY FS_Interval
  <1>2. f \in Surjection(1 .. n, I)
    BY DEF Surjection
  <1>3. IsFiniteSet(I) /\ Cardinality(I) <= n
    <2> HIDE DEF f, I
    <2> QED
      BY <1>1, <1>2, FS_Surjection
  <1>4. T \in SUBSET I
    OBVIOUS
  <1>5. Cardinality(I) \in Nat
    BY <1>3, FS_CardinalityType
  <1>6. IsFiniteSet(T) /\ Cardinality(T) <= Cardinality(I)
    <2> HIDE DEF I
    <2> QED
      BY <1>3, <1>4, FS_Subset
  <1>7. Cardinality(T) \in Nat
    BY <1>6, FS_CardinalityType
  <1> HIDE DEF I
  <1> QED
    BY <1>3, <1>5, <1>6, <1>7

\* A set that is not empty has a newest member, if its members have distinct times.
LEMMA Newest ==
    ASSUME NEW S, S # {}, NEW h \in Nat, NEW c, \A x \in S : c[x] \in Nat /\ c[x] <= h
    PROVE  \E x \in S : \A y \in S : c[y] <= c[x]
  <1> DEFINE Less == {ss \in Nat \X Nat : ss[1] < ss[2]}
             Ages == {h - c[x] : x \in S}
  <1>1. IsWellFoundedOn(Less, Nat)
    BY NatLessThanWellFounded DEF OpToRel
  <1>2. Ages \in SUBSET Nat /\ Ages # {}
    OBVIOUS
  <1>3. PICK a \in Ages : \A b \in Ages : ~(<<b, a>> \in Less)
    <2> HIDE DEF Less, Ages
    <2> QED
      BY <1>1, <1>2, WFMin
  <1>4. PICK x \in S : a = h - c[x]
    OBVIOUS
  <1>5. ASSUME NEW y \in S PROVE c[y] <= c[x]
    <2>1. h - c[y] \in Nat /\ a \in Nat
      BY <1>2
    <2>2. ~(<<h - c[y], a>> \in Less)
      BY <1>3
    <2>3. ~(h - c[y] < a)
      BY <2>1, <2>2
    <2> QED
      BY <1>4, <2>3
  <1> QED
    BY <1>5

\* A set of workflows is finite, and smaller ones are no larger.
LEMMA Finite ==
    ASSUME NEW T \in SUBSET Workflows
    PROVE  IsFiniteSet(T) /\ Cardinality(T) \in Nat
  BY ConstantsAssumption, FS_Subset, FS_CardinalityType

LEMMA Smaller ==
    ASSUME NEW T \in SUBSET Workflows, NEW S \in SUBSET T
    PROVE  /\ Cardinality(S) \in Nat /\ Cardinality(T) \in Nat
           /\ Cardinality(S) <= Cardinality(T)
  <1>1. IsFiniteSet(T) /\ Cardinality(T) \in Nat /\ Cardinality(S) \in Nat
    BY Finite
  <1> QED
    BY <1>1, FS_Subset

\* The newest of the started workflows has all the others before it: there are at
\* most Concurrency of them.
LEMMA LimitFromBelow ==
    ASSUME Types, Arrivals, HoldingBelow
    PROVE  Cardinality(Holding) <= Concurrency
  <1> DEFINE c == [w \in Workflows |-> rows[w].created]
  <1>1. CASE Holding = {}
    BY <1>1, FS_EmptySet, ConstantsAssumption
  <1>2. CASE Holding # {}
    <2>1. \A w \in Holding : w \in Workflows /\ rows[w] # NoRow /\ w \in Open
      BY DEF Holding, Open
    <2>2. \A w \in Holding : c[w] = rows[w].created /\ c[w] \in Nat /\ c[w] <= clock
      <3>1. ASSUME NEW w \in Holding PROVE rows[w] \in QueueRows /\ rows[w].created <= clock
        BY <2>1 DEF Types, Arrivals
      <3> QED
        BY <2>1, <3>1 DEF QueueRows
    <2>3. clock \in Nat
      BY DEF Types
    <2>4. PICK w \in Holding : \A v \in Holding : c[v] <= c[w]
      <3> HIDE DEF c
      <3> QED
        BY <1>2, <2>2, <2>3, Newest
    <2>4a. /\ \A v \in Holding : rows[v].created \in Nat /\ rows[v].created <= rows[w].created
          /\ rows[w].created \in Nat
      <3> HIDE DEF c
      <3> QED
        BY <2>2, <2>4
    <2>5. ASSUME NEW v \in Holding, v # w PROVE rows[v].created < rows[w].created
      <3>1. rows[v].created # rows[w].created
        BY <2>1, <2>5 DEF Arrivals
      <3> QED
        BY <2>4a, <3>1
    <2>6. Holding \subseteq Older(w) \cup {w}
      BY <2>1, <2>5 DEF Older
    <2>7. Older(w) \subseteq Workflows /\ w \notin Older(w)
      BY <2>4a DEF Older, Open
    <2>8. IsFiniteSet(Older(w)) /\ Cardinality(Older(w)) \in Nat
      BY <2>7, Finite
    <2>9. Cardinality(Older(w) \cup {w}) = Cardinality(Older(w)) + 1
      BY <2>7, <2>8, FS_AddElement
    <2>10. Cardinality(Holding) <= Cardinality(Older(w) \cup {w}) /\ Cardinality(Holding) \in Nat
      BY <2>1, <2>6, <2>7, Smaller
    <2> QED
      BY <2>8, <2>9, <2>10, ConstantsAssumption DEF HoldingBelow, Below
  <1> QED
    BY <1>1, <1>2

\* The rate as the run checks it.
LEMMA RateFromKept ==
    ASSUME Types, RateKept
    PROVE  RateRespected
  BY SMTT(30) DEF Types, RateKept, RateRespected, StartsFrom

----------------------------------------------------------------------------
(* Steps.                                                                    *)

\* What every step leaves of the rows: their times, those of waiting workflows, and
\* that new ones are newer.
RowsKeep ==
    \A w \in Workflows :
        /\ rows[w] # NoRow /\ rows'[w] # NoRow =>
              /\ rows'[w].created = rows[w].created
              /\ rows[w].completed => rows'[w].completed
        /\ rows[w] # NoRow /\ status[w] \in Early =>
              rows'[w] # NoRow /\ (rows'[w].completed => rows[w].completed)
        /\ rows[w] = NoRow /\ rows'[w] # NoRow =>
              \A v \in Workflows : rows[v] # NoRow => rows[v].created < rows'[w].created
        /\ status'[w] \in Early => status[w] \in Early

\* What every step but Mark leaves of the starts: they are added by no other step and
\* removed when they no longer count.
StartsKeep ==
    /\ startTime' = startTime
    /\ \A w \in Workflows :
          /\ rows'[w] # NoRow /\ rows'[w].started > 0 =>
                rows[w] # NoRow /\ rows'[w].started = rows[w].started
          /\ Limited /\ rows[w] # NoRow /\ rows[w].started > 0 =>
                \/ rows'[w] # NoRow /\ rows'[w].started = rows[w].started
                \/ rows[w].started < clock - Period
          /\ rows'[w] # NoRow /\ rows'[w].completed => status[w] \notin Early

\* What the transaction of e has read stays as it was.
TxnKeep(e) ==
    /\ pc[e] = "mark" /\ now'[e] = now[e]
    /\ txn'[e].picked = txn[e].picked /\ txn'[e].waiting = txn[e].waiting
    /\ txn'[e].recent = txn[e].recent /\ txn[e].dirty \subseteq txn'[e].dirty

\* A row never gets more older ones.
LEMMA OlderShrinks ==
    ASSUME Types, Types', RowsKeep, NEW w \in Workflows, rows[w] # NoRow, rows'[w] # NoRow
    PROVE  /\ Older(w)' \subseteq Older(w)
           /\ Below(w) => Below(w)'
  <1>1. ASSUME NEW v \in Older(w)' PROVE v \in Older(w)
    <2>1. v \in Workflows /\ rows'[v] # NoRow /\ ~rows'[v].completed
          /\ rows'[v].created < rows'[w].created
      BY DEF Older, Open
    <2>2. rows'[w].created = rows[w].created
      BY DEF RowsKeep
    <2>3. rows'[v].created \in Nat /\ rows[w].created \in Nat
      BY <2>1 DEF Types, QueueRows
    <2>4. rows[v] # NoRow
      BY <2>1, <2>2, <2>3 DEF RowsKeep
    <2> QED
      BY <2>1, <2>2, <2>4 DEF RowsKeep, Older, Open
  <1>2. Older(w)' \subseteq Older(w) /\ Older(w) \subseteq Workflows
    BY <1>1 DEF Older, Open
  <1>3. /\ Cardinality(Older(w)') <= Cardinality(Older(w))
        /\ Cardinality(Older(w)') \in Nat /\ Cardinality(Older(w)) \in Nat
    BY <1>2, Smaller
  <1>4. Cardinality(Older(w)') = Cardinality(Older(w))'
    OBVIOUS
  <1> QED
    BY <1>2, <1>3, ConstantsAssumption DEF Below

\* What a transaction can claim depends on what it has read.
LEMMA WonKeep ==
    ASSUME NEW e \in Executors, TxnKeep(e)
    PROVE  Won(e)' = Won(e) /\ Winnable(e)' \subseteq Winnable(e)
  <1>1. Reached(e)' = Reached(e)
    BY DEF TxnKeep, Reached
  <1>2. Won(e)' = Won(e)
    BY <1>1 DEF TxnKeep, Won
  <1> QED
    BY <1>2 DEF TxnKeep, Winnable

\* An open transaction that is left alone keeps what makes its claim safe.
LEMMA PicksKeep ==
    ASSUME Inv, Types', RowsKeep, NEW e \in Executors, TxnKeep(e),
           PicksBelow(e) /\ InOrder(e)
    PROVE  PicksBelow(e)' /\ InOrder(e)'
  <1>1. ASSUME NEW w \in Winnable(e)'
        PROVE  /\ w \in Winnable(e) /\ w \in Open /\ w \in Workflows
               /\ rows[w] # NoRow /\ rows'[w] # NoRow /\ Below(w) /\ w \in Open'
    <2>1. w \in Winnable(e) /\ w \in Open
      BY WonKeep DEF PicksBelow
    <2>2. w \in txn[e].waiting /\ w \notin txn[e].dirty
      BY <2>1 DEF Winnable, Won
    <2>3. status[w] \in Early
      BY <2>2 DEF Inv, Fresh, TxnKeep, Early
    <2> QED
      BY <2>1, <2>3 DEF PicksBelow, Open, RowsKeep
  <1>2. PicksBelow(e)'
    <2> SUFFICES ASSUME NEW w \in Winnable(e)' PROVE w \in Open' /\ Below(w)'
      BY DEF PicksBelow
    <2>1. rows[w] # NoRow /\ rows'[w] # NoRow /\ Below(w) /\ w \in Open' /\ w \in Workflows
      BY <1>1
    <2> QED
      BY <2>1, OlderShrinks DEF Inv
  <1>3. InOrder(e)'
    <2> SUFFICES ASSUME NEW w \in Winnable(e)', NEW v \in Open', status'[v] = "ENQUEUED",
                        rows'[v].created < rows'[w].created
                 PROVE  v \in Won(e)'
      BY DEF InOrder
    <2>1. w \in Winnable(e) /\ rows[w] # NoRow /\ rows'[w] # NoRow /\ w \in Workflows
      BY <1>1
    <2>2. v \in Older(w)' /\ v \in Workflows
      BY DEF Older, Open
    <2>3. v \in Older(w)
      BY <2>1, <2>2, OlderShrinks DEF Inv
    <2>4. status[v] = "ENQUEUED"
      BY <2>2, <2>3 DEF RowsKeep, Early, Inv, RowsHaveInputs, Older, Open
    <2>5. v \in Won(e)
      BY <2>1, <2>3, <2>4 DEF InOrder, Older
    <2> QED
      BY <2>5, WonKeep
  <1> QED
    BY <1>2, <1>3

\* It keeps its count too, as long as nothing is started.
LEMMA CountKeep ==
    ASSUME Types, Types', StartsKeep, NEW e \in Executors, TxnKeep(e), Counted(e),
           txn[e].recent \in Nat
    PROVE  Counted(e)'
  <1> SUFFICES ASSUME Won(e)' # {}, Won(e)' \cap txn'[e].dirty = {}
               PROVE  Cardinality(Recents(now[e])') <= txn'[e].recent
    BY DEF TxnKeep, Counted, Recents
  <1>1. Cardinality(Recents(now[e])) <= txn[e].recent
    BY WonKeep DEF Counted, TxnKeep
  <1>2. Recents(now[e])' \subseteq Recents(now[e])
    BY DEF TxnKeep, StartsKeep, Recents, Types, QueueRows
  <1>3. Recents(now[e]) \subseteq Workflows
    BY DEF Recents
  <1>4. /\ Cardinality(Recents(now[e])') <= Cardinality(Recents(now[e]))
        /\ Cardinality(Recents(now[e])') \in Nat /\ Cardinality(Recents(now[e])) \in Nat
    BY <1>2, <1>3, Smaller
  <1> QED
    BY <1>1, <1>4 DEF TxnKeep

\* A started workflow stays below the limit, whatever happens to the rows.
LEMMA HoldingKeep ==
    ASSUME Types, Types', RowsKeep, HoldingBelow, StartsKeep
    PROVE  HoldingBelow'
  <1> SUFFICES ASSUME NEW w \in Holding' PROVE Below(w)'
    BY DEF HoldingBelow
  <1>1. w \in Workflows /\ rows'[w] # NoRow /\ rows[w] # NoRow /\ w \in Holding
    BY DEF Holding, Open, StartsKeep, RowsKeep
  <1> QED
    BY <1>1, OlderShrinks DEF HoldingBelow

\* The starts stay recorded for as long as they count.
LEMMA RecordKeep ==
    ASSUME Types, Types', StartsKeep, StartsRecorded, startTime \in [Workflows -> Nat],
           clock <= clock'
    PROVE  StartsRecorded'
  <1> SUFFICES ASSUME Limited, NEW w \in Workflows, startTime'[w] > 0
               PROVE  \/ startTime'[w] + Period - MaxDispatch <= clock'
                      \/ rows'[w] # NoRow /\ rows'[w].started > 0
                         /\ startTime'[w] <= rows'[w].started + MaxDispatch
    BY DEF StartsRecorded
  <1>1. startTime'[w] = startTime[w] /\ startTime[w] \in Nat /\ clock \in Nat /\ clock' \in Nat
    BY DEF StartsKeep, Types
  <1>2. CASE startTime[w] + Period - MaxDispatch <= clock
    BY <1>1, <1>2, ConstantsAssumption
  <1>3. CASE rows[w] # NoRow /\ rows[w].started > 0
             /\ startTime[w] <= rows[w].started + MaxDispatch
    <2>1. rows[w].started \in Nat
      BY <1>3 DEF Types, QueueRows
    <2>2. CASE rows'[w] # NoRow /\ rows'[w].started = rows[w].started
      BY <1>1, <1>3, <2>2
    <2>3. CASE rows[w].started < clock - Period
      BY <1>1, <1>3, <2>1, <2>3, ConstantsAssumption
    <2> QED
      BY <1>3, <2>2, <2>3 DEF StartsKeep
  <1> QED
    BY <1>1, <1>2, <1>3 DEF StartsRecorded

\* A step that claims nothing preserves the invariant: it remains to see of each what
\* it does to the executions, the clock and the arrival of rows.
LEMMA CalmInv ==
    ASSUME LimInv, Inv', LimitTypes', Begun', Clocks', Arrivals', clock <= clock',
           RowsKeep, StartsKeep,
           \A e \in Executors : pc'[e] = "mark" =>
               TxnKeep(e) \/ (PicksBelow(e)' /\ InOrder(e)' /\ Counted(e)')
    PROVE  LimInv'
  <1>0. Types /\ Types' /\ Inv
    BY DEF LimInv, Inv
  <1>1. Settled'
    BY DEF LimInv, Settled, RowsKeep, StartsKeep
  <1>2. HoldingBelow'
    BY <1>0, HoldingKeep DEF LimInv
  <1>3. TxnSafe'
    <2> SUFFICES ASSUME NEW e \in Executors, pc'[e] = "mark", TxnKeep(e)
                 PROVE  PicksBelow(e)' /\ InOrder(e)' /\ Counted(e)'
      BY DEF TxnSafe
    <2>1. PicksBelow(e) /\ InOrder(e) /\ Counted(e) /\ txn[e].recent \in Nat
      BY DEF LimInv, TxnSafe, TxnKeep, LimitTypes
    <2> QED
      BY <1>0, <2>1, PicksKeep, CountKeep
  <1>4. StartsRecorded'
    BY <1>0, RecordKeep DEF LimInv, LimitTypes
  <1>5. RateKept'
    BY DEF LimInv, RateKept, StartsFrom, StartsKeep
  <1> QED
    BY <1>1, <1>2, <1>3, <1>4, <1>5 DEF LimInv

----------------------------------------------------------------------------
(* The steps that claim nothing.                                             *)

\* Rows that are left alone are kept.
LEMMA SameRows ==
    ASSUME LimInv, rows' = rows, startTime' = startTime,
           \A w \in Workflows : status'[w] \in Early => status[w] \in Early
    PROVE  RowsKeep /\ StartsKeep
  <1>1. RowsKeep
    BY DEF RowsKeep
  <1>2. StartsKeep
    BY DEF LimInv, Settled, StartsKeep
  <1> QED
    BY <1>1, <1>2

\* So is their order, when no row and no insertion is added.
LEMMA ArrivalsKeep ==
    ASSUME Types, Types', Arrivals, clock <= clock',
           \A w \in Workflows : rows'[w] # NoRow =>
               rows[w] # NoRow /\ rows'[w].created = rows[w].created,
           \A e \in Executors, w \in Workflows : calls'[e][w] = "insert" =>
               calls[e][w] = "insert" /\ insertAt'[e][w] = insertAt[e][w]
    PROVE  Arrivals'
  <1>1. clock \in Nat /\ clock' \in Nat
    BY DEF Types
  <1>2. \A w \in Workflows : rows'[w] # NoRow => rows'[w].created \in Nat
    BY DEF Types, QueueRows
  <1>3. \A e \in Executors, w \in Workflows : insertAt[e][w] \in Nat
    BY DEF Types
  <1>4. \A w \in Workflows : rows'[w] # NoRow => rows'[w].created <= clock'
    BY <1>1, <1>2 DEF Arrivals
  <1>5. \A e \in Executors, w \in Workflows : calls'[e][w] = "insert" =>
          insertAt'[e][w] <= clock'
    BY <1>1, <1>2, <1>3 DEF Arrivals
  <1>6. \A v, w \in Workflows :
          rows'[v] # NoRow /\ rows'[w] # NoRow /\ rows'[v].created = rows'[w].created => v = w
    BY DEF Arrivals
  <1> QED
    BY <1>4, <1>5, <1>6 DEF Arrivals

\* The transactions that are open when a status row is written.
LEMMA TouchedKeep ==
    ASSUME Types, NEW ws, txn' = Touched(ws), NEW e \in Executors
    PROVE  /\ txn'[e].picked = txn[e].picked /\ txn'[e].recent = txn[e].recent
           /\ pc[e] = "mark" /\ now'[e] = now[e] => TxnKeep(e)
  <1>1. txn[e] = [f \in TxnFields |-> txn[e][f]]
    BY DEF Types
  <1>2. txn'[e] = IF pc[e] = "mark"
                  THEN [txn[e] EXCEPT !.dirty = @ \cup (ws \cap txn[e].waiting)] ELSE txn[e]
    BY DEF Touched
  <1> QED
    BY <1>1, <1>2 DEF TxnKeep, TxnFields

\* A transaction that nothing touches.
LEMMA SameTxn ==
    ASSUME NEW e \in Executors, txn'[e] = txn[e], now'[e] = now[e], pc[e] = "mark"
    PROVE  TxnKeep(e)
  BY DEF TxnKeep

\* What a process that goes down leaves.
LEMMA LostKeep ==
    ASSUME LimInv, NEW e \in Executors, Lost(e), UNCHANGED <<rows, clock, startTime>>,
           \A w \in Workflows : status'[w] \in Early => status[w] \in Early, Inv'
    PROVE  LimInv'
  <1>0. Types /\ Types'
    BY DEF LimInv, Inv
  <1>1. LimitTypes'
    BY <1>0 DEF LimInv, LimitTypes, Lost, NoTxn, RunStates, Types
  <1>2. Begun'
    BY <1>0 DEF LimInv, LimitTypes, Begun, Lost, Types
  <1>3. Clocks'
    BY <1>0 DEF LimInv, Clocks, Lost, Types
  <1>4. Arrivals'
    <2>1. clock <= clock'
      BY <1>0 DEF Types
    <2>2. \A x \in Executors, w \in Workflows : calls'[x][w] = "insert" =>
               calls[x][w] = "insert" /\ insertAt'[x][w] = insertAt[x][w]
      BY <1>0 DEF Lost, Types
    <2> QED
      BY <1>0, <2>1, <2>2, ArrivalsKeep DEF LimInv
  <1>5. RowsKeep /\ StartsKeep
    BY SameRows
  <1>6. \A x \in Executors : pc'[x] = "mark" => TxnKeep(x)
    BY <1>0, SameTxn DEF Lost, Types
  <1> QED
    BY <1>0, <1>1, <1>2, <1>3, <1>4, <1>5, <1>6, CalmInv DEF Types

\* A step that leaves the rows, the insertions and the clock alone.
LEMMA StillInv ==
    ASSUME LimInv, Inv', LimitTypes', Begun', Clocks', UNCHANGED <<rows, clock, startTime>>,
           \A w \in Workflows : status'[w] \in Early => status[w] \in Early,
           \A e \in Executors, w \in Workflows : calls'[e][w] = "insert" =>
               calls[e][w] = "insert" /\ insertAt'[e][w] = insertAt[e][w],
           \A e \in Executors : pc'[e] = "mark" => TxnKeep(e)
    PROVE  LimInv'
  <1>0. Types /\ Types' /\ clock <= clock'
    BY DEF LimInv, Inv, Types
  <1>1. Arrivals'
    BY <1>0, ArrivalsKeep DEF LimInv
  <1>2. RowsKeep /\ StartsKeep
    BY SameRows
  <1> QED
    BY <1>0, <1>1, <1>2, CalmInv

\* A step that, besides, leaves the loops where they are and the executions alone.
LEMMA WriteLim ==
    ASSUME LimInv, Inv',
           UNCHANGED <<rows, clock, startTime, pc, now, runs, todo, claimed>>,
           txn' = txn \/ \E ws : txn' = Touched(ws),
           \A w \in Workflows : status'[w] \in Early => status[w] \in Early,
           \A e \in Executors, w \in Workflows : calls'[e][w] = "insert" =>
               calls[e][w] = "insert" /\ insertAt'[e][w] = insertAt[e][w]
    PROVE  LimInv'
  <1>0. Types
    BY DEF LimInv, Inv
  <1>1. \A e \in Executors : txn'[e].picked = txn[e].picked /\ txn'[e].recent = txn[e].recent
    BY <1>0, TouchedKeep
  <1>2. LimitTypes'
    BY <1>1 DEF LimInv, LimitTypes
  <1>3. Begun' /\ Clocks'
    BY DEF LimInv, Begun, Clocks
  <1>4. \A e \in Executors : pc'[e] = "mark" => TxnKeep(e)
    BY <1>0, TouchedKeep, SameTxn
  <1> QED
    BY <1>2, <1>3, <1>4, StillInv

\* The statements of startWorkflow.
LEMMA CallLim ==
    ASSUME inOrder', LimInv, Inv', NEW e \in Executors, NEW w \in Workflows, Call(e, w)
    PROVE  LimInv'
  <1>0. Types /\ Types'
    BY DEF LimInv, Inv
  <1>1. CASE InitStatus(e, w)
    <2>1. \A v \in Workflows : status'[v] \in Early => status[v] \in Early
      BY <1>0, <1>1 DEF InitStatus, StatusAfterInit, Types, Early
    <2>2. \A x \in Executors, v \in Workflows : calls'[x][v] = "insert" =>
               calls[x][v] = "insert" /\ insertAt'[x][v] = insertAt[x][v]
      BY <1>0, <1>1 DEF InitStatus, Types
    <2>3. \E ws : txn' = Touched(ws)
      BY <1>1 DEF InitStatus
    <2> QED
      BY <1>1, <2>1, <2>2, <2>3, WriteLim DEF InitStatus, history
  <1>2. CASE InitInputs(e, w)
    <2>1. \A x \in Executors, v \in Workflows : calls'[x][v] = "insert" =>
               calls[x][v] = "insert" /\ insertAt'[x][v] = insertAt[x][v]
      BY <1>0, <1>2 DEF InitInputs, Types
    <2> QED
      BY <1>2, <2>1, WriteLim DEF InitInputs, loopVars, history
  <1>3. CASE InsertBegin(e, w)
    <2>1. Arrivals'
      <3>1. insertAt'[e][w] = clock /\ clock' = clock /\ rows' = rows /\ clock \in Nat
        BY <1>0, <1>3 DEF InsertBegin, Types, dbVars
      <3>2. \A x \in Executors, v \in Workflows : x # e \/ v # w =>
               calls'[x][v] = calls[x][v] /\ insertAt'[x][v] = insertAt[x][v]
        BY <1>0, <1>3 DEF InsertBegin, Types
      <3> QED
        BY <3>1, <3>2 DEF LimInv, Arrivals
    <2>2. LimitTypes' /\ Begun' /\ Clocks' /\ clock <= clock'
      BY <1>0, <1>3 DEF InsertBegin, LimInv, LimitTypes, Begun, Clocks, Types, dbVars,
                        loopVars, history
    <2>3. RowsKeep /\ StartsKeep
      BY <1>3, SameRows DEF InsertBegin, dbVars, history
    <2>4. \A x \in Executors : pc'[x] = "mark" => TxnKeep(x)
      BY <1>3, SameTxn DEF InsertBegin, loopVars
    <2> QED
      BY <2>1, <2>2, <2>3, <2>4, CalmInv
  <1>4. CASE InsertCommit(e, w)
    <2>1. /\ calls[e][w] = "insert" /\ clock' = clock /\ status' = status
          /\ \A v \in Workflows : v # w => rows'[v] = rows[v]
          /\ rows[w] # NoRow => rows'[w] = rows[w]
          /\ rows[w] = NoRow => rows'[w] = QueueRow(e, w)
          /\ rows[w] = NoRow => rows'[w].created = insertAt[e][w] /\ rows'[w].started = 0
                                /\ ~rows'[w].completed
      BY <1>0, <1>4 DEF InsertCommit, Types, QueueRow
    <2>2. \A x \in Executors, v \in Workflows : calls'[x][v] = "insert" =>
             calls[x][v] = "insert" /\ insertAt'[x][v] = insertAt[x][v]
      BY <1>0, <1>4 DEF InsertCommit, Types
    <2>3. /\ insertAt[e][w] <= clock
          /\ rows[w] = NoRow =>
                \A v \in Workflows : rows[v] # NoRow => rows[v].created < insertAt[e][w]
      BY <1>4, <2>1 DEF LimInv, Arrivals, InsertCommit
    <2>4. Arrivals'
      <3>1. \A v \in Workflows : rows'[v] # NoRow => rows'[v].created <= clock'
        BY <2>1, <2>3 DEF LimInv, Arrivals
      <3>2. ASSUME NEW v \in Workflows, NEW u \in Workflows, rows'[v] # NoRow,
                   rows'[u] # NoRow, rows'[v].created = rows'[u].created
            PROVE  v = u
        <4>1. \A x \in Workflows : rows[x] # NoRow => rows[x].created \in Nat
          BY <1>0 DEF Types, QueueRows
        <4>2. insertAt[e][w] \in Nat
          BY <1>0 DEF Types
        <4> QED
          BY <2>1, <2>3, <3>2, <4>1, <4>2 DEF LimInv, Arrivals
      <3>3. \A x \in Executors, v \in Workflows : calls'[x][v] = "insert" => insertAt'[x][v] <= clock'
        BY <2>1, <2>2 DEF LimInv, Arrivals
      <3> QED
        BY <3>1, <3>2, <3>3 DEF Arrivals
    <2>5. LimitTypes' /\ Begun' /\ Clocks' /\ clock <= clock'
      BY <1>0, <1>4 DEF InsertCommit, LimInv, LimitTypes, Begun, Clocks, Types,
                        loopVars, history
    <2>6. RowsKeep
      BY <2>1, <2>3 DEF RowsKeep
    <2>7. StartsKeep
      <3>1. startTime' = startTime
        BY <1>4 DEF InsertCommit, history
      <3> QED
        BY <2>1, <3>1 DEF StartsKeep, LimInv, Settled
    <2>8. \A x \in Executors : pc'[x] = "mark" => TxnKeep(x)
      BY <1>4, SameTxn DEF InsertCommit, loopVars
    <2> QED
      BY <2>4, <2>5, <2>6, <2>7, <2>8, CalmInv
  <1> QED
    BY <1>1, <1>2, <1>3, <1>4 DEF Call

\* A step of an execution that leaves the rows alone: executions only begin where
\* there was one to begin.
LEMMA RunLim ==
    ASSUME LimInv, Inv', UNCHANGED <<rows, clock, startTime, pc, now, calls, insertAt>>,
           txn' = txn \/ \E ws : txn' = Touched(ws),
           runs' \in [Executors -> [Workflows -> RunStates]],
           todo' \in [Executors -> SUBSET Workflows],
           claimed' \in [Executors -> Seq(Workflows)],
           \A w \in Workflows : status'[w] \in Early => status[w] \in Early,
           \A e \in Executors, w \in Workflows :
               \/ runs'[e][w] # "none" \/ w \in todo'[e]
               \/ \E i \in DOMAIN claimed'[e] : claimed'[e][i] = w
               => status[w] \notin Early
    PROVE  LimInv'
  <1>0. Types
    BY DEF LimInv, Inv
  <1>1. \A e \in Executors : txn'[e].picked = txn[e].picked /\ txn'[e].recent = txn[e].recent
    BY <1>0, TouchedKeep
  <1>2. LimitTypes'
    BY <1>1 DEF LimInv, LimitTypes
  <1>3. Begun'
    BY DEF Begun
  <1>4. Clocks'
    BY DEF LimInv, Clocks
  <1>5. \A e \in Executors : pc'[e] = "mark" => TxnKeep(e)
    BY <1>0, TouchedKeep, SameTxn
  <1> QED
    BY <1>2, <1>3, <1>4, <1>5, StillInv

\* Giving a row back.
LEMMA DequeueLim ==
    ASSUME LimInv, Inv', NEW e \in Executors, NEW w \in Workflows, Succeed(e, w) \/ Fail(e, w)
    PROVE  LimInv'
  <1>0. Types /\ Types'
    BY DEF LimInv, Inv
  <1>1. /\ runs[e][w] = "running" /\ rows' = Dequeued(w)
        /\ runs' = [runs EXCEPT ![e][w] = "buffered"] \/ runs' = [runs EXCEPT ![e][w] = "failed"]
        /\ UNCHANGED <<status, clock, pc, now, txn, claimed, todo, calls, insertAt, startTime>>
    BY DEF Succeed, Fail, loopVars, callVars, history
  <1>2. status[w] \notin Early
    BY <1>1 DEF LimInv, Begun
  <1>3. /\ \A v \in Workflows : v # w => rows'[v] = rows[v]
        /\ rows[w] = NoRow => rows'[w] = NoRow
        /\ rows[w] # NoRow /\ Limited => rows'[w] = [rows[w] EXCEPT !.completed = TRUE]
        /\ ~Limited => rows'[w] = NoRow
    BY <1>0, <1>1 DEF Dequeued, Types
  <1>4. rows'[w] # NoRow => /\ rows[w] # NoRow /\ Limited /\ rows'[w].completed
                            /\ rows'[w].created = rows[w].created
                            /\ rows'[w].started = rows[w].started
    BY <1>0, <1>3 DEF Types, QueueRows
  <1>5. RowsKeep
    BY <1>1, <1>2, <1>3, <1>4 DEF RowsKeep
  <1>6. StartsKeep
    <2>1. Limited /\ rows[w] # NoRow => rows'[w] # NoRow
      <3>1. ASSUME Limited, rows[w] # NoRow PROVE rows'[w] \in QueueRows
        <4>1. rows[w] \in QueueRows
          BY <1>0, <3>1 DEF Types
        <4>2. rows'[w] = [rows[w] EXCEPT !.completed = TRUE]
          BY <1>3, <3>1
        <4> QED
          BY <4>1, <4>2 DEF QueueRows
      <3>2. NoRow \notin QueueRows
        BY ConstantsAssumption DEF QueueRows
      <3> QED
        BY <3>1, <3>2
    <2> QED
      BY <1>1, <1>2, <1>3, <1>4, <2>1 DEF StartsKeep, LimInv, Settled
  <1>7. LimitTypes' /\ Begun'
    <2>1. PICK r \in RunStates : runs' = [runs EXCEPT ![e][w] = r]
      BY <1>1 DEF RunStates
    <2>2. LimitTypes'
      BY <1>1, <2>1 DEF LimInv, LimitTypes
    <2>3. Begun'
      BY <1>1, <1>2, <2>1 DEF LimInv, LimitTypes, Begun
    <2> QED
      BY <2>2, <2>3
  <1>8. Clocks' /\ clock <= clock'
    BY <1>0, <1>1 DEF LimInv, Clocks, Types
  <1>9. Arrivals'
    <2>1. \A v \in Workflows : rows'[v] # NoRow =>
               rows[v] # NoRow /\ rows'[v].created = rows[v].created
      BY <1>3, <1>4
    <2> QED
      BY <1>0, <1>1, <1>8, <2>1, ArrivalsKeep DEF LimInv
  <1>10. \A x \in Executors : pc'[x] = "mark" => TxnKeep(x)
    BY <1>1, SameTxn
  <1> QED
    BY <1>5, <1>6, <1>7, <1>8, <1>9, <1>10, CalmInv

\* Executions.
LEMMA ExecuteLim ==
    ASSUME LimInv, Inv', NEW e \in Executors, NEW w \in Workflows,
           Execute(e, w) \/ Conflict(e, w)
    PROVE  LimInv'
  <1>0. Types /\ LimitTypes /\ Begun
    BY DEF LimInv, Inv
  <1>1. CASE DeadLetter(e, w)
    <2>1. \A v \in Workflows : status'[v] \in Early => status[v] \in Early
      BY <1>0, <1>1 DEF DeadLetter, DeadLetterStatus, Types, Early
    <2>2. CASE pc[e] = "start"
      BY <1>1, <2>1, <2>2, LostKeep DEF DeadLetter, history
    <2>3. CASE pc[e] = "recover"
      <3>1. /\ runs' = [runs EXCEPT ![e][w] = "none"] /\ txn' = Touched({w})
            /\ UNCHANGED <<rows, clock, startTime, pc, now, claimed, todo, calls, insertAt>>
        BY <1>1, <2>3 DEF DeadLetter, history
      <3>2. runs' \in [Executors -> [Workflows -> RunStates]]
        BY <1>0, <3>1 DEF LimitTypes, RunStates
      <3>3. \A x \in Executors, v \in Workflows : runs'[x][v] # "none" => runs[x][v] # "none"
        BY <1>0, <3>1 DEF LimitTypes
      <3> QED
        BY <1>0, <2>1, <3>1, <3>2, <3>3, RunLim DEF LimitTypes, Begun
    <2> QED
      BY <1>1, <2>2, <2>3 DEF DeadLetter
  <1>2. CASE Succeed(e, w) \/ Fail(e, w)
    BY <1>2, DequeueLim
  <1>3. CASE FlushStatus(e, w) \/ RecordError(e, w) \/ PollReturns(e, w) \/ Conflict(e, w)
    <2>1. /\ runs' = [runs EXCEPT ![e][w] = "none"] \/ runs' = [runs EXCEPT ![e][w] = "polling"]
          /\ runs[e][w] # "none"
          /\ txn' = txn \/ txn' = Touched({w})
          /\ UNCHANGED <<rows, clock, startTime, pc, now, claimed, todo, calls, insertAt>>
      BY <1>3 DEF FlushStatus, RecordError, PollReturns, Conflict, dbVars, loopVars,
                  callVars, history
    <2>2. \/ status' = status \/ status' = [status EXCEPT ![w] = "SUCCESS"]
          \/ status' = [status EXCEPT ![w] = "ERROR"]
      BY <1>3 DEF FlushStatus, RecordError, PollReturns, Conflict, dbVars
    <2>3. \A v \in Workflows : status'[v] \in Early => status[v] \in Early
      BY <1>0, <2>2 DEF Types, Early
    <2>r. PICK r \in RunStates : runs' = [runs EXCEPT ![e][w] = r]
      BY <2>1 DEF RunStates
    <2>4. runs' \in [Executors -> [Workflows -> RunStates]]
      BY <1>0, <2>r DEF LimitTypes
    <2>5. \A x \in Executors, v \in Workflows : runs'[x][v] # "none" => runs[x][v] # "none"
      BY <1>0, <2>1, <2>r DEF LimitTypes
    <2> QED
      BY <1>0, <2>1, <2>3, <2>4, <2>5, RunLim DEF LimitTypes, Begun
  <1> QED
    BY <1>1, <1>2, <1>3 DEF Execute

\* Beginning to execute a workflow that was claimed or found pending.
LEMMA BeginLim ==
    ASSUME LimInv, Inv', NEW e \in Executors, NEW w \in Workflows, Begins(e, w),
           status[w] \notin Early,
           UNCHANGED <<status, rows, clock, startTime, pc, now, calls, insertAt>>,
           todo' \in [Executors -> SUBSET Workflows],
           claimed' \in [Executors -> Seq(Workflows)],
           \A x \in Executors, v \in Workflows :
               \/ v \in todo'[x] \/ \E i \in DOMAIN claimed'[x] : claimed'[x][i] = v
               => status[v] \notin Early
    PROVE  LimInv'
  <1>0. LimitTypes /\ Begun
    BY DEF LimInv
  <1>1. PICK r \in RunStates : runs' = [runs EXCEPT ![e][w] = r]
    BY DEF Begins, RunStates
  <1>2. runs' \in [Executors -> [Workflows -> RunStates]]
    BY <1>0, <1>1 DEF LimitTypes
  <1>3. \A x \in Executors, v \in Workflows : runs'[x][v] # "none" => status[v] \notin Early
    BY <1>0, <1>1 DEF LimitTypes, Begun
  <1>4. \E ws : txn' = Touched(ws)
    BY DEF Begins
  <1> QED
    BY <1>2, <1>3, <1>4, RunLim

\* A step that moves a loop and leaves everything else alone.
LEMMA MoveLim ==
    ASSUME LimInv, Inv', Clocks',
           UNCHANGED <<status, rows, clock, startTime, txn, claimed, runs, calls, insertAt>>,
           todo' \in [Executors -> SUBSET Workflows],
           \A e \in Executors : \A w \in todo'[e] : status[w] \notin Early,
           \A e \in Executors : pc'[e] = "mark" => pc[e] = "mark" /\ now'[e] = now[e]
    PROVE  LimInv'
  <1>1. LimitTypes' /\ Begun'
    BY DEF LimInv, LimitTypes, Begun
  <1>2. \A e \in Executors : pc'[e] = "mark" => TxnKeep(e)
    BY SameTxn
  <1> QED
    BY <1>1, <1>2, StillInv

\* The dispatch loop, but for its transaction.
LEMMA LoopLim ==
    ASSUME LimInv, Inv', NEW e \in Executors,
           Wake(e) \/ MarkFails(e) \/ Collect(e) \/ StartClaimed(e) \/ Sleep(e)
    PROVE  LimInv'
  <1>0. Types /\ Types' /\ LimitTypes /\ Begun /\ Clocks
    BY DEF LimInv, Inv
  <1>t. /\ todo \in [Executors -> SUBSET Workflows]
        /\ \A x \in Executors : \A w \in todo[x] : w \in Workflows /\ status[w] \notin Early
    BY <1>0 DEF LimitTypes, Begun
  <1>1. CASE Wake(e)
    <2>1. Clocks'
      BY <1>0, <1>1, ConstantsAssumption DEF Wake, Clocks, Types
    <2>2. \A x \in Executors : pc'[x] = "mark" => pc[x] = "mark" /\ now'[x] = now[x]
      BY <1>0, <1>1 DEF Wake, Types
    <2> QED
      BY <1>1, <1>t, <2>1, <2>2, MoveLim DEF Wake, dbVars, callVars, history
  <1>2. CASE MarkFails(e)
    BY <1>2, LostKeep DEF MarkFails, dbVars, history
  <1>3. CASE Collect(e)
    <2>1. /\ \A w \in Workflows : rows'[w] = IF Collectable(e, w) THEN NoRow ELSE rows[w]
          /\ UNCHANGED <<status, clock, txn, claimed, todo, runs, calls, insertAt, startTime>>
      BY <1>3 DEF Collect, callVars, history
    <2>2. RowsKeep
      <3>1. \A w \in Workflows : Collectable(e, w) => status[w] \notin Early
        BY DEF LimInv, Settled, Collectable
      <3> QED
        BY <2>1, <3>1 DEF RowsKeep
    <2>3. StartsKeep
      <3>1. ASSUME NEW w \in Workflows, Collectable(e, w)
            PROVE  rows[w].started < clock - Period
        <4>1. rows[w] # NoRow /\ rows[w].started < now[e] - Period
          BY <3>1 DEF Collectable
        <4>2. rows[w].started \in Nat /\ now[e] \in Nat /\ clock \in Nat /\ now[e] <= clock
          BY <1>0, <4>1 DEF Types, QueueRows, Clocks
        <4> QED
          BY <4>1, <4>2, ConstantsAssumption
      <3> QED
        BY <2>1, <3>1 DEF StartsKeep, LimInv, Settled
    <2>4. LimitTypes' /\ Begun'
      BY <1>0, <2>1 DEF LimitTypes, Begun
    <2>5. Clocks' /\ clock <= clock'
      BY <1>0, <1>3 DEF Collect, Clocks, Types
    <2>6. Arrivals'
      BY <1>0, <2>1, <2>5, ArrivalsKeep DEF LimInv
    <2>7. \A x \in Executors : pc'[x] = "mark" => TxnKeep(x)
      BY <1>0, <1>3, SameTxn DEF Collect, Types
    <2> QED
      BY <2>2, <2>3, <2>4, <2>5, <2>6, <2>7, CalmInv
  <1>4. CASE StartClaimed(e)
    <2> DEFINE w == Head(claimed[e])
    <2>1. claimed[e] \in Seq(Workflows) /\ claimed[e] # <<>>
      BY <1>0, <1>4 DEF LimitTypes, StartClaimed
    <2>2. /\ w \in Workflows /\ 1 \in DOMAIN claimed[e] /\ claimed[e][1] = w
          /\ Tail(claimed[e]) \in Seq(Workflows)
          /\ \A i \in DOMAIN Tail(claimed[e]) :
                i + 1 \in DOMAIN claimed[e] /\ Tail(claimed[e])[i] = claimed[e][i + 1]
      BY <2>1
    <2>3. status[w] \notin Early
      BY <1>0, <2>2 DEF Begun
    <2>4. claimed' = [claimed EXCEPT ![e] = Tail(claimed[e])] /\ todo' = todo
      BY <1>4 DEF StartClaimed
    <2>5. claimed' \in [Executors -> Seq(Workflows)]
      BY <1>0, <2>2, <2>4 DEF LimitTypes
    <2>6. ASSUME NEW x \in Executors, NEW v \in Workflows,
                 \E i \in DOMAIN claimed'[x] : claimed'[x][i] = v
          PROVE  status[v] \notin Early
      <3>1. CASE x = e
        BY <1>0, <2>2, <2>4, <2>6, <3>1 DEF Begun, LimitTypes
      <3>2. CASE x # e
        BY <1>0, <2>4, <2>6, <3>2 DEF Begun, LimitTypes
      <3> QED
        BY <3>1, <3>2
    <2>7. Begins(e, w) /\ UNCHANGED <<status, rows, clock, startTime, pc, now, calls, insertAt>>
      BY <1>4 DEF StartClaimed, callVars, history
    <2> HIDE DEF w
    <2> QED
      BY <1>t, <2>2, <2>3, <2>4, <2>5, <2>6, <2>7, BeginLim
  <1>5. CASE Sleep(e)
    <2>1. Clocks'
      BY <1>0, <1>5 DEF Sleep, Clocks, Types
    <2>2. \A x \in Executors : pc'[x] = "mark" => pc[x] = "mark" /\ now'[x] = now[x]
      BY <1>0, <1>5 DEF Sleep, Types
    <2> QED
      BY <1>5, <1>t, <2>1, <2>2, MoveLim DEF Sleep, dbVars, callVars, history
  <1> QED
    BY <1>1, <1>2, <1>3, <1>4, <1>5

\* Start-up, crashes, cancel commands and the clock.
LEMMA ProcessLim ==
    ASSUME LimInv, Inv', \/ \E e \in Executors : StartUp(e) \/ Crash(e)
                         \/ \E w \in Workflows : Cancel(w)
                         \/ Tick
    PROVE  LimInv'
  <1>0. Types /\ Types' /\ LimitTypes /\ Begun /\ Clocks
    BY DEF LimInv, Inv
  <1>t. /\ todo \in [Executors -> SUBSET Workflows]
        /\ \A x \in Executors : \A w \in todo[x] : w \in Workflows /\ status[w] \notin Early
    BY <1>0 DEF LimitTypes, Begun
  <1>1. CASE \E e \in Executors : Restart(e)
    <2>1. PICK e \in Executors : Restart(e)
      BY <1>1
    <2>2. /\ todo' \in [Executors -> SUBSET Workflows]
          /\ \A x \in Executors : \A w \in todo'[x] : status[w] \notin Early
      BY <1>t, <2>1 DEF Restart, Early
    <2>3. Clocks'
      BY <1>0, <2>1 DEF Restart, Clocks, Types
    <2>4. \A x \in Executors : pc'[x] = "mark" => pc[x] = "mark" /\ now'[x] = now[x]
      BY <1>0, <2>1 DEF Restart, Types
    <2> QED
      BY <2>1, <2>2, <2>3, <2>4, MoveLim DEF Restart, dbVars, callVars, history
  <1>2. CASE \E e \in Executors, w \in Workflows : Recover(e, w)
    <2>1. PICK e \in Executors, w \in Workflows : Recover(e, w)
      BY <1>2
    <2>2. status[w] \notin Early /\ todo' = [todo EXCEPT ![e] = @ \ {w}] /\ claimed' = claimed
      BY <1>t, <2>1 DEF Recover
    <2>3. /\ todo' \in [Executors -> SUBSET Workflows]
          /\ \A x \in Executors : todo'[x] \subseteq todo[x]
      BY <1>t, <2>2
    <2> QED
      BY ZenonT(30), <1>0, <2>1, <2>2, <2>3, BeginLim DEF Recover, LimitTypes, Begun, callVars, history
  <1>3. CASE \E e \in Executors : Recovered(e)
    <2>1. PICK e \in Executors : Recovered(e)
      BY <1>3
    <2>2. Clocks'
      BY <1>0, <2>1 DEF Recovered, Clocks, Types
    <2>3. \A x \in Executors : pc'[x] = "mark" => pc[x] = "mark" /\ now'[x] = now[x]
      BY <1>0, <2>1 DEF Recovered, Types
    <2> QED
      BY <1>t, <2>1, <2>2, <2>3, MoveLim DEF Recovered, dbVars, callVars, history
  <1>4. CASE \E e \in Executors : Crash(e)
    BY <1>4, LostKeep DEF Crash, dbVars, history
  <1>5. CASE \E w \in Workflows : Cancel(w)
    <2>1. PICK w \in Workflows : Cancel(w)
      BY <1>5
    <2>2. \A v \in Workflows : status'[v] \in Early => status[v] \in Early
      BY <1>0, <2>1 DEF Cancel, Types, Early
    <2>3. \E ws : txn' = Touched(ws)
      BY <2>1 DEF Cancel
    <2> QED
      BY <2>1, <2>2, <2>3, WriteLim DEF Cancel, callVars, history
  <1>6. CASE Tick
    <2>1. /\ clock' = clock + 1 /\ clock \in Nat
          /\ UNCHANGED <<status, rows, startTime, pc, now, txn, claimed, todo, runs, calls,
                         insertAt>>
      BY <1>0, <1>6 DEF Tick, Types, dbVars, loopVars, callVars, history
    <2>2. clock <= clock'
      BY <2>1
    <2>3. Clocks'
      <3>1. \A e \in Executors : now[e] \in Nat
        BY <1>0 DEF Types
      <3>2. \A e \in Executors : pc[e] \in {"begin", "mark"} => clock - now[e] < MaxDispatch
        BY <1>6 DEF Tick
      <3> QED
        BY <1>0, <2>1, <3>1, <3>2, ConstantsAssumption DEF Clocks
    <2>4. LimitTypes' /\ Begun'
      BY <1>0, <2>1 DEF LimitTypes, Begun
    <2>5. Arrivals'
      BY <1>0, <2>1, <2>2, ArrivalsKeep DEF LimInv
    <2>6. RowsKeep /\ StartsKeep
      BY <2>1, SameRows
    <2>7. \A x \in Executors : pc'[x] = "mark" => TxnKeep(x)
      BY <2>1, SameTxn
    <2> QED
      BY <2>2, <2>3, <2>4, <2>5, <2>6, <2>7, CalmInv
  <1> QED
    BY <1>1, <1>2, <1>3, <1>4, <1>5, <1>6 DEF StartUp

----------------------------------------------------------------------------
(* What the transaction reads.                                               *)

\* The first n members of a sequence.
LEMMA FirstFacts ==
    ASSUME NEW S, NEW s \in Seq(S), NEW n \in Int
    PROVE  /\ First(s, n) \in Seq(S)
           /\ \A i : i \in DOMAIN First(s, n) <=> i \in DOMAIN s /\ i <= n
           /\ \A i \in DOMAIN First(s, n) : First(s, n)[i] = s[i]
  <1> DEFINE m == IF n < Len(s) THEN n ELSE Len(s)
  <1>1. Len(s) \in Nat /\ DOMAIN s = 1 .. Len(s) /\ m \in Int /\ m <= Len(s)
    OBVIOUS
  <1>2. First(s, n) = [i \in 1 .. m |-> s[i]]
    BY <1>1 DEF First
  <1>3. \A i \in 1 .. m : i \in 1 .. Len(s) /\ s[i] \in S
    BY <1>1
  <1>4. First(s, n) \in Seq(S)
    <2>1. CASE m \in Nat
      BY <1>2, <1>3, <2>1
    <2>2. CASE m < 0
      <3>1. First(s, n) = << >>
        BY <1>1, <1>2, <2>2
      <3> QED
        BY <3>1
    <2> QED
      BY <1>1, <2>1, <2>2
  <1> QED
    BY <1>1, <1>2, <1>4

\* A function from a set as large as its range that takes no value twice takes
\* every value.
LEMMA TakesAll ==
    ASSUME NEW n \in Nat, NEW T, IsFiniteSet(T), Cardinality(T) <= n, NEW f \in [1 .. n -> T],
           \A i, j \in 1 .. n : i < j => f[i] # f[j]
    PROVE  \A x \in T : \E i \in 1 .. n : f[i] = x
  <1> SUFFICES ASSUME NEW x \in T, \A i \in 1 .. n : f[i] # x PROVE FALSE
    OBVIOUS
  <1>1. f \in [1 .. n -> T \ {x}]
    OBVIOUS
  <1>2. IsFiniteSet(1 .. n) /\ Cardinality(1 .. n) = n
    BY FS_Interval
  <1>3. IsFiniteSet(T \ {x}) /\ Cardinality(T \ {x}) = Cardinality(T) - 1
    BY FS_RemoveElement
  <1>4. Cardinality(T \ {x}) < Cardinality(1 .. n)
    BY <1>2, <1>3, FS_CardinalityType
  <1>5. \E i, j \in 1 .. n : i # j /\ f[i] = f[j]
    BY <1>1, <1>2, <1>3, <1>4, FS_PigeonHole
  <1> QED
    BY <1>5

LEMMA SomePositions ==
    ASSUME NEW n \in Nat, NEW K \in SUBSET (1 .. n)
    PROVE  IsFiniteSet(K) /\ Cardinality(K) \in Nat
  <1>1. IsFiniteSet(1 .. n)
    BY FS_Interval
  <1>2. IsFiniteSet(K)
    BY <1>1, FS_Subset
  <1> QED
    BY <1>2, FS_CardinalityType

\* Filtering keeps members of the sequence that are in the set ...
LEMMA FilteredType ==
    ASSUME NEW r \in Seq(Workflows), NEW S, NEW t \in Filtered(r, S)
    PROVE  /\ t \in Seq(Workflows)
           /\ \A i \in DOMAIN t : \E k \in DOMAIN r : t[i] = r[k] /\ r[k] \in S
  <1> DEFINE kept == {i \in DOMAIN r : r[i] \in S}
  <1>1. kept \subseteq 1 .. Len(r) /\ Len(r) \in Nat
    OBVIOUS
  <1>2. IsFiniteSet(kept) /\ Cardinality(kept) \in Nat
    <2> HIDE DEF kept
    <2> QED
      BY <1>1, SomePositions
  <1>3. t \in [1 .. Cardinality(kept) -> {r[i] : i \in kept}]
    BY DEF Filtered
  <1>4. \A i \in DOMAIN t : \E k \in DOMAIN r : t[i] = r[k] /\ r[k] \in S
    BY <1>3
  <1>5. t \in [1 .. Cardinality(kept) -> Workflows]
    BY <1>3
  <1>6. t \in Seq(Workflows)
    <2> HIDE DEF kept
    <2> QED
      BY <1>2, <1>5
  <1> QED
    BY <1>4, <1>6

\* ... all of them, in their order, if the sequence repeats nothing.
LEMMA FilteredAll ==
    ASSUME NEW r \in Seq(Workflows), NEW S, NEW t \in Filtered(r, S),
           \A i, j \in DOMAIN r : i < j => r[i] # r[j]
    PROVE  /\ \A k \in DOMAIN r : r[k] \in S => \E i \in DOMAIN t : t[i] = r[k]
           /\ \A i, j \in DOMAIN t : i < j =>
                 \E k, l \in DOMAIN r : k < l /\ t[i] = r[k] /\ t[j] = r[l]
  <1> DEFINE kept == {i \in DOMAIN r : r[i] \in S}
             n == Cardinality(kept)
             T == {r[i] : i \in kept}
             g == [i \in kept |-> r[i]]
  <1>1. kept \subseteq 1 .. Len(r) /\ Len(r) \in Nat
    OBVIOUS
  <1>2. IsFiniteSet(kept) /\ n \in Nat
    <2> HIDE DEF kept
    <2> QED
      BY <1>1, SomePositions
  <1>3. t \in [1 .. n -> T]
    BY DEF Filtered
  <1>3a. \A i, j \in DOMAIN t : i < j =>
            \E k, l \in kept : k < l /\ t[i] = r[k] /\ t[j] = r[l]
    BY DEF Filtered
  <1>4. IsFiniteSet(T) /\ Cardinality(T) <= n
    <2>1. g \in Surjection(kept, T)
      BY DEF Surjection
    <2> HIDE DEF g, T, kept
    <2> QED
      BY <1>2, <2>1, FS_Surjection
  <1>5. \A i, j \in 1 .. n : i < j => t[i] # t[j]
    <2> HIDE DEF n
    <2> QED
      BY <1>3, <1>3a
  <1>6. \A x \in T : \E i \in 1 .. n : t[i] = x
    <2> HIDE DEF T, n, kept
    <2> QED
      BY <1>2, <1>3, <1>4, <1>5, TakesAll
  <1>7. DOMAIN t = 1 .. n
    BY <1>3
  <1> HIDE DEF n
  <1>8. ASSUME NEW k \in DOMAIN r, r[k] \in S PROVE \E i \in DOMAIN t : t[i] = r[k]
    <2>1. r[k] \in T
      BY <1>8
    <2> HIDE DEF T
    <2> QED
      BY <1>6, <1>7, <2>1
  <1>9. \A i, j \in DOMAIN t : i < j =>
           \E k, l \in DOMAIN r : k < l /\ t[i] = r[k] /\ t[j] = r[l]
    BY <1>3a
  <1> QED
    BY <1>8, <1>9

\* Open rows sorted: all of them, and a position bounds the number of older ones.
LEMMA OldestFacts ==
    ASSUME Types, NEW s \in OldestFirst
    PROVE  /\ s \in Seq(Workflows)
           /\ \A i, j \in DOMAIN s : i < j => s[i] # s[j]
           /\ \A i \in DOMAIN s : s[i] \in Open
           /\ \A i \in DOMAIN s, v \in Open : rows[v].created < rows[s[i]].created =>
                 \E j \in DOMAIN s : j < i /\ s[j] = v
           /\ \A i \in DOMAIN s : i <= Concurrency => Below(s[i])
  <1> DEFINE n == Cardinality(Open)
  <1>0. Open \subseteq Workflows /\ \A v \in Open : rows[v].created \in Nat
    BY DEF Open, Types, QueueRows
  <1>1. IsFiniteSet(Open) /\ n \in Nat
    BY <1>0, Finite
  <1>2. s \in [1 .. n -> Open] /\ Sorted(s)
    BY DEF OldestFirst
  <1>3. DOMAIN s = 1 .. n /\ \A i \in 1 .. n : s[i] \in Open
    BY <1>2
  <1> HIDE DEF n
  <1>4. s \in Seq(Workflows)
    BY <1>0, <1>1, <1>2
  <1>5. \A i, j \in 1 .. n : i < j => s[i] # s[j] /\ rows[s[i]].created <= rows[s[j]].created
    BY <1>2, <1>3 DEF Sorted
  <1>6. \A v \in Open : \E j \in 1 .. n : s[j] = v
    BY <1>1, <1>2, <1>5, TakesAll DEF n
  <1>7. ASSUME NEW i \in 1 .. n, NEW v \in Open, rows[v].created < rows[s[i]].created
        PROVE  \E j \in 1 .. n : j < i /\ s[j] = v
    <2>1. PICK j \in 1 .. n : s[j] = v
      BY <1>6
    <2>2. rows[s[i]].created \in Nat /\ rows[v].created \in Nat
      BY <1>0, <1>3
    <2>3. ~(i < j) /\ i # j
      BY <1>5, <1>7, <2>1, <2>2
    <2> QED
      BY <1>1, <2>1, <2>3
  <1>8. ASSUME NEW i \in 1 .. n, i <= Concurrency PROVE Below(s[i])
    <2>1. i - 1 \in Nat /\ \A x \in Older(s[i]) : \E j \in 1 .. (i - 1) : x = s[j]
      BY <1>1, <1>7 DEF Older
    <2>2. Cardinality(Older(s[i])) \in Nat /\ Cardinality(Older(s[i])) <= i - 1
      BY <2>1, AmongFirst
    <2> QED
      BY <1>1, <1>8, <2>2, ConstantsAssumption DEF Below
  <1> QED
    BY <1>3, <1>4, <1>5, <1>7, <1>8

\* What the transaction will try to claim: waiting rows of the oldest Concurrency
\* ones, each after the older ones that have not been started.
LEMMA StartableFacts ==
    ASSUME Types, NEW s \in OldestFirst, NEW t \in Startable(s)
    PROVE  /\ t \in Seq(Workflows)
           /\ \A i \in DOMAIN t : t[i] \in Open /\ Below(t[i])
           /\ \A i \in DOMAIN t, v \in Unstarted : rows[v].created < rows[t[i]].created =>
                 \E j \in DOMAIN t : j < i /\ t[j] = v
           /\ \A i, j \in DOMAIN t : i < j => t[i] # t[j]
  <1> DEFINE r == First(s, Concurrency)
  <1>0. Concurrency \in Int /\ t \in Filtered(r, Unstarted)
    BY ConstantsAssumption DEF Startable
  <1>1. /\ s \in Seq(Workflows)
        /\ \A i, j \in DOMAIN s : i < j => s[i] # s[j]
        /\ \A i \in DOMAIN s : s[i] \in Open
        /\ \A i \in DOMAIN s, v \in Open : rows[v].created < rows[s[i]].created =>
              \E j \in DOMAIN s : j < i /\ s[j] = v
        /\ \A i \in DOMAIN s : i <= Concurrency => Below(s[i])
    BY OldestFacts
  <1>2. /\ r \in Seq(Workflows)
        /\ \A i : i \in DOMAIN r <=> i \in DOMAIN s /\ i <= Concurrency
        /\ \A i \in DOMAIN r : r[i] = s[i]
    <2>1. s \in Seq(Workflows) /\ Concurrency \in Int
      BY <1>0, <1>1
    <2> QED
      BY ONLY <2>1, FirstFacts
  <1> HIDE DEF r
  <1>3. \A i, j \in DOMAIN r : i < j => r[i] # r[j]
    BY <1>1, <1>2
  <1>4. /\ t \in Seq(Workflows)
        /\ \A i \in DOMAIN t : \E k \in DOMAIN r : t[i] = r[k] /\ r[k] \in Unstarted
    BY <1>0, <1>2, FilteredType
  <1>5. /\ \A k \in DOMAIN r : r[k] \in Unstarted => \E i \in DOMAIN t : t[i] = r[k]
        /\ \A i, j \in DOMAIN t : i < j =>
              \E k, l \in DOMAIN r : k < l /\ t[i] = r[k] /\ t[j] = r[l]
    BY <1>0, <1>2, <1>3, FilteredAll
  <1>6. \A i \in DOMAIN t : t[i] \in Open /\ Below(t[i])
    BY <1>1, <1>2, <1>4
  <1>7. ASSUME NEW i \in DOMAIN t, NEW v \in Unstarted, rows[v].created < rows[t[i]].created
        PROVE  \E j \in DOMAIN t : j < i /\ t[j] = v
    <2>0. v \in Open /\ rows[v].created \in Nat /\ rows[t[i]].created \in Nat
      BY <1>6 DEF Unstarted, Open, Types, QueueRows
    <2>1. PICK k \in DOMAIN r : t[i] = r[k]
      BY <1>4
    <2>2. PICK l \in DOMAIN s : l < k /\ s[l] = v
      BY <1>1, <1>2, <1>7, <2>0, <2>1
    <2>3. l \in DOMAIN r /\ r[l] = v
      <3>1. DOMAIN s = 1 .. Len(s) /\ Len(s) \in Nat
        BY <1>1
      <3>2. k \in DOMAIN s /\ k <= Concurrency
        BY <1>2
      <3>3. l <= Concurrency
        BY <1>0, <2>2, <3>1, <3>2
      <3> QED
        BY <1>2, <2>2, <3>3
    <2>4. PICK j \in DOMAIN t : t[j] = v
      BY <1>5, <2>3
    <2>5. i # j
      BY <1>7, <2>0, <2>4
    <2>6. ~(i < j)
      <3> SUFFICES ASSUME i < j PROVE FALSE
        OBVIOUS
      <3>1. PICK a \in DOMAIN r, b \in DOMAIN r : a < b /\ t[i] = r[a] /\ t[j] = r[b]
        BY <1>5
      <3>2. a = k /\ b = l
        <4>1. \A x, y \in DOMAIN r : r[x] = r[y] => x = y
          <5>1. DOMAIN r = 1 .. Len(r) /\ Len(r) \in Nat
            BY <1>2
          <5> QED
            BY <1>3, <5>1
        <4> QED
          BY <2>1, <2>3, <2>4, <3>1, <4>1
      <3> QED
        BY <1>2, <2>2, <3>1, <3>2
    <2>7. i \in Int /\ j \in Int
      BY <1>4
    <2> QED
      BY <2>4, <2>5, <2>6, <2>7
  <1>8. \A i, j \in DOMAIN t : i < j => t[i] # t[j]
    BY <1>3, <1>5
  <1> QED
    BY <1>4, <1>6, <1>7, <1>8

\* The transaction reads: what it can claim from now on is safe to claim.
LEMMA SnapshotLim ==
    ASSUME LimInv, Inv', NEW e \in Executors, Snapshot(e)
    PROVE  LimInv'
  <1> DEFINE n == RecentlyStarted(now[e])
  <1>0. Types /\ Types' /\ LimitTypes
    BY DEF LimInv, Inv
  <1>1. /\ UNCHANGED <<status, rows, clock, now, claimed, todo, runs, calls, insertAt, startTime>>
        /\ pc' = [pc EXCEPT ![e] = "mark"]
    BY DEF Snapshot, dbVars, callVars, history
  <1>2. PICK s \in OldestFirst : \E ids \in IF OutOfBudget(n) THEN {<<>>} ELSE Startable(s) :
                txn' = [txn EXCEPT ![e] =
                          [picked  |-> ids,
                           waiting |-> {w \in Workflows : status[w] = "ENQUEUED"},
                           recent  |-> n,
                           dirty   |-> {}]]
    BY DEF Snapshot
  <1>3. PICK ids \in IF OutOfBudget(n) THEN {<<>>} ELSE Startable(s) :
                txn' = [txn EXCEPT ![e] =
                          [picked  |-> ids,
                           waiting |-> {w \in Workflows : status[w] = "ENQUEUED"},
                           recent  |-> n,
                           dirty   |-> {}]]
    BY <1>2
  <1>4. /\ txn'[e].picked = ids /\ txn'[e].recent = n /\ txn'[e].dirty = {}
        /\ txn'[e].waiting = {w \in Workflows : status[w] = "ENQUEUED"}
        /\ \A x \in Executors : x # e => txn'[x] = txn[x]
    BY <1>0, <1>3 DEF Types
  <1>5. n = Cardinality(Recents(now[e])) /\ n \in Nat
    <2>1. Recents(now[e]) \subseteq Workflows
      BY DEF Recents
    <2> QED
      BY <2>1, Finite DEF RecentlyStarted, Recents
  <1>6. /\ ids \in Seq(Workflows)
        /\ \A i \in DOMAIN ids : ids[i] \in Open /\ Below(ids[i])
        /\ \A i \in DOMAIN ids, v \in Unstarted : rows[v].created < rows[ids[i]].created =>
              \E j \in DOMAIN ids : j < i /\ ids[j] = v
    <2>1. CASE OutOfBudget(n)
      <3>1. ids = << >>
        BY <1>3, <2>1
      <3> QED
        BY <3>1
    <2>2. CASE ids \in Startable(s)
      BY <1>0, <2>2, StartableFacts
    <2> QED
      BY <1>3, <2>1, <2>2
  <1> HIDE DEF n
  <1>7. /\ DOMAIN Reached(e)' \subseteq DOMAIN ids
        /\ \A i \in DOMAIN Reached(e)' : Reached(e)'[i] = ids[i]
        /\ \A i \in DOMAIN Reached(e)', j \in DOMAIN ids : j < i => j \in DOMAIN Reached(e)'
    <2>1. CASE ~Limited
      BY <1>4, <2>1 DEF Reached
    <2>2. CASE Limited
      <3>1. Reached(e)' = First(ids, Limit - n)
        BY <1>4, <2>2 DEF Reached
      <3>2. Limit - n \in Int
        BY <1>5, ConstantsAssumption
      <3>3. /\ \A i : i \in DOMAIN First(ids, Limit - n) <=> i \in DOMAIN ids /\ i <= Limit - n
            /\ \A i \in DOMAIN First(ids, Limit - n) : First(ids, Limit - n)[i] = ids[i]
        BY <1>6, <3>2, FirstFacts
      <3>4. \A i \in DOMAIN ids : i \in Int
        BY <1>6
      <3> QED
        BY <3>1, <3>2, <3>3, <3>4
    <2> QED
      BY <2>1, <2>2
  <1>8. /\ \A w \in Won(e)' : w \in Workflows /\ \E i \in DOMAIN Reached(e)' : ids[i] = w
        /\ \A i \in DOMAIN Reached(e)' : status[ids[i]] = "ENQUEUED" => ids[i] \in Won(e)'
    <2>1. \A i \in DOMAIN Reached(e)' : ids[i] \in Workflows
      BY <1>6, <1>7
    <2> QED
      BY <1>4, <1>7, <2>1 DEF Won
  <1>9. PicksBelow(e)'
    <2> SUFFICES ASSUME NEW w \in Winnable(e)' PROVE w \in Open' /\ Below(w)'
      BY DEF PicksBelow
    <2>1. w \in Open /\ Below(w)
      BY <1>6, <1>7, <1>8 DEF Winnable
    <2> QED
      BY <1>1, <2>1 DEF Open, Below, Older
  <1>10. InOrder(e)'
    <2> SUFFICES ASSUME NEW w \in Winnable(e)', NEW v \in Open', status'[v] = "ENQUEUED",
                        rows'[v].created < rows'[w].created
                 PROVE  v \in Won(e)'
      BY DEF InOrder
    <2>1. PICK i \in DOMAIN Reached(e)' : ids[i] = w
      BY <1>8 DEF Winnable
    <2>2. v \in Open /\ status[v] = "ENQUEUED" /\ rows[v].created < rows[ids[i]].created
      BY <1>1, <2>1 DEF Open
    <2>3. v \in Unstarted
      <3>1. v \in Workflows /\ rows[v] # NoRow /\ rows[v].started \in Nat
        BY <1>0, <2>2 DEF Open, Types, QueueRows
      <3>2. ~(rows[v].started > 0)
        BY <2>2, <3>1 DEF LimInv, Settled, Early
      <3> QED
        BY <2>2, <3>1, <3>2 DEF Unstarted
    <2>4. PICK j \in DOMAIN ids : j < i /\ ids[j] = v
      BY <1>6, <1>7, <2>2, <2>3
    <2>5. j \in DOMAIN Reached(e)'
      BY <1>7, <2>4
    <2> QED
      BY <1>8, <2>2, <2>4, <2>5
  <1>11. Counted(e)'
    <2>1. Recents(now[e])' = Recents(now[e])
      BY <1>1 DEF Recents
    <2>2. Cardinality(Recents(now[e]))' = n
      BY <1>5, <2>1
    <2> QED
      BY <1>1, <1>4, <1>5, <2>2 DEF Counted, Recents
  <1>12. \A x \in Executors : pc'[x] = "mark" =>
            TxnKeep(x) \/ (PicksBelow(x)' /\ InOrder(x)' /\ Counted(x)')
    <2> SUFFICES ASSUME NEW x \in Executors, pc'[x] = "mark", x # e PROVE TxnKeep(x)
      BY <1>9, <1>10, <1>11
    <2>1. pc[x] = "mark"
      BY <1>0, <1>1 DEF Types
    <2> QED
      BY <1>1, <1>4, <2>1, SameTxn
  <1>13. LimitTypes'
    <2>1. \A x \in Executors : txn'[x].picked \in Seq(Workflows) /\ txn'[x].recent \in Nat
      BY <1>0, <1>4, <1>5, <1>6 DEF LimitTypes
    <2> QED
      BY <1>0, <1>1, <2>1 DEF LimitTypes
  <1>14. Begun'
    BY <1>1 DEF LimInv, Begun
  <1>15. Clocks' /\ clock <= clock'
    <2>1. pc[e] = "begin"
      BY DEF Snapshot
    <2> QED
      BY <1>0, <1>1, <2>1 DEF LimInv, Clocks, Types
  <1>16. Arrivals'
    BY <1>0, <1>1, <1>15, ArrivalsKeep DEF LimInv
  <1>17. RowsKeep /\ StartsKeep
    BY <1>1, SameRows
  <1> QED
    BY <1>12, <1>13, <1>14, <1>15, <1>16, <1>17, CalmInv

----------------------------------------------------------------------------
(* What the transaction claims.                                              *)

\* The rows the loop over workflowIDs gets to.
LEMMA ReachedFacts ==
    ASSUME LimitTypes, NEW e \in Executors
    PROVE  /\ Reached(e) \in Seq(Workflows)
           /\ Limited => \A i \in DOMAIN Reached(e) : i \in Nat /\ i > 0 /\ i <= Limit - txn[e].recent
  <1>1. txn[e].picked \in Seq(Workflows) /\ Limit - txn[e].recent \in Int
    BY ConstantsAssumption DEF LimitTypes
  <1>2. CASE Limited
    <2>1. Reached(e) = First(txn[e].picked, Limit - txn[e].recent)
      BY <1>2 DEF Reached
    <2>2. /\ First(txn[e].picked, Limit - txn[e].recent) \in Seq(Workflows)
          /\ \A i : i \in DOMAIN First(txn[e].picked, Limit - txn[e].recent) <=>
                i \in DOMAIN txn[e].picked /\ i <= Limit - txn[e].recent
      BY <1>1, FirstFacts
    <2>3. \A i \in DOMAIN txn[e].picked : i \in Nat /\ i > 0
      BY <1>1
    <2> QED
      BY <2>1, <2>2, <2>3
  <1>3. CASE ~Limited
    BY <1>1, <1>3 DEF Reached
  <1> QED
    BY <1>2, <1>3

\* The loop stops when the starts left in the period are used up.
LEMMA WonFew ==
    ASSUME LimitTypes, NEW e \in Executors, Limited, Won(e) # {}
    PROVE  /\ Cardinality(Won(e)) \in Nat /\ IsFiniteSet(Won(e))
           /\ Cardinality(Won(e)) <= Limit - txn[e].recent
  <1> DEFINE m == Limit - txn[e].recent
  <1>1. \A i \in DOMAIN Reached(e) : i \in Nat /\ i > 0 /\ i <= m
    BY ReachedFacts
  <1>2. m \in Int
    BY ConstantsAssumption DEF LimitTypes
  <1>3. \A w \in Won(e) : \E i \in DOMAIN Reached(e) : w = Reached(e)[i]
    BY DEF Won
  <1> HIDE DEF m
  <1>4. m \in Nat
    BY <1>1, <1>2, <1>3
  <1>5. \A w \in Won(e) : \E i \in 1 .. m : w = Reached(e)[i]
    BY <1>1, <1>3, <1>4
  <1>6. IsFiniteSet(Won(e)) /\ Cardinality(Won(e)) \in Nat /\ Cardinality(Won(e)) <= m
    BY <1>4, <1>5, AmongFirst
  <1> QED
    BY <1>6 DEF m

\* Two open transactions that have something to claim want the same oldest row: when
\* one commits, the other can no longer.
LEMMA OneCommits ==
    ASSUME LimInv, NEW e \in Executors, NEW x \in Executors, pc[e] = "mark", pc[x] = "mark",
           Won(e) # {}, Won(e) \cap txn[e].dirty = {}, Won(x) # {}
    PROVE  Won(x) \cap (txn[x].dirty \cup (Won(e) \cap txn[x].waiting)) # {}
  <1> SUFFICES ASSUME Won(x) \cap (txn[x].dirty \cup (Won(e) \cap txn[x].waiting)) = {}
               PROVE  FALSE
    OBVIOUS
  <1>1. PICK a \in Won(e) : TRUE
    OBVIOUS
  <1>2. PICK b \in Won(x) : TRUE
    OBVIOUS
  <1>3. a \in Winnable(e) /\ b \in Winnable(x)
    BY DEF Winnable
  <1>4. \A w \in Won(x) : w \in txn[x].waiting /\ w \notin Won(e)
    BY DEF Won
  <1>5. /\ a \in Open /\ a \in Workflows /\ rows[a] # NoRow
        /\ b \in Open /\ b \in Workflows /\ rows[b] # NoRow
    BY <1>3 DEF LimInv, TxnSafe, PicksBelow, Open
  <1>6. status[a] = "ENQUEUED" /\ status[b] = "ENQUEUED"
    BY <1>3 DEF LimInv, Inv, Fresh, Winnable, Won
  <1>7. InOrder(e) /\ InOrder(x)
    BY DEF LimInv, TxnSafe
  <1>8. CASE rows[a].created < rows[b].created
    <2>1. a \in Won(x)
      BY <1>3, <1>5, <1>6, <1>7, <1>8 DEF InOrder
    <2> QED
      BY <1>4, <2>1
  <1>9. CASE rows[b].created < rows[a].created
    <2>1. b \in Won(e)
      BY <1>3, <1>5, <1>6, <1>7, <1>9 DEF InOrder
    <2> QED
      BY <1>4, <2>1
  <1>10. CASE rows[a].created = rows[b].created
    <2>1. a = b
      BY <1>5, <1>10 DEF LimInv, Arrivals
    <2> QED
      BY <1>4, <2>1
  <1>11. rows[a].created \in Nat /\ rows[b].created \in Nat
    BY <1>5 DEF LimInv, Inv, Types, QueueRows
  <1> QED
    BY <1>8, <1>9, <1>10, <1>11

\* A commit keeps the rate: what shares a period with it was counted, or is claimed
\* with it.
LEMMA RateMark ==
    ASSUME LimInv, NEW e \in Executors, pc[e] = "mark", Limited,
           Won(e) \cap txn[e].dirty = {}, Won(e) \subseteq Workflows,
           startTime' = [w \in Workflows |-> IF w \in Won(e) THEN clock ELSE startTime[w]]
    PROVE  RateKept'
  <1> SUFFICES ASSUME NEW t \in Nat, t > 0 PROVE Cardinality(StartsFrom(t)') <= Limit
    BY DEF RateKept
  <1>0. /\ Types /\ LimitTypes /\ StartsRecorded /\ Clocks /\ Counted(e)
        /\ startTime \in [Workflows -> Nat] /\ clock \in Nat /\ now[e] \in Nat
        /\ now[e] <= clock /\ Limit \in Nat /\ Period \in Nat /\ MaxDispatch \in Nat
    BY ConstantsAssumption DEF LimInv, Inv, Types, LimitTypes, TxnSafe, Clocks
  <1>1. /\ StartsFrom(t) \subseteq Workflows
        /\ Cardinality(StartsFrom(t)) <= Limit
    BY DEF LimInv, RateKept, StartsFrom
  <1>2. CASE Won(e) = {} \/ ~(t <= clock /\ clock < t + Period - MaxDispatch)
    <2>1. StartsFrom(t)' \subseteq StartsFrom(t)
      BY <1>0, <1>2 DEF StartsFrom
    <2>2. /\ Cardinality(StartsFrom(t)') <= Cardinality(StartsFrom(t))
          /\ Cardinality(StartsFrom(t)') \in Nat /\ Cardinality(StartsFrom(t)) \in Nat
      BY <1>1, <2>1, Smaller
    <2> QED
      BY <1>0, <1>1, <2>2
  <1>3. CASE Won(e) # {} /\ t <= clock /\ clock < t + Period - MaxDispatch
    <2> DEFINE R == Recents(now[e])
               W == Won(e)
    <2>1. ASSUME NEW v \in StartsFrom(t)', v \notin W PROVE v \in R
      <3>1. v \in Workflows /\ startTime[v] \in Nat /\ startTime[v] >= t
        BY <1>0, <2>1 DEF StartsFrom
      <3>2. startTime[v] > 0 /\ ~(startTime[v] + Period - MaxDispatch <= clock)
        BY <1>0, <1>3, <3>1
      <3>3. /\ rows[v] # NoRow /\ rows[v].started > 0
            /\ startTime[v] <= rows[v].started + MaxDispatch
        BY <1>0, <3>1, <3>2 DEF StartsRecorded
      <3>4. rows[v].started \in Nat
        BY <1>0, <3>1, <3>3 DEF Types, QueueRows
      <3>5. rows[v].started > now[e] - Period
        BY <1>0, <3>1, <3>2, <3>3, <3>4
      <3> QED
        BY <3>1, <3>3, <3>5 DEF Recents
    <2>2. R \subseteq Workflows /\ W \subseteq Workflows
      BY DEF Recents
    <2>3. Cardinality(R) <= txn[e].recent /\ txn[e].recent \in Nat
      BY <1>0, <1>3 DEF Counted, LimitTypes
    <2>4. Cardinality(W) \in Nat /\ Cardinality(W) <= Limit - txn[e].recent
      BY <1>0, <1>3, WonFew
    <2> HIDE DEF R, W
    <2>5. IsFiniteSet(R) /\ IsFiniteSet(W) /\ Cardinality(R) \in Nat
      BY <2>2, Finite
    <2>6. IsFiniteSet(R \cap W) /\ Cardinality(R \cap W) \in Nat
      BY <2>2, Finite
    <2>7. Cardinality(R \cup W) = Cardinality(R) + Cardinality(W) - Cardinality(R \cap W)
      BY <2>5, FS_Union
    <2>8. StartsFrom(t)' \subseteq R \cup W /\ R \cup W \subseteq Workflows
      BY <2>1, <2>2
    <2>9. /\ Cardinality(StartsFrom(t)') <= Cardinality(R \cup W)
          /\ Cardinality(StartsFrom(t)') \in Nat /\ Cardinality(R \cup W) \in Nat
      BY <2>8, Smaller
    <2> QED
      BY <1>0, <2>3, <2>4, <2>5, <2>6, <2>7, <2>9
  <1> QED
    BY <1>2, <1>3

\* The claiming transaction commits.
LEMMA MarkLim ==
    ASSUME LimInv, Inv', NEW e \in Executors, Mark(e)
    PROVE  LimInv'
  <1> DEFINE won == Won(e)
  <1>0. Types /\ Types' /\ LimitTypes /\ Clocks /\ Inv
    BY DEF LimInv, Inv
  <1>1. /\ pc[e] = "mark" /\ won \cap txn[e].dirty = {}
        /\ status' = [w \in Workflows |-> IF w \in won THEN "PENDING" ELSE status[w]]
        /\ rows' = [w \in Workflows |->
                        IF w \in won /\ rows[w] # NoRow
                        THEN [rows[w] EXCEPT !.started = now[e]] ELSE rows[w]]
        /\ \E ids \in Filtered(Reached(e), won) : claimed' = [claimed EXCEPT ![e] = ids]
        /\ txn' = [Touched(won) EXCEPT ![e] = NoTxn]
        /\ startTime' = [w \in Workflows |->
                            IF Limited /\ w \in won THEN clock ELSE startTime[w]]
        /\ pc' = [pc EXCEPT ![e] = IF Limited THEN "collect" ELSE "start"]
        /\ now' = [now EXCEPT ![e] = IF Limited THEN @ ELSE 0]
        /\ UNCHANGED <<clock, todo, runs, calls, insertAt>>
    BY DEF Mark, callVars
  <1>2. \A w \in won : /\ w \in Workflows /\ w \in Open /\ rows[w] # NoRow /\ Below(w)
                       /\ status[w] = "ENQUEUED"
    <2>1. \A w \in won : w \in Winnable(e) /\ w \in txn[e].waiting
      BY <1>1 DEF Winnable, Won
    <2>2. PicksBelow(e)
      BY <1>1 DEF LimInv, TxnSafe
    <2>3. \A w \in won : w \in Workflows /\ status[w] = "ENQUEUED"
      BY <1>0, <1>1, <2>1 DEF Inv, Fresh
    <2> QED
      BY <2>1, <2>2, <2>3 DEF PicksBelow, Open
  <1>3. won \subseteq Workflows
    BY <1>2
  <1>4. PICK ids \in Filtered(Reached(e), won) : claimed' = [claimed EXCEPT ![e] = ids]
    BY <1>1
  <1>5. ids \in Seq(Workflows) /\ \A i \in DOMAIN ids : ids[i] \in won
    <2>1. Reached(e) \in Seq(Workflows)
      BY <1>0, ReachedFacts
    <2> HIDE DEF won
    <2> QED
      BY <2>1, FilteredType
  <1>6. \A w \in won : /\ rows'[w].started = now[e] /\ rows'[w].created = rows[w].created
                       /\ rows'[w].completed = rows[w].completed /\ rows'[w] # NoRow
    <2> SUFFICES ASSUME NEW w \in won
                 PROVE  /\ rows'[w].started = now[e] /\ rows'[w].created = rows[w].created
                        /\ rows'[w].completed = rows[w].completed /\ rows'[w] # NoRow
      OBVIOUS
    <2>1. rows[w] \in QueueRows /\ now[e] \in Nat
      BY <1>0, <1>2 DEF Types
    <2>2. rows'[w] = [rows[w] EXCEPT !.started = now[e]]
      BY <1>1, <1>2
    <2>3. rows'[w] \in QueueRows
      BY <2>1, <2>2 DEF QueueRows
    <2>4. NoRow \notin QueueRows
      BY ConstantsAssumption DEF QueueRows
    <2> HIDE DEF won
    <2> QED
      BY <2>1, <2>2, <2>3, <2>4 DEF QueueRows
  <1>7. /\ \A w \in Workflows : w \notin won => rows'[w] = rows[w] /\ status'[w] = status[w]
        /\ \A w \in won : status'[w] = "PENDING"
    BY <1>1, <1>3
  <1>8. ASSUME NEW x \in Executors, x # e
        PROVE  /\ txn'[x] = Touched(won)[x] /\ now'[x] = now[x] /\ pc'[x] = pc[x]
               /\ claimed'[x] = claimed[x]
    BY <1>0, <1>1, <1>4, <1>8 DEF Types, Touched, LimitTypes
  <1>9. /\ txn'[e] = NoTxn /\ pc'[e] # "mark" /\ pc'[e] # "begin" /\ claimed'[e] = ids
        /\ now'[e] = now[e] \/ now'[e] = 0
    BY <1>0, <1>1, <1>4 DEF Types, Touched, LimitTypes
  <1>w. \A x \in Executors : pc[x] = "mark" =>
            Touched(won)[x].dirty = txn[x].dirty \cup (won \cap txn[x].waiting)
    BY <1>0, TouchedFacts
  <1>k. ASSUME NEW x \in Executors, x # e
        PROVE  /\ txn'[x].picked = txn[x].picked /\ txn'[x].recent = txn[x].recent
               /\ pc'[x] = "mark" => TxnKeep(x)
    <2>1. txn[x] = [f \in TxnFields |-> txn[x][f]]
      BY <1>0 DEF Types
    <2>2. txn'[x] = IF pc[x] = "mark"
                    THEN [txn[x] EXCEPT !.dirty = @ \cup (won \cap txn[x].waiting)] ELSE txn[x]
      BY <1>8, <1>k DEF Touched
    <2> HIDE DEF won
    <2>3. txn'[x].picked = txn[x].picked /\ txn'[x].recent = txn[x].recent
          /\ txn'[x].waiting = txn[x].waiting /\ txn[x].dirty \subseteq txn'[x].dirty
      BY <2>1, <2>2 DEF TxnFields
    <2> QED
      BY <1>8, <1>k, <2>3 DEF TxnKeep
  <1>10. RowsKeep
    <2>1. ASSUME NEW w \in Workflows
          PROVE  /\ rows[w] # NoRow /\ rows'[w] # NoRow =>
                      /\ rows'[w].created = rows[w].created
                      /\ rows[w].completed => rows'[w].completed
                 /\ rows[w] # NoRow => rows'[w] # NoRow /\ (rows'[w].completed => rows[w].completed)
                 /\ rows[w] = NoRow => rows'[w] = NoRow
                 /\ status'[w] \in Early => status[w] \in Early
      <3> HIDE DEF won
      <3>1. CASE w \in won
        BY <1>2, <1>6, <1>7, <3>1 DEF Early
      <3>2. CASE w \notin won
        BY <1>7, <3>2
      <3> QED
        BY <3>1, <3>2
    <2> QED
      BY <2>1 DEF RowsKeep
  <1>11. Settled'
    <2> HIDE DEF won
    <2> QED
      BY <1>2, <1>6, <1>7 DEF LimInv, Settled, Early
  <1>12. HoldingBelow'
    <2> SUFFICES ASSUME NEW w \in Holding' PROVE Below(w)'
      BY DEF HoldingBelow
    <2> HIDE DEF won
    <2>1. w \in Workflows /\ rows'[w] # NoRow /\ ~rows'[w].completed /\ rows'[w].started > 0
      BY DEF Holding, Open
    <2>2. rows[w] # NoRow /\ Below(w)
      <3>1. CASE w \in won
        BY <1>2, <3>1
      <3>2. CASE w \notin won
        BY <1>7, <2>1, <3>2 DEF LimInv, HoldingBelow, Holding, Open
      <3> QED
        BY <3>1, <3>2
    <2> QED
      BY <1>0, <1>10, <2>1, <2>2, OlderShrinks
  <1>13. TxnSafe'
    <2> SUFFICES ASSUME NEW x \in Executors, pc'[x] = "mark"
                 PROVE  PicksBelow(x)' /\ InOrder(x)' /\ Counted(x)'
      BY DEF TxnSafe
    <2>1. x # e
      BY <1>9
    <2>2. TxnKeep(x) /\ pc[x] = "mark" /\ txn'[x] = Touched(won)[x] /\ now'[x] = now[x]
      BY <1>8, <1>k, <2>1
    <2>3. PicksBelow(x) /\ InOrder(x) /\ Counted(x) /\ txn[x].recent \in Nat
      BY <1>0, <2>2 DEF LimInv, TxnSafe, LimitTypes
    <2>4. PicksBelow(x)' /\ InOrder(x)'
      BY <1>0, <1>10, <2>2, <2>3, PicksKeep
    <2>5. Counted(x)'
      <3>1. CASE won = {}
        <4>1. rows' = rows
          BY <1>0, <1>1, <3>1 DEF Types
        <4>2. Recents(now[x])' = Recents(now[x])
          BY <2>2, <4>1 DEF Recents
        <4>3. Won(x)' = Won(x) /\ txn[x].dirty \subseteq txn'[x].dirty
              /\ txn'[x].recent = txn[x].recent
          BY <2>2, WonKeep DEF TxnKeep
        <4> QED
          BY <2>3, <4>2, <4>3 DEF Counted
      <3>2. CASE won # {}
        <4>1. Won(x)' = Won(x)
          BY <2>2, WonKeep
        <4>2. txn'[x].dirty = txn[x].dirty \cup (won \cap txn[x].waiting)
          BY <1>w, <2>2
        <4>3. Won(x) # {} =>
                 Won(x) \cap (txn[x].dirty \cup (won \cap txn[x].waiting)) # {}
          BY <1>1, <2>2, <3>2, OneCommits
        <4> QED
          BY <4>1, <4>2, <4>3 DEF Counted
      <3> QED
        BY <3>1, <3>2
    <2> QED
      BY <2>4, <2>5
  <1>14. StartsRecorded'
    <2> SUFFICES ASSUME Limited, NEW w \in Workflows, startTime'[w] > 0
                 PROVE  \/ startTime'[w] + Period - MaxDispatch <= clock'
                        \/ rows'[w] # NoRow /\ rows'[w].started > 0
                           /\ startTime'[w] <= rows'[w].started + MaxDispatch
      BY DEF StartsRecorded
    <2>1. CASE w \in won
      <3>1. startTime'[w] = clock
        BY <1>1, <2>1
      <3>2. now[e] > 0 /\ clock <= now[e] + MaxDispatch
        BY <1>0, <1>1 DEF Clocks
      <3> QED
        BY <1>6, <2>1, <3>1, <3>2
    <2>2. CASE w \notin won
      <3>1. startTime'[w] = startTime[w] /\ rows'[w] = rows[w] /\ clock' = clock
        BY <1>1, <1>7, <2>2
      <3> QED
        BY <3>1 DEF LimInv, StartsRecorded
    <2> QED
      BY <2>1, <2>2
  <1>15. RateKept'
    <2>1. CASE Limited
      <3>1. startTime' = [w \in Workflows |-> IF w \in won THEN clock ELSE startTime[w]]
        BY <1>1, <2>1
      <3> QED
        BY <1>1, <1>3, <2>1, <3>1, RateMark
    <2>2. CASE ~Limited
      BY <2>2 DEF RateKept
    <2> QED
      BY <2>1, <2>2
  <1>16. LimitTypes'
    <2>1. startTime' \in [Workflows -> Nat]
      BY <1>0, <1>1 DEF LimitTypes, Types
    <2>2. claimed' \in [Executors -> Seq(Workflows)]
      BY <1>0, <1>4, <1>5 DEF LimitTypes
    <2>3. \A x \in Executors : txn'[x].picked \in Seq(Workflows) /\ txn'[x].recent \in Nat
      <3>1. txn'[e].picked = << >> /\ txn'[e].recent = 0
        BY <1>9 DEF NoTxn
      <3>2. << >> \in Seq(Workflows)
        OBVIOUS
      <3>3. \A x \in Executors : txn[x].picked \in Seq(Workflows) /\ txn[x].recent \in Nat
        BY <1>0 DEF LimitTypes
      <3>4. ASSUME NEW x \in Executors, x # e
            PROVE  txn'[x].picked \in Seq(Workflows) /\ txn'[x].recent \in Nat
        BY <1>k, <3>3, <3>4
      <3>5. txn'[e].picked \in Seq(Workflows) /\ txn'[e].recent \in Nat
        BY <3>1, <3>2
      <3> QED
        BY <3>4, <3>5
    <2> QED
      BY <1>0, <1>1, <2>1, <2>2, <2>3 DEF LimitTypes
  <1>17. Begun'
    <2> SUFFICES ASSUME NEW x \in Executors, NEW w \in Workflows,
                        \/ runs'[x][w] # "none" \/ w \in todo'[x]
                        \/ \E i \in DOMAIN claimed'[x] : claimed'[x][i] = w
                 PROVE  status'[w] \notin Early
      BY DEF Begun
    <2> HIDE DEF won
    <2>1. CASE runs[x][w] # "none" \/ w \in todo[x]
                \/ \E i \in DOMAIN claimed[x] : claimed[x][i] = w
      BY <1>10, <2>1 DEF LimInv, Begun, RowsKeep
    <2>2. CASE x = e /\ \E i \in DOMAIN ids : ids[i] = w
      BY <1>5, <1>7, <2>2 DEF Early
    <2> QED
      BY <1>1, <1>8, <1>9, <2>1, <2>2
  <1>18. Clocks'
    BY <1>0, <1>1, <1>8, <1>9 DEF Clocks, Types
  <1>19. Arrivals'
    <2>1. \A w \in Workflows : rows'[w] # NoRow =>
              rows[w] # NoRow /\ rows'[w].created = rows[w].created
      <3> HIDE DEF won
      <3> QED
        BY <1>2, <1>6, <1>7
    <2>2. clock <= clock'
      BY <1>0, <1>1 DEF Types
    <2> QED
      BY <1>0, <1>1, <2>1, <2>2, ArrivalsKeep DEF LimInv
  <1> QED
    BY <1>11, <1>12, <1>13, <1>14, <1>15, <1>16, <1>17, <1>18, <1>19 DEF LimInv

----------------------------------------------------------------------------

\* The invariant holds when the database is empty.
LEMMA InitLim == Init => LimInv
  <1> SUFFICES ASSUME Init PROVE LimInv
    OBVIOUS
  <1>1. Inv
    BY InitInv
  <1>2. LimitTypes
    <2>1. << >> \in Seq(Workflows)
      OBVIOUS
    <2>2. \A e \in Executors : txn[e].picked = << >> /\ txn[e].recent = 0
      BY DEF Init, NoTxn
    <2>3. /\ runs \in [Executors -> [Workflows -> RunStates]]
          /\ todo \in [Executors -> SUBSET Workflows] /\ startTime \in [Workflows -> Nat]
      BY DEF Init, RunStates
    <2>4. /\ claimed \in [Executors -> Seq(Workflows)]
          /\ \A e \in Executors : txn[e].picked \in Seq(Workflows) /\ txn[e].recent \in Nat
      <3> DEFINE T == Seq(Workflows)
      <3>1. claimed = [e \in Executors |-> << >>] /\ << >> \in T
        BY <2>1 DEF Init
      <3> HIDE DEF T
      <3>2. claimed \in [Executors -> T]
        BY <3>1
      <3>3. \A e \in Executors : txn[e].picked \in T /\ txn[e].recent \in Nat
        BY <2>2, <3>1
      <3> QED
        BY <3>2, <3>3 DEF T
    <2> QED
      BY <2>3, <2>4 DEF LimitTypes
  <1>2a. Begun
    <2>1. ASSUME NEW e \in Executors
          PROVE  DOMAIN claimed[e] = {} /\ todo[e] = {} /\ \A w \in Workflows : runs[e][w] = "none"
      <3>1. claimed[e] = << >>
        BY DEF Init
      <3>2. DOMAIN << >> = {}
        OBVIOUS
      <3> QED
        BY <3>1, <3>2 DEF Init
    <2> QED
      BY <2>1 DEF Begun
  <1>2b. Clocks
    BY DEF Init, Clocks
  <1>3. Arrivals /\ Settled /\ HoldingBelow /\ TxnSafe /\ StartsRecorded
    BY DEF Init, Arrivals, Settled, HoldingBelow, Holding, Open, TxnSafe, StartsRecorded
  <1>4. RateKept
    <2> SUFFICES ASSUME NEW t \in Nat, t > 0 PROVE Cardinality(StartsFrom(t)) <= Limit
      BY DEF RateKept
    <2>1. StartsFrom(t) = {}
      BY DEF Init, StartsFrom
    <2> QED
      BY <2>1, FS_EmptySet, ConstantsAssumption
  <1> QED
    BY <1>1, <1>2, <1>2a, <1>2b, <1>3, <1>4 DEF LimInv

\* Every step preserves it, unless a row appears that is not the newest.
LEMMA StepLim ==
    ASSUME inOrder', LimInv, [Next]_vars
    PROVE  LimInv'
  <1>0. Inv'
    BY StepInv DEF LimInv
  <1>1. CASE \E e \in Executors, w \in Workflows : Call(e, w) \/ Execute(e, w) \/ Conflict(e, w)
    BY <1>0, <1>1, CallLim, ExecuteLim
  <1>2. CASE \E e \in Executors : Dispatch(e)
    BY <1>0, <1>2, SnapshotLim, MarkLim, LoopLim DEF Dispatch
  <1>3. CASE \/ \E e \in Executors : StartUp(e) \/ Crash(e)
             \/ \E w \in Workflows : Cancel(w)
             \/ Tick
    BY <1>0, <1>3, ProcessLim
  <1>4. CASE UNCHANGED vars
    BY <1>0, <1>4, WriteLim DEF vars, dbVars, loopVars, callVars, history
  <1> QED
    BY <1>1, <1>2, <1>3, <1>4 DEF Next

\* Once a row has appeared out of order, inOrder stays FALSE.
LEMMA OrderStaysBroken ==
    ASSUME [Next]_vars, inOrder'
    PROVE  inOrder
  <1>1. CASE \E e \in Executors, w \in Workflows : InsertCommit(e, w)
    BY <1>1 DEF InsertCommit
  <1>2. CASE \E e \in Executors, w \in Workflows :
                InitStatus(e, w) \/ InitInputs(e, w) \/ InsertBegin(e, w) \/ Conflict(e, w)
    BY <1>2 DEF InitStatus, InitInputs, InsertBegin, Conflict, history
  <1>2e. CASE \E e \in Executors, w \in Workflows : Execute(e, w)
    BY <1>2e DEF Execute, DeadLetter, Succeed, FlushStatus, Fail, RecordError, PollReturns,
                 history
  <1>3. CASE \E e \in Executors : Dispatch(e)
    BY <1>3 DEF Dispatch, Wake, Snapshot, Mark, MarkFails, Collect, StartClaimed, Sleep, history
  <1>4. CASE \/ \E e \in Executors : StartUp(e) \/ Crash(e)
             \/ \E w \in Workflows : Cancel(w)
             \/ Tick
    BY <1>4 DEF StartUp, Restart, Recover, Recovered, Crash, Cancel, Tick, history
  <1>5. CASE UNCHANGED vars
    BY <1>5 DEF vars, history
  <1> QED
    BY <1>1, <1>2, <1>2e, <1>3, <1>4, <1>5 DEF Next, Call

\* The invariant holds throughout, for as long as rows appear in order.
THEOREM LimitInvariant == Spec => []LimInvInOrder
  <1>1. LimInvInOrder /\ [Next]_vars => LimInvInOrder'
    BY StepLim, OrderStaysBroken DEF LimInvInOrder
  <1>2. Init => LimInvInOrder
    BY InitLim DEF LimInvInOrder
  <1> QED
    BY <1>1, <1>2, PTL DEF Spec

\* findAndMarkStartableWorkflows keeps the concurrency of the queue, for any number of
\* dispatch loops reading and marking at the same time, crashes, repeated calls and
\* cancel commands, in every behaviour up to the first row that appears with a time no
\* newer than that of one already there.
THEOREM ConcurrencyIsKept == Spec => []ConcurrencyRespected
  <1>1. LimInvInOrder => ConcurrencyRespected
    BY LimitFromBelow DEF LimInvInOrder, LimInv, Inv, ConcurrencyRespected
  <1> QED
    BY <1>1, LimitInvariant, PTL

\* It keeps the rate limit of the queue too, up to the same point: in a period, less the
\* time a dispatch may take, no more than limitPerPeriod claims are committed, although a
\* loop counts before it claims, others claim in between and rows are deleted.
THEOREM RateIsKept == Spec => []RateRespected
  <1>1. LimInvInOrder => RateRespected
    BY RateFromKept DEF LimInvInOrder, LimInv, Inv, RateRespected
  <1> QED
    BY <1>1, LimitInvariant, PTL

----------------------------------------------------------------------------
(* Pending workflows are never lost.                                         *)

\* Process e has w in hand: it executes w, or is about to, because it claimed w or
\* found it pending; or it is down and will find w pending when it comes back.
Has(e, w) ==
    \/ runs[e][w] \in {"running", "failed", "buffered", "exceeded"}
    \/ \E i \in DOMAIN claimed[e] : claimed[e][i] = w
    \/ w \in todo[e]
    \/ pc[e] = "down" /\ owner[w] = Id[e]

\* Every workflow that is PENDING is in some process's hands: nothing is needed but
\* that processes keep going for it to end.
PendingInHand == \A w \in Workflows : status[w] = "PENDING" => \E e \in Executors : Has(e, w)

\* All processes have the same executor ID, as they have unless DBOS__VMID is set.
OneId == \A e, x \in Executors : Id[e] = Id[x]

Live == {"ENQUEUED", "PENDING"}

\* The ID a workflow was recorded with is therefore everybody's.
Owned ==
    /\ owner = [w \in Workflows |-> owner[w]]
    /\ \A w \in Workflows, e \in Executors : status[w] \in Live => owner[w] = Id[e]

\* A loop that claims has started what it claimed before.
ClaimsTaken ==
    \A e \in Executors : pc[e] \notin {"collect", "start"} => DOMAIN claimed[e] = {}

\* A transaction looks at no row twice.
PickedOnce ==
    \A e \in Executors : pc[e] = "mark" =>
        \A i, j \in DOMAIN txn[e].picked : i < j => txn[e].picked[i] # txn[e].picked[j]

HandInv == Inv /\ LimitTypes /\ Owned /\ ClaimsTaken /\ PickedOnce /\ PendingInHand

\* What keeps w in hand from one state to the next.
StaysInHand ==
    \A w \in Workflows : status'[w] = "PENDING" =>
        /\ status[w] = "PENDING"
        /\ \A e \in Executors : Has(e, w) => \E x \in Executors : Has(x, w)'

\* The transactions, if any, are the ones that were open.
SamePicks ==
    \A e \in Executors :
        /\ txn'[e].picked = txn[e].picked /\ txn'[e].recent = txn[e].recent
        /\ pc'[e] = "mark" => pc[e] = "mark"

\* Owners stay, and a workflow that is over stays over.
SameOwners ==
    owner' = owner /\ \A w \in Workflows : status'[w] \in Live => status[w] \in Live

\* The parts of the invariant put together.
LEMMA HandKeep ==
    ASSUME HandInv, Inv', LimitTypes', SameOwners, ClaimsTaken', PickedOnce', StaysInHand
    PROVE  HandInv'
  <1>1. Owned'
    BY DEF HandInv, Owned, SameOwners
  <1>2. PendingInHand'
    BY DEF HandInv, PendingInHand, StaysInHand
  <1> QED
    BY <1>1, <1>2 DEF HandInv

\* Transactions that stay as they were still look at no row twice.
LEMMA PicksAgain ==
    ASSUME PickedOnce, SamePicks
    PROVE  PickedOnce'
  BY DEF PickedOnce, SamePicks

\* Writing status rows leaves the transactions as they were, but for what they can no
\* longer update.
LEMMA SamePicksFacts ==
    ASSUME Types, txn' = txn \/ \E ws : txn' = Touched(ws), pc' = pc
    PROVE  SamePicks
  <1>1. CASE txn' = txn
    BY <1>1 DEF SamePicks
  <1>2. CASE \E ws : txn' = Touched(ws)
    BY <1>2, TouchedKeep DEF SamePicks
  <1> QED
    BY <1>1, <1>2

\* A step beside the loops: it may write a status, and an execution may go on or end
\* with its workflow.
LEMMA AsideHand ==
    ASSUME HandInv, Inv', SameOwners, UNCHANGED <<pc, claimed, todo, startTime>>,
           txn' = txn \/ \E ws : txn' = Touched(ws),
           runs' \in [Executors -> [Workflows -> RunStates]],
           \A w \in Workflows : status'[w] = "PENDING" => status[w] = "PENDING",
           \A e \in Executors, w \in Workflows :
               \/ runs'[e][w] = runs[e][w]
               \/ runs'[e][w] \in {"running", "failed", "buffered", "exceeded"}
               \/ runs[e][w] \in {"none", "polling"}
               \/ status'[w] # "PENDING"
    PROVE  HandInv'
  <1>1. SamePicks
    BY SamePicksFacts DEF HandInv, Inv
  <1>2. LimitTypes'
    BY <1>1 DEF HandInv, LimitTypes, SamePicks
  <1>3. ClaimsTaken' /\ PickedOnce'
    BY <1>1, PicksAgain DEF HandInv, ClaimsTaken
  <1>4. StaysInHand
    <2> SUFFICES ASSUME NEW w \in Workflows, status'[w] = "PENDING", NEW e \in Executors, Has(e, w)
                 PROVE  Has(e, w)'
      BY DEF StaysInHand
    <2> QED
      BY DEF Has, SameOwners
  <1> QED
    BY <1>2, <1>3, <1>4, HandKeep

\* Nothing is pending when the database is empty.
LEMMA InitHand == Init => HandInv
  <1> SUFFICES ASSUME Init PROVE HandInv
    OBVIOUS
  <1>1. Inv /\ LimitTypes
    BY InitLim DEF LimInv
  <1>2. Owned /\ PendingInHand /\ PickedOnce
    BY DEF Init, Owned, Live, PendingInHand, PickedOnce
  <1>3. ClaimsTaken
    <2>1. \A e \in Executors : claimed[e] = << >>
      BY DEF Init
    <2>2. DOMAIN << >> = {}
      OBVIOUS
    <2> QED
      BY <2>1, <2>2 DEF ClaimsTaken
  <1> QED
    BY <1>1, <1>2, <1>3 DEF HandInv

\* The statements of a startWorkflow call: the first one gives a new workflow its owner.
LEMMA CallHand ==
    ASSUME OneId, HandInv, Inv', NEW e \in Executors, NEW w \in Workflows, Call(e, w)
    PROVE  HandInv'
  <1>0. Types /\ LimitTypes
    BY DEF HandInv, Inv
  <1>1. CASE InitStatus(e, w)
    <2>1. /\ status' = [status EXCEPT ![w] = StatusAfterInit(w)]
          /\ owner' = [owner EXCEPT ![w] = IF status[w] = "NONE" THEN Id[e] ELSE @]
          /\ txn' = Touched({w})
          /\ UNCHANGED <<pc, claimed, todo, runs, startTime>>
      BY <1>1 DEF InitStatus, history
    <2>2. SamePicks
      BY <1>0, <2>1, SamePicksFacts
    <2>3. LimitTypes'
      BY <1>0, <2>1, <2>2 DEF LimitTypes, SamePicks
    <2>4. ClaimsTaken' /\ PickedOnce'
      BY <2>1, <2>2, PicksAgain DEF HandInv, ClaimsTaken
    <2>5. \A v \in Workflows :
             /\ status[v] # "NONE" => status'[v] = status[v] /\ owner'[v] = owner[v]
             /\ status[v] = "NONE" => status'[v] \in {"NONE", "ENQUEUED"}
             /\ status'[v] # "NONE" /\ status[v] = "NONE" => owner'[v] = Id[e]
      BY <1>0, <2>1 DEF HandInv, Owned, Types, StatusAfterInit
    <2>6. Owned'
      <3>1. owner' = [v \in Workflows |-> owner'[v]]
        BY <2>1 DEF HandInv, Owned
      <3>2. \A v \in Workflows, x \in Executors : status'[v] \in Live => owner'[v] = Id[x]
        BY <2>5 DEF HandInv, Owned, OneId, Live
      <3> QED
        BY <3>1, <3>2 DEF Owned
    <2>7. PendingInHand'
      <3> SUFFICES ASSUME NEW v \in Workflows, status'[v] = "PENDING"
                   PROVE  \E x \in Executors : Has(x, v)'
        BY DEF PendingInHand
      <3>1. status[v] = "PENDING" /\ owner'[v] = owner[v]
        BY <2>5
      <3>2. PICK x \in Executors : Has(x, v)
        BY <3>1 DEF HandInv, PendingInHand
      <3>3. Has(x, v)'
        BY <2>1, <3>1, <3>2 DEF Has
      <3> QED
        BY <3>3
    <2> QED
      BY <2>3, <2>4, <2>6, <2>7 DEF HandInv
  <1>2. CASE InitInputs(e, w) \/ InsertBegin(e, w) \/ InsertCommit(e, w)
    <2>1. UNCHANGED <<status, owner, pc, claimed, todo, startTime, txn, runs>>
      BY <1>2 DEF InitInputs, InsertBegin, InsertCommit, dbVars, loopVars, history
    <2> QED
      BY <1>0, <2>1, AsideHand DEF SameOwners, LimitTypes
  <1> QED
    BY <1>1, <1>2 DEF Call

\* An execution that goes on, or that ends with its workflow.
LEMMA ExecuteHand ==
    ASSUME HandInv, Inv', NEW e \in Executors, NEW w \in Workflows,
           \/ Succeed(e, w) \/ FlushStatus(e, w) \/ Fail(e, w) \/ RecordError(e, w)
           \/ PollReturns(e, w) \/ (DeadLetter(e, w) /\ pc[e] = "recover")
    PROVE  HandInv'
  <1>0. Types /\ LimitTypes
    BY DEF HandInv, Inv
  <1>1. PICK r \in RunStates : runs' = [runs EXCEPT ![e][w] = r]
    BY DEF Succeed, FlushStatus, Fail, RecordError, PollReturns, DeadLetter, Lost, RunStates
  <1>2. /\ UNCHANGED <<owner, pc, claimed, todo, startTime>>
        /\ txn' = txn \/ \E ws : txn' = Touched(ws)
    BY DEF Succeed, FlushStatus, Fail, RecordError, PollReturns, DeadLetter, Lost, dbVars,
           loopVars, history
  <1>3. \/ status' = status
        \/ \E t \in {"SUCCESS", "ERROR"} : status' = [status EXCEPT ![w] = t]
        \/ status' = [status EXCEPT ![w] = DeadLetterStatus(w)]
    BY DEF Succeed, FlushStatus, Fail, RecordError, PollReturns, DeadLetter, dbVars
  <1>4. runs' \in [Executors -> [Workflows -> RunStates]]
    BY <1>0, <1>1 DEF LimitTypes
  <1>5. \/ runs'[e][w] \in {"running", "failed", "buffered", "exceeded"}
        \/ runs[e][w] \in {"none", "polling"}
        \/ status'[w] # "PENDING"
    <2>1. CASE Succeed(e, w) \/ Fail(e, w)
      BY <1>0, <2>1 DEF Succeed, Fail, LimitTypes
    <2>2. CASE FlushStatus(e, w) \/ RecordError(e, w)
      BY <1>0, <2>2 DEF FlushStatus, RecordError, Types
    <2>3. CASE PollReturns(e, w)
      BY <2>3 DEF PollReturns
    <2>4. CASE DeadLetter(e, w)
      BY <1>0, <2>4 DEF DeadLetter, DeadLetterStatus, Types
    <2> QED
      BY <2>1, <2>2, <2>3, <2>4
  <1>6. \A x \in Executors, v \in Workflows : x # e \/ v # w => runs'[x][v] = runs[x][v]
    BY <1>0, <1>1 DEF LimitTypes
  <1>7. \A v \in Workflows : /\ status'[v] = "PENDING" => status[v] = "PENDING"
                             /\ status'[v] \in Live => status[v] \in Live
    BY <1>0, <1>3 DEF Types, DeadLetterStatus, Live
  <1>8. \A x \in Executors, v \in Workflows :
           \/ runs'[x][v] = runs[x][v]
           \/ runs'[x][v] \in {"running", "failed", "buffered", "exceeded"}
           \/ runs[x][v] \in {"none", "polling"}
           \/ status'[v] # "PENDING"
    BY ONLY <1>5, <1>6
  <1>9. SameOwners
    BY <1>2, <1>7 DEF SameOwners
  <1> QED
    BY ONLY HandInv, Inv', <1>2, <1>4, <1>7, <1>8, <1>9, AsideHand

\* An execution gives way to another one of its workflow.
LEMMA ConflictHand ==
    ASSUME HandInv, Inv', NEW e \in Executors, NEW w \in Workflows, Conflict(e, w)
    PROVE  HandInv'
  <1>0. Types /\ LimitTypes
    BY DEF HandInv, Inv
  <1>1. /\ runs' = [runs EXCEPT ![e][w] = "polling"]
        /\ UNCHANGED <<status, owner, pc, txn, claimed, todo, startTime>>
    BY DEF Conflict, dbVars, loopVars, history
  <1>2. PICK x \in Executors \ {e} : runs[x][w] \in {"running", "failed", "buffered"}
    BY DEF Conflict
  <1>3. runs' \in [Executors -> [Workflows -> RunStates]]
    BY <1>0, <1>1 DEF LimitTypes, RunStates
  <1>4. LimitTypes' /\ ClaimsTaken' /\ PickedOnce' /\ SameOwners
    BY <1>1, <1>3 DEF HandInv, LimitTypes, ClaimsTaken, PickedOnce, SameOwners
  <1>5. \A y \in Executors, v \in Workflows : y # e \/ v # w => runs'[y][v] = runs[y][v]
    BY <1>0, <1>1 DEF LimitTypes
  <1>6. Has(x, w)'
    BY <1>2, <1>5 DEF Has
  <1>7. StaysInHand
    <2>1. ASSUME NEW y \in Executors, NEW v \in Workflows, Has(y, v), y # e \/ v # w
          PROVE  Has(y, v)'
      BY <1>1, <1>5, <2>1 DEF Has
    <2> QED
      BY <1>1, <1>6, <2>1 DEF StaysInHand
  <1> QED
    BY <1>4, <1>7, HandKeep

\* A process that goes down will look for what is pending: every pending workflow was
\* recorded with its ID.
LEMMA LostHand ==
    ASSUME HandInv, Inv', NEW e \in Executors, Lost(e), SameOwners, startTime' = startTime,
           \A w \in Workflows : status'[w] = "PENDING" => status[w] = "PENDING"
    PROVE  HandInv'
  <1>0. Types /\ Types' /\ LimitTypes
    BY DEF HandInv, Inv
  <1>1. LimitTypes'
    BY <1>0 DEF LimitTypes, Lost, NoTxn, RunStates, Types
  <1>2. \A x \in Executors : x # e => pc'[x] = pc[x] /\ claimed'[x] = claimed[x] /\ txn'[x] = txn[x]
    BY <1>0 DEF Lost, Types, LimitTypes
  <1>3. pc'[e] = "down" /\ claimed'[e] = << >>
    BY <1>0 DEF Lost, Types, LimitTypes
  <1>4. ClaimsTaken' /\ PickedOnce'
    <2>1. DOMAIN << >> = {}
      OBVIOUS
    <2> QED
      BY <1>2, <1>3, <2>1 DEF HandInv, ClaimsTaken, PickedOnce
  <1>5. StaysInHand
    <2> SUFFICES ASSUME NEW w \in Workflows, status'[w] = "PENDING"
                 PROVE  status[w] = "PENDING" /\ Has(e, w)'
      BY DEF StaysInHand
    <2>1. status[w] = "PENDING" /\ owner'[w] = Id[e]
      BY DEF HandInv, Owned, Live, SameOwners
    <2> QED
      BY <1>3, <2>1 DEF Has
  <1> QED
    BY <1>1, <1>4, <1>5, HandKeep

\* A loop moves on, with nothing claimed that it would forget.
LEMMA MoveHand ==
    ASSUME HandInv, Inv', NEW e \in Executors, NEW p, pc' = [pc EXCEPT ![e] = p],
           p # "mark", pc[e] # "down", p \in {"collect", "start"} \/ DOMAIN claimed[e] = {},
           UNCHANGED <<status, owner, txn, claimed, todo, runs, startTime>>
    PROVE  HandInv'
  <1>0. Types /\ LimitTypes
    BY DEF HandInv, Inv
  <1>1. pc'[e] = p /\ \A x \in Executors : x # e => pc'[x] = pc[x]
    BY <1>0 DEF Types
  <1>2. LimitTypes' /\ SameOwners
    BY DEF HandInv, LimitTypes, SameOwners
  <1>3. ClaimsTaken' /\ PickedOnce'
    BY <1>1 DEF HandInv, ClaimsTaken, PickedOnce
  <1>4. StaysInHand
    BY <1>1 DEF StaysInHand, Has
  <1> QED
    BY <1>2, <1>3, <1>4, HandKeep

\* No process forgets what it is about to execute, but for w in process e.
OthersStay(e, w) ==
    /\ \A x \in Executors : DOMAIN claimed[x] = {} => DOMAIN claimed'[x] = {}
    /\ \A x \in Executors, v \in Workflows : x # e \/ v # w =>
          /\ v \in todo[x] => v \in todo'[x]
          /\ (\E i \in DOMAIN claimed[x] : claimed[x][i] = v) =>
                \E i \in DOMAIN claimed'[x] : claimed'[x][i] = v

\* Beginning to execute a workflow that was claimed or found pending.
LEMMA BeginHand ==
    ASSUME HandInv, Inv', NEW e \in Executors, NEW w \in Workflows, Begins(e, w),
           UNCHANGED <<status, owner, pc, startTime>>,
           todo' \in [Executors -> SUBSET Workflows],
           claimed' \in [Executors -> Seq(Workflows)],
           OthersStay(e, w)
    PROVE  HandInv'
  <1>0. Types /\ LimitTypes
    BY DEF HandInv, Inv
  <1>1. PICK r \in {"exceeded", "running"} : runs' = [runs EXCEPT ![e][w] = r]
    BY DEF Begins
  <1>2. /\ runs' \in [Executors -> [Workflows -> RunStates]] /\ runs'[e][w] = r
        /\ \A x \in Executors, v \in Workflows : x # e \/ v # w => runs'[x][v] = runs[x][v]
    BY <1>0, <1>1 DEF LimitTypes, RunStates
  <1>3. SamePicks
    <2>1. \E ws : txn' = Touched(ws)
      BY DEF Begins
    <2> QED
      BY <1>0, <2>1, SamePicksFacts
  <1>4. LimitTypes' /\ SameOwners
    BY <1>0, <1>2, <1>3 DEF LimitTypes, SamePicks, SameOwners
  <1>5. ClaimsTaken' /\ PickedOnce'
    BY <1>3, PicksAgain DEF HandInv, ClaimsTaken, OthersStay
  <1>6. StaysInHand
    <2>1. Has(e, w)'
      BY <1>1, <1>2 DEF Has
    <2>2. ASSUME NEW x \in Executors, NEW v \in Workflows, Has(x, v), x # e \/ v # w
          PROVE  Has(x, v)'
      BY <1>2, <2>2 DEF Has, OthersStay
    <2> QED
      BY <2>1, <2>2 DEF StaysInHand
  <1> QED
    BY <1>4, <1>5, <1>6, HandKeep

\* The dispatch loop, but for its transaction.
LEMMA LoopHand ==
    ASSUME HandInv, Inv', NEW e \in Executors,
           Wake(e) \/ MarkFails(e) \/ Collect(e) \/ StartClaimed(e) \/ Sleep(e)
    PROVE  HandInv'
  <1>0. Types /\ LimitTypes /\ ClaimsTaken
    BY DEF HandInv, Inv
  <1>1. CASE Wake(e)
    <2>1. DOMAIN claimed[e] = {} /\ pc[e] # "down"
      BY <1>0, <1>1 DEF Wake, ClaimsTaken
    <2> QED
      BY <1>1, <2>1, MoveHand DEF Wake, dbVars, history
  <1>2. CASE MarkFails(e)
    BY <1>2, LostHand DEF MarkFails, SameOwners, dbVars, history
  <1>3. CASE Collect(e)
    BY <1>3, MoveHand DEF Collect, history
  <1>4. CASE StartClaimed(e)
    <2> DEFINE w == Head(claimed[e])
    <2>1. claimed[e] \in Seq(Workflows) /\ claimed[e] # <<>>
      BY <1>0, <1>4 DEF LimitTypes, StartClaimed
    <2>2. /\ w \in Workflows /\ 1 \in DOMAIN claimed[e] /\ claimed[e][1] = w
          /\ Tail(claimed[e]) \in Seq(Workflows)
          /\ \A i \in DOMAIN claimed[e] : i # 1 =>
                i - 1 \in DOMAIN Tail(claimed[e]) /\ Tail(claimed[e])[i - 1] = claimed[e][i]
      BY <2>1
    <2>3. claimed' = [claimed EXCEPT ![e] = Tail(claimed[e])] /\ todo' = todo
      BY <1>4 DEF StartClaimed
    <2>4. /\ claimed' \in [Executors -> Seq(Workflows)] /\ claimed'[e] = Tail(claimed[e])
          /\ \A x \in Executors : x # e => claimed'[x] = claimed[x]
      BY <1>0, <2>2, <2>3 DEF LimitTypes
    <2>5. Begins(e, w) /\ UNCHANGED <<status, owner, pc, startTime>>
      BY <1>4 DEF StartClaimed, history
    <2>6. todo' \in [Executors -> SUBSET Workflows]
      BY <1>0, <2>3 DEF LimitTypes
    <2> HIDE DEF w
    <2>7. ASSUME NEW x \in Executors, NEW v \in Workflows, x # e \/ v # w,
                 NEW i \in DOMAIN claimed[x], claimed[x][i] = v
          PROVE  \E k \in DOMAIN claimed'[x] : claimed'[x][k] = v
      <3>1. CASE x = e
        <4>1. i # 1
          BY <2>2, <2>7, <3>1
        <4> QED
          BY <2>2, <2>4, <2>7, <3>1, <4>1
      <3>2. CASE x # e
        BY <2>4, <2>7, <3>2
      <3> QED
        BY <3>1, <3>2
    <2>8. \A x \in Executors : DOMAIN claimed[x] = {} => DOMAIN claimed'[x] = {}
      BY <2>2, <2>4
    <2>9. OthersStay(e, w)
      BY <2>3, <2>7, <2>8 DEF OthersStay
    <2>10. claimed' \in [Executors -> Seq(Workflows)] /\ w \in Workflows
      BY <2>2, <2>4
    <2> QED
      BY ONLY HandInv, Inv', e \in Executors, <2>5, <2>6, <2>9, <2>10, BeginHand
  <1>5. CASE Sleep(e)
    <2>1. claimed[e] = << >> /\ pc[e] # "down"
      BY <1>5 DEF Sleep
    <2>2. DOMAIN << >> = {}
      OBVIOUS
    <2>3. DOMAIN claimed[e] = {}
      BY <2>1, <2>2
    <2> QED
      BY <1>5, <2>1, <2>3, MoveHand DEF Sleep, dbVars, history
  <1> QED
    BY <1>1, <1>2, <1>3, <1>4, <1>5

\* The transaction reads.
LEMMA SnapshotHand ==
    ASSUME HandInv, Inv', NEW e \in Executors, Snapshot(e)
    PROVE  HandInv'
  <1> DEFINE n == RecentlyStarted(now[e])
             read(ids) == [picked  |-> ids,
                           waiting |-> {w \in Workflows : status[w] = "ENQUEUED"},
                           recent  |-> n,
                           dirty   |-> {}]
  <1>0. Types /\ LimitTypes
    BY DEF HandInv, Inv
  <1>1. /\ UNCHANGED <<status, owner, claimed, todo, runs, startTime>>
        /\ pc[e] = "begin" /\ pc' = [pc EXCEPT ![e] = "mark"]
    BY DEF Snapshot, dbVars, history
  <1>2. PICK s \in OldestFirst : \E ids \in IF OutOfBudget(n) THEN {<<>>} ELSE Startable(s) :
                txn' = [txn EXCEPT ![e] = read(ids)]
    BY DEF Snapshot
  <1>3. PICK ids \in IF OutOfBudget(n) THEN {<<>>} ELSE Startable(s) :
                txn' = [txn EXCEPT ![e] = read(ids)]
    BY <1>2
  <1>4. /\ txn'[e].picked = ids /\ txn'[e].recent = n
        /\ \A x \in Executors : x # e => txn'[x] = txn[x]
    BY <1>0, <1>3 DEF Types
  <1>5. n \in Nat
    <2>1. IsFiniteSet(Recents(now[e]))
      BY Finite DEF Recents
    <2> QED
      BY <2>1, FS_CardinalityType DEF RecentlyStarted, Recents
  <1>6. ids \in Seq(Workflows) /\ \A i, j \in DOMAIN ids : i < j => ids[i] # ids[j]
    <2>1. CASE OutOfBudget(n)
      <3>1. ids = << >>
        BY <1>3, <2>1
      <3>2. << >> \in Seq(Workflows) /\ DOMAIN << >> = {}
        OBVIOUS
      <3> QED
        BY <3>1, <3>2
    <2>2. CASE ~OutOfBudget(n)
      <3>1. ids \in Startable(s)
        BY <1>3, <2>2
      <3> QED
        BY <1>0, <3>1, StartableFacts
    <2> QED
      BY <2>1, <2>2
  <1> HIDE DEF n, read
  <1>7. pc'[e] = "mark" /\ \A x \in Executors : x # e => pc'[x] = pc[x]
    BY <1>0, <1>1 DEF Types
  <1>8. LimitTypes'
    <2>1. \A x \in Executors : txn'[x].picked \in Seq(Workflows) /\ txn'[x].recent \in Nat
      BY <1>0, <1>4, <1>5, <1>6 DEF LimitTypes
    <2> QED
      BY <1>0, <1>1, <2>1 DEF LimitTypes
  <1>9. SameOwners /\ ClaimsTaken'
    BY <1>1, <1>7 DEF HandInv, SameOwners, ClaimsTaken
  <1>10. PickedOnce'
    <2> SUFFICES ASSUME NEW x \in Executors, pc'[x] = "mark"
                 PROVE  \A i, j \in DOMAIN txn'[x].picked :
                           i < j => txn'[x].picked[i] # txn'[x].picked[j]
      BY DEF PickedOnce
    <2> QED
      BY <1>4, <1>6, <1>7 DEF HandInv, PickedOnce
  <1>11. StaysInHand
    BY <1>1, <1>7 DEF StaysInHand, Has
  <1> QED
    BY <1>8, <1>9, <1>10, <1>11, HandKeep

\* The loop over workflowIDs gets to no row twice.
LEMMA ReachedOnce ==
    ASSUME LimitTypes, PickedOnce, NEW e \in Executors, pc[e] = "mark"
    PROVE  \A i, j \in DOMAIN Reached(e) : i < j => Reached(e)[i] # Reached(e)[j]
  <1> DEFINE p == txn[e].picked
             n == Limit - txn[e].recent
  <1>1. p \in Seq(Workflows) /\ n \in Int
    BY ConstantsAssumption DEF LimitTypes
  <1>2. \A i, j \in DOMAIN p : i < j => p[i] # p[j]
    BY DEF PickedOnce
  <1>3. Reached(e) = IF Limited THEN First(p, n) ELSE p
    BY DEF Reached
  <1> HIDE DEF p, n
  <1>4. /\ \A i : i \in DOMAIN First(p, n) <=> i \in DOMAIN p /\ i <= n
        /\ \A i \in DOMAIN First(p, n) : First(p, n)[i] = p[i]
    BY <1>1, FirstFacts
  <1> QED
    BY <1>2, <1>3, <1>4

\* The transaction commits: what it marks PENDING is in the hands of its process.
LEMMA MarkHand ==
    ASSUME HandInv, Inv', NEW e \in Executors, Mark(e)
    PROVE  HandInv'
  <1> DEFINE won == Won(e)
  <1>0. Types /\ LimitTypes /\ Fresh
    BY DEF HandInv, Inv
  <1>1. /\ pc[e] = "mark" /\ won \cap txn[e].dirty = {}
        /\ status' = [w \in Workflows |-> IF w \in won THEN "PENDING" ELSE status[w]]
        /\ \E ids \in Filtered(Reached(e), won) : claimed' = [claimed EXCEPT ![e] = ids]
        /\ txn' = [Touched(won) EXCEPT ![e] = NoTxn]
        /\ startTime' = [w \in Workflows |->
                            IF Limited /\ w \in won THEN clock ELSE startTime[w]]
        /\ pc' = [pc EXCEPT ![e] = IF Limited THEN "collect" ELSE "start"]
        /\ UNCHANGED <<owner, clock, todo, runs>>
    BY DEF Mark
  <1>2. \A w \in won : w \in Workflows /\ status[w] = "ENQUEUED"
    BY <1>0, <1>1 DEF Fresh, Won
  <1>3. PICK ids \in Filtered(Reached(e), won) : claimed' = [claimed EXCEPT ![e] = ids]
    BY <1>1
  <1>4. Reached(e) \in Seq(Workflows)
    BY <1>0, ReachedFacts
  <1>5. \A w \in won : \E k \in DOMAIN Reached(e) : Reached(e)[k] = w
    BY DEF Won
  <1>6. \A i, j \in DOMAIN Reached(e) : i < j => Reached(e)[i] # Reached(e)[j]
    BY <1>0, <1>1, ReachedOnce DEF HandInv
  <1> HIDE DEF won
  <1>7. ids \in Seq(Workflows) /\ \A w \in won : \E i \in DOMAIN ids : ids[i] = w
    <2>1. ids \in Seq(Workflows)
      BY <1>3, <1>4, FilteredType
    <2>2. \A k \in DOMAIN Reached(e) :
             Reached(e)[k] \in won => \E i \in DOMAIN ids : ids[i] = Reached(e)[k]
      BY <1>3, <1>4, <1>6, FilteredAll
    <2> QED
      BY <1>5, <2>1, <2>2
  <1>8. /\ claimed' \in [Executors -> Seq(Workflows)] /\ claimed'[e] = ids
        /\ \A x \in Executors : x # e => claimed'[x] = claimed[x] /\ pc'[x] = pc[x]
        /\ pc'[e] \in {"collect", "start"}
    BY <1>0, <1>1, <1>3, <1>7 DEF Types, LimitTypes
  <1>9. DOMAIN claimed[e] = {}
    BY <1>1 DEF HandInv, ClaimsTaken
  <1>10. \A x \in Executors : x # e => txn'[x] = Touched(won)[x]
    BY <1>1 DEF Touched
  <1>11. \A x \in Executors : x # e =>
            txn'[x].picked = txn[x].picked /\ txn'[x].recent = txn[x].recent
    <2> SUFFICES ASSUME NEW x \in Executors, x # e
                 PROVE  txn'[x].picked = txn[x].picked /\ txn'[x].recent = txn[x].recent
      OBVIOUS
    <2>1. txn[x] = [f \in TxnFields |-> txn[x][f]]
      BY <1>0 DEF Types
    <2>2. txn'[x] = IF pc[x] = "mark"
                    THEN [txn[x] EXCEPT !.dirty = @ \cup (won \cap txn[x].waiting)] ELSE txn[x]
      BY <1>10 DEF Touched
    <2> QED
      BY <2>1, <2>2 DEF TxnFields
  <1>12. txn'[e].picked = << >> /\ txn'[e].recent = 0
    BY <1>0, <1>1 DEF Types, Touched, NoTxn
  <1>13. LimitTypes'
    <2>1. startTime' \in [Workflows -> Nat]
      BY <1>0, <1>1 DEF LimitTypes, Types
    <2>2. << >> \in Seq(Workflows)
      OBVIOUS
    <2>3. \A x \in Executors : txn'[x].picked \in Seq(Workflows) /\ txn'[x].recent \in Nat
      <3> SUFFICES ASSUME NEW x \in Executors
                   PROVE  txn'[x].picked \in Seq(Workflows) /\ txn'[x].recent \in Nat
        OBVIOUS
      <3>1. CASE x = e
        <4> DEFINE T == Seq(Workflows)
        <4>1. << >> \in T
          BY <2>2
        <4> HIDE DEF T
        <4>2. txn'[x].picked \in T /\ txn'[x].recent \in Nat
          BY <1>12, <3>1, <4>1
        <4> QED
          BY <4>2 DEF T
      <3>2. CASE x # e
        BY <1>0, <1>11, <3>2 DEF LimitTypes
      <3> QED
        BY <3>1, <3>2
    <2> QED
      BY <1>0, <1>1, <1>8, <2>1, <2>3 DEF LimitTypes
  <1>14. ClaimsTaken'
    BY <1>8 DEF HandInv, ClaimsTaken
  <1>14p. PickedOnce'
    <2> SUFFICES ASSUME NEW x \in Executors, pc'[x] = "mark"
                 PROVE  \A i, j \in DOMAIN txn'[x].picked :
                           i < j => txn'[x].picked[i] # txn'[x].picked[j]
      BY DEF PickedOnce
    <2>1. x # e
      BY <1>8
    <2>2. pc[x] = "mark" /\ txn'[x].picked = txn[x].picked
      BY <1>8, <1>11, <2>1
    <2> QED
      BY <2>2 DEF HandInv, PickedOnce
  <1>15. \A w \in Workflows : w \notin won => status'[w] = status[w]
    BY <1>1
  <1>16. Owned'
    <2>1. \A w \in Workflows : status'[w] \in Live => status[w] \in Live
      BY <1>2, <1>15 DEF Live
    <2> QED
      BY <1>1, <2>1 DEF HandInv, Owned
  <1>17. PendingInHand'
    <2> SUFFICES ASSUME NEW w \in Workflows, status'[w] = "PENDING"
                 PROVE  \E x \in Executors : Has(x, w)'
      BY DEF PendingInHand
    <2>1. CASE w \in won
      <3>1. Has(e, w)'
        BY <1>7, <1>8, <2>1 DEF Has
      <3> QED
        BY <3>1
    <2>2. CASE w \notin won
      <3>1. PICK x \in Executors : Has(x, w)
        BY <1>15, <2>2 DEF HandInv, PendingInHand
      <3>2. CASE x = e
        <4>1. Has(e, w)'
          BY <1>1, <1>9, <3>1, <3>2 DEF Has
        <4> QED
          BY <4>1
      <3>3. CASE x # e
        <4>1. Has(x, w)'
          BY <1>1, <1>8, <3>1, <3>3 DEF Has
        <4> QED
          BY <4>1
      <3> QED
        BY <3>2, <3>3
    <2> QED
      BY <2>1, <2>2
  <1> QED
    BY <1>13, <1>14, <1>14p, <1>16, <1>17 DEF HandInv

\* Start-up, crashes, cancel commands and the clock.
LEMMA ProcessHand ==
    ASSUME HandInv, Inv', \/ \E e \in Executors : StartUp(e) \/ Crash(e)
                          \/ \E w \in Workflows : Cancel(w)
                          \/ Tick
    PROVE  HandInv'
  <1>0. Types /\ LimitTypes /\ ClaimsTaken
    BY DEF HandInv, Inv
  <1>1. CASE \E e \in Executors : Restart(e)
    <2>1. PICK e \in Executors : Restart(e)
      BY <1>1
    <2> DEFINE found == {w \in Workflows : status[w] = "PENDING" /\ owner[w] = Id[e]}
    <2>2. /\ pc[e] = "down" /\ pc' = [pc EXCEPT ![e] = "recover"]
          /\ todo' = [todo EXCEPT ![e] = found]
          /\ UNCHANGED <<status, owner, txn, claimed, runs, startTime>>
      BY <2>1 DEF Restart, dbVars, history
    <2>3. /\ todo' \in [Executors -> SUBSET Workflows] /\ todo'[e] = found
          /\ \A x \in Executors : x # e => todo'[x] = todo[x] /\ pc'[x] = pc[x]
          /\ pc'[e] = "recover"
      BY <1>0, <2>2 DEF LimitTypes, Types
    <2>4. LimitTypes' /\ SameOwners /\ ClaimsTaken' /\ PickedOnce'
      BY <1>0, <2>2, <2>3 DEF HandInv, LimitTypes, SameOwners, ClaimsTaken, PickedOnce
    <2>5. StaysInHand
      <3> SUFFICES ASSUME NEW w \in Workflows, status'[w] = "PENDING"
                   PROVE  status[w] = "PENDING" /\ Has(e, w)'
        BY DEF StaysInHand
      <3>1. status[w] = "PENDING"
        BY <2>2
      <3>2. w \in found
        BY <3>1 DEF HandInv, Owned, Live
      <3> QED
        BY <2>3, <3>1, <3>2 DEF Has
    <2> QED
      BY <2>4, <2>5, HandKeep
  <1>2. CASE \E e \in Executors, w \in Workflows : Recover(e, w)
    <2>1. PICK e \in Executors, w \in Workflows : Recover(e, w)
      BY <1>2
    <2>2. /\ todo' = [todo EXCEPT ![e] = @ \ {w}] /\ Begins(e, w)
          /\ UNCHANGED <<status, owner, pc, claimed, startTime>>
      BY <2>1 DEF Recover, history
    <2>3. /\ todo' \in [Executors -> SUBSET Workflows]
          /\ claimed' \in [Executors -> Seq(Workflows)]
      BY <1>0, <2>2 DEF LimitTypes
    <2>4. OthersStay(e, w)
      BY <1>0, <2>2 DEF OthersStay, LimitTypes
    <2> QED
      BY <2>2, <2>3, <2>4, BeginHand
  <1>3. CASE \E e \in Executors : Recovered(e)
    <2>1. PICK e \in Executors : Recovered(e)
      BY <1>3
    <2>2. DOMAIN claimed[e] = {} /\ pc[e] # "down"
      BY <1>0, <2>1 DEF Recovered, ClaimsTaken
    <2> QED
      BY <2>1, <2>2, MoveHand DEF Recovered, dbVars, history
  <1>4. CASE \E e \in Executors : Crash(e)
    BY <1>4, LostHand DEF Crash, SameOwners, dbVars, history
  <1>5. CASE \E w \in Workflows : Cancel(w)
    <2>1. PICK w \in Workflows : Cancel(w)
      BY <1>5
    <2>2. /\ status' = [status EXCEPT ![w] = "CANCELLED"] /\ txn' = Touched({w})
          /\ UNCHANGED <<owner, pc, claimed, todo, runs, startTime>>
      BY <2>1 DEF Cancel, history
    <2>3. \A v \in Workflows : status'[v] \in Live => status'[v] = status[v]
      BY <1>0, <2>2 DEF Types, Live
    <2>4. SameOwners /\ \A v \in Workflows : status'[v] = "PENDING" => status[v] = "PENDING"
      BY <2>2, <2>3 DEF SameOwners, Live
    <2>5. runs' \in [Executors -> [Workflows -> RunStates]]
      BY <1>0, <2>2 DEF LimitTypes
    <2> QED
      BY <2>2, <2>4, <2>5, AsideHand
  <1>6. CASE Tick
    <2>1. UNCHANGED <<status, owner, pc, claimed, todo, runs, txn, startTime>>
      BY <1>6 DEF Tick, dbVars, loopVars, history
    <2> QED
      BY <1>0, <2>1, AsideHand DEF SameOwners, LimitTypes
  <1> QED
    BY <1>1, <1>2, <1>3, <1>4, <1>5, <1>6 DEF StartUp

\* Every step preserves the invariant.
LEMMA StepHand ==
    ASSUME OneId, HandInv, [Next]_vars
    PROVE  HandInv'
  <1>0. Inv'
    BY StepInv DEF HandInv
  <1>t. Types /\ LimitTypes
    BY DEF HandInv, Inv
  <1>1. CASE \E e \in Executors, w \in Workflows : Call(e, w) \/ Conflict(e, w)
    BY <1>0, <1>1, CallHand, ConflictHand
  <1>2. CASE \E e \in Executors, w \in Workflows : Execute(e, w)
    <2>1. PICK e \in Executors, w \in Workflows : Execute(e, w)
      BY <1>2
    <2>2. CASE DeadLetter(e, w) /\ pc[e] = "start"
      <3>1. Lost(e) /\ status' = [status EXCEPT ![w] = DeadLetterStatus(w)]
            /\ owner' = owner /\ startTime' = startTime
        BY <2>2 DEF DeadLetter, history
      <3>2. \A v \in Workflows : status'[v] \in Live => status'[v] = status[v]
        BY <1>t, <3>1 DEF Types, DeadLetterStatus, Live
      <3>3. SameOwners /\ \A v \in Workflows : status'[v] = "PENDING" => status[v] = "PENDING"
        BY <3>1, <3>2 DEF SameOwners, Live
      <3> QED
        BY <1>0, <3>1, <3>3, LostHand
    <2>3. CASE DeadLetter(e, w) /\ pc[e] # "start"
      <3>1. pc[e] = "recover"
        BY <2>3 DEF DeadLetter
      <3> QED
        BY <1>0, <2>3, <3>1, ExecuteHand
    <2>4. CASE ~DeadLetter(e, w)
      <3>1. \/ Succeed(e, w) \/ FlushStatus(e, w) \/ Fail(e, w) \/ RecordError(e, w)
            \/ PollReturns(e, w)
        BY <2>1, <2>4 DEF Execute
      <3> QED
        BY <1>0, <3>1, ExecuteHand
    <2> QED
      BY <2>2, <2>3, <2>4
  <1>3. CASE \E e \in Executors : Dispatch(e)
    BY <1>0, <1>3, SnapshotHand, MarkHand, LoopHand DEF Dispatch
  <1>4. CASE \/ \E e \in Executors : StartUp(e) \/ Crash(e)
             \/ \E w \in Workflows : Cancel(w)
             \/ Tick
    BY <1>0, <1>4, ProcessHand
  <1>5. CASE UNCHANGED vars
    <2>1. UNCHANGED <<status, owner, pc, claimed, todo, runs, txn, startTime>>
      BY <1>5 DEF vars, dbVars, loopVars, history
    <2> QED
      BY <1>0, <1>t, <2>1, AsideHand DEF SameOwners, LimitTypes
  <1> QED
    BY <1>1, <1>2, <1>3, <1>4, <1>5 DEF Next

\* A workflow that findAndMarkStartableWorkflows marked PENDING is never lost, however
\* many processes dispatch, conflict, crash, exit on a failed transaction and recover, in
\* any order: some process executes it, is about to, or is down and will find it among
\* the pending workflows of its executor ID (recoverPendingWorkflows).  With several IDs
\* it is false: a process that goes down does not look for what it claimed if another
\* one recorded it.
THEOREM PendingNeverLost ==
    ASSUME OneId
    PROVE  Spec => []PendingInHand
  <1>1. HandInv /\ [Next]_vars => HandInv'
    BY StepHand
  <1>2. HandInv => PendingInHand
    BY DEF HandInv
  <1> QED
    BY InitHand, <1>1, <1>2, PTL DEF Spec

=============================================================================
