---------------------------- MODULE DatabaseProofs ----------------------------
(***************************************************************************)
(* Proofs about the application database and what is recorded there: a     *)
(* transaction that threw leaves nothing behind, the writes of a stored    *)
(* procedure commit at most once, and the debugger replays a workflow from *)
(* its own records.                                                        *)
(***************************************************************************)
EXTENDS UserDatabase, StoredProcedures, DebugReplay, FiniteSetTheorems, TLAPS

-----------------------------------------------------------------------------
(* The application database (UserDatabase) *)

Entry == [by : Callers, n : Nat]
Txn   == [open : BOOLEAN, readOnly : BOOLEAN, writes : SUBSET Entry]
Stages == {"idle", "begin", "body", "query", "querying"}

DbTypes ==
  /\ client \in UserDatabaseName
  /\ conn \in [Conns -> [holder : Callers \cup {Free}, txn : Txn]]
  /\ call \in [Callers -> [kind : {"none", "transaction", "queryFunction"}, at : Stages,
                           conn : Conns \cup {Free}, readOnly : BOOLEAN, n : Nat]]
  /\ table \in SUBSET Entry /\ aborted \in SUBSET Entry

\* A call up to its end holds the connection it was given, a running body in
\* an open transaction.
Holding ==
  \A k \in Callers :
    /\ call[k].at \in {"begin", "body", "query", "querying"} => call[k].conn \in Conns
    /\ call[k].at \in {"begin", "body", "query"} => conn[call[k].conn].holder = k
    /\ call[k].at = "body" => conn[call[k].conn].txn.open

\* Uncommitted writes on a connection are those of the body that runs on it.
OwnWrites ==
  \A c \in Conns : \A w \in conn[c].txn.writes :
    call[w.by].at = "body" /\ call[w.by].conn = c /\ w.n = call[w.by].n

\* What has been committed or has thrown is an earlier call of its caller.
Earlier ==
  \A w \in table \cup aborted :
    /\ w.n <= call[w.by].n
    /\ call[w.by].at \in {"begin", "body"} => w.n < call[w.by].n

DbInv == DbTypes /\ Holding /\ OwnWrites /\ Earlier /\ AbortedLeavesNothing

LEMMA DbInitInv == DbInit => DbInv
<1> SUFFICES ASSUME DbInit PROVE DbInv
  OBVIOUS
<1>1. DbTypes
  BY DEF DbInit, DbTypes, Entry, Txn, Stages, NoTxn, Quiet, Free
<1>2. Holding
  BY DEF DbInit, Holding, Quiet
<1>3. OwnWrites /\ Earlier /\ AbortedLeavesNothing
  BY DEF DbInit, OwnWrites, Earlier, AbortedLeavesNothing, NoTxn
<1> QED BY <1>1, <1>2, <1>3 DEF DbInv

LEMMA ConnectKeepsDb ==
  ASSUME DbInv, NEW k \in Callers, ConnectCall(k)
  PROVE  DbInv'
<1> USE DEF DbInv
<1>1. PICK c \in Conns, kind \in {"transaction", "queryFunction"}, ro \in BOOLEAN :
        /\ conn[c].holder = Free
        /\ conn' = [conn EXCEPT ![c].holder = k]
        /\ call' = [call EXCEPT ![k] = [kind |-> kind, conn |-> c, readOnly |-> ro, n |-> @.n + 1,
                                        at |-> IF kind = "transaction" THEN "begin" ELSE "query"]]
  BY DEF ConnectCall
<1>2. UNCHANGED <<client, table, aborted>> /\ call[k].at = "idle"
  BY DEF ConnectCall
<1>3. DbTypes'
  BY <1>1, <1>2 DEF DbTypes, Txn, Stages
<1>4. /\ conn'[c].holder = k
      /\ \A d \in Conns \ {c} : conn'[d] = conn[d]
      /\ \A d \in Conns : conn'[d].txn = conn[d].txn
      /\ call'[k].conn = c /\ call'[k].n = call[k].n + 1 /\ call'[k].at \in {"begin", "query"}
      /\ \A j \in Callers \ {k} : call'[j] = call[j]
  BY <1>1 DEF DbTypes
<1>5. Holding'
  <2>1. \A j \in Callers \ {k} : call[j].at \in {"begin", "body", "query"} => call[j].conn # c
    BY <1>1, UserDatabaseAssumption DEF Holding, Free
  <2> QED BY <2>1, <1>4 DEF Holding
<1>6. OwnWrites'
  BY <1>4, <1>2 DEF OwnWrites, DbTypes, Txn, Entry
<1>7. Earlier'
  <2> SUFFICES ASSUME NEW w \in table \cup aborted
               PROVE  /\ w.n <= call'[w.by].n
                      /\ call'[w.by].at \in {"begin", "body"} => w.n < call'[w.by].n
    BY <1>2 DEF Earlier
  <2>1. w.by \in Callers /\ w.n \in Nat /\ call[w.by].n \in Nat /\ w.n <= call[w.by].n
    BY DEF DbTypes, Entry, Earlier
  <2>2. CASE w.by = k
    BY <2>1, <2>2, <1>4
  <2>3. CASE w.by # k
    BY <2>1, <2>3, <1>4 DEF Earlier
  <2> QED BY <2>2, <2>3
<1>8. AbortedLeavesNothing'
  BY <1>2 DEF AbortedLeavesNothing
<1> QED BY <1>3, <1>5, <1>6, <1>7, <1>8

LEMMA BeginKeepsDb ==
  ASSUME DbInv, NEW k \in Callers, Begin(k)
  PROVE  DbInv'
<1> USE DEF DbInv
<1> DEFINE c == call[k].conn
<1>1. /\ c \in Conns /\ conn[c].holder = k /\ call[k].at = "begin"
      /\ UNCHANGED <<client, table, aborted>>
  BY DEF Begin, Holding
<1>3. DbTypes'
  <2> DEFINE t == [open |-> TRUE, readOnly |-> call[k].readOnly /\ Implementation.readOnly,
                   writes |-> conn[c].txn.writes]
  <2>1. conn[c].txn.writes \in SUBSET Entry
    BY <1>1 DEF DbTypes, Txn
  <2>2. t \in Txn
    BY <2>1 DEF Txn
  <2>3. conn' = [conn EXCEPT ![c].txn = t]
    BY <1>1 DEF Begin, DbTypes
  <2> HIDE DEF t
  <2>4. conn' \in [Conns -> [holder : Callers \cup {Free}, txn : Txn]]
    BY <2>2, <2>3, <1>1 DEF DbTypes
  <2>5. call' \in [Callers -> [kind : {"none", "transaction", "queryFunction"}, at : Stages,
                               conn : Conns \cup {Free}, readOnly : BOOLEAN, n : Nat]]
    BY DEF Begin, DbTypes, Stages
  <2> QED BY <2>4, <2>5, <1>1 DEF DbTypes
<1>4. /\ conn'[c].holder = k /\ conn'[c].txn.open = TRUE
      /\ \A d \in Conns \ {c} : conn'[d] = conn[d]
      /\ \A d \in Conns : conn'[d].txn.writes = conn[d].txn.writes
      /\ call'[k].conn = c /\ call'[k].n = call[k].n /\ call'[k].at = "body"
      /\ \A j \in Callers \ {k} : call'[j] = call[j]
  <2>1. /\ call'[k].conn = c /\ call'[k].n = call[k].n /\ call'[k].at = "body"
        /\ \A j \in Callers \ {k} : call'[j] = call[j]
    BY DEF Begin, DbTypes
  <2>2. conn'[c].holder = k /\ conn'[c].txn.open = TRUE /\ conn'[c].txn.writes = conn[c].txn.writes
    BY <1>1 DEF Begin, DbTypes
  <2>3. \A d \in Conns \ {c} : conn'[d] = conn[d]
    BY <1>1 DEF Begin, DbTypes
  <2> QED BY <2>1, <2>2, <2>3
<1>5. Holding'
  <2>1. \A j \in Callers \ {k} : call[j].at \in {"begin", "body", "query"} => call[j].conn # c
    BY <1>1 DEF Holding
  <2> QED BY <2>1, <1>4, <1>1 DEF Holding
<1>6. OwnWrites'
  BY <1>4, <1>1 DEF OwnWrites, DbTypes, Txn, Entry
<1>7. Earlier'
  BY <1>4, <1>1 DEF Earlier, DbTypes, Entry
<1>8. AbortedLeavesNothing'
  BY <1>1 DEF AbortedLeavesNothing
<1> QED BY <1>3, <1>5, <1>6, <1>7, <1>8

LEMMA WriteKeepsDb ==
  ASSUME DbInv, NEW k \in Callers, Write(k)
  PROVE  DbInv'
<1> USE DEF DbInv
<1> DEFINE c == call[k].conn
           w == [by |-> k, n |-> call[k].n]
<1>1. /\ c \in Conns /\ call[k].at = "body" /\ conn[c].txn.open
      /\ UNCHANGED <<client, call, aborted>>
  BY DEF Write, Holding
<1>2. /\ conn' = [conn EXCEPT ![c].txn.writes = @ \cup {w}]
      /\ UNCHANGED table
  BY <1>1 DEF Write
<1>3. w \in Entry
  BY DEF DbTypes, Entry
<1>4. DbTypes'
  <2>1. conn[c].txn \in Txn
    BY <1>1 DEF DbTypes
  <2>2. [conn[c].txn EXCEPT !.writes = @ \cup {w}] \in Txn
    BY <2>1, <1>3 DEF Txn
  <2>3. conn' = [conn EXCEPT ![c].txn = [conn[c].txn EXCEPT !.writes = @ \cup {w}]]
    BY <1>1, <1>2 DEF DbTypes
  <2>4. conn' \in [Conns -> [holder : Callers \cup {Free}, txn : Txn]]
    BY <2>2, <2>3, <1>1 DEF DbTypes
  <2> QED BY <2>4, <1>1, <1>2 DEF DbTypes
<1>5. /\ \A d \in Conns \ {c} : conn'[d] = conn[d]
      /\ conn'[c].holder = conn[c].holder /\ conn'[c].txn.open = conn[c].txn.open
      /\ conn'[c].txn.writes = conn[c].txn.writes \cup {w}
  BY <1>1, <1>2 DEF DbTypes, Txn
<1>6. Holding'
  BY ZenonT(30), <1>1, <1>5 DEF Holding
<1>7. OwnWrites'
  BY <1>1, <1>5 DEF OwnWrites
<1>8. Earlier' /\ AbortedLeavesNothing'
  BY <1>1, <1>2 DEF Earlier, AbortedLeavesNothing
<1> QED BY <1>4, <1>6, <1>7, <1>8

\* The end of a call: its connection, if it still holds it, is free and clean
\* again, and the caller is idle.
LEMMA CallEnds ==
  ASSUME DbInv, NEW k \in Callers, NEW c \in Conns,
         call[k].conn = c, conn[c].holder = k, call[k].at # "idle",
         conn' = [conn EXCEPT ![c] = [holder |-> Free, txn |-> NoTxn]],
         call' = [call EXCEPT ![k] = [Quiet EXCEPT !.n = call[k].n]],
         UNCHANGED client
  PROVE  /\ client' \in UserDatabaseName
         /\ conn' \in [Conns -> [holder : Callers \cup {Free}, txn : Txn]]
         /\ call' \in [Callers -> [kind : {"none", "transaction", "queryFunction"}, at : Stages,
                                   conn : Conns \cup {Free}, readOnly : BOOLEAN, n : Nat]]
         /\ call'[k].at = "idle" /\ call'[k].n = call[k].n
         /\ \A j \in Callers \ {k} : call'[j] = call[j]
         /\ Holding' /\ OwnWrites'
<1> USE DEF DbInv
<1>1. /\ call'[k].at = "idle" /\ call'[k].n = call[k].n
      /\ \A j \in Callers \ {k} : call'[j] = call[j]
  BY DEF DbTypes, Quiet
<1>2. /\ conn'[c].txn.writes = {}
      /\ \A d \in Conns \ {c} : conn'[d] = conn[d]
  BY DEF DbTypes, NoTxn
<1>3. conn' \in [Conns -> [holder : Callers \cup {Free}, txn : Txn]]
  BY DEF DbTypes, Txn, NoTxn
<1>4. call' \in [Callers -> [kind : {"none", "transaction", "queryFunction"}, at : Stages,
                             conn : Conns \cup {Free}, readOnly : BOOLEAN, n : Nat]]
  BY DEF DbTypes, Stages, Quiet
<1>5. Holding'
  <2>1. \A j \in Callers \ {k} : call[j].at \in {"begin", "body", "query"} => call[j].conn # c
    BY DEF Holding
  <2> QED BY <2>1, <1>1, <1>2 DEF Holding
<1>6. OwnWrites'
  <2> SUFFICES ASSUME NEW d \in Conns, NEW w \in conn'[d].txn.writes
               PROVE  call'[w.by].at = "body" /\ call'[w.by].conn = d /\ w.n = call'[w.by].n
    BY DEF OwnWrites
  <2>1. d # c /\ w \in conn[d].txn.writes
    BY <1>2
  <2>2. w.by \in Callers /\ call[w.by].conn = d
    BY <2>1 DEF OwnWrites, DbTypes, Txn, Entry
  <2>3. w.by # k
    BY <2>2, <2>1
  <2> QED BY <2>1, <2>2, <2>3, <1>1 DEF OwnWrites
<1> QED BY <1>1, <1>3, <1>4, <1>5, <1>6 DEF DbTypes

LEMMA CommitKeepsDb ==
  ASSUME DbInv, NEW k \in Callers, Commit(k)
  PROVE  DbInv'
<1> USE DEF DbInv
<1> DEFINE c == call[k].conn
<1>1. /\ c \in Conns /\ conn[c].holder = k /\ call[k].at = "body"
      /\ conn' = [conn EXCEPT ![c] = [holder |-> Free, txn |-> NoTxn]]
      /\ call' = [call EXCEPT ![k] = [Quiet EXCEPT !.n = call[k].n]]
      /\ table' = table \cup conn[c].txn.writes
      /\ UNCHANGED <<client, aborted>>
  BY DEF Commit, Committed, Holding
<1> HIDE DEF c
<1>2. /\ client' \in UserDatabaseName
      /\ conn' \in [Conns -> [holder : Callers \cup {Free}, txn : Txn]]
      /\ call' \in [Callers -> [kind : {"none", "transaction", "queryFunction"}, at : Stages,
                                conn : Conns \cup {Free}, readOnly : BOOLEAN, n : Nat]]
      /\ call'[k].at = "idle" /\ call'[k].n = call[k].n
      /\ \A j \in Callers \ {k} : call'[j] = call[j]
      /\ Holding' /\ OwnWrites'
  BY <1>1, CallEnds DEF c
<1>3. /\ conn[c].txn.writes \in SUBSET Entry
      /\ \A w \in conn[c].txn.writes : w.by = k /\ w.n = call[k].n
  <2>1. conn[c].txn.writes \in SUBSET Entry
    BY <1>1 DEF DbTypes, Txn
  <2>2. ASSUME NEW w \in conn[c].txn.writes
        PROVE  w.by = k /\ w.n = call[k].n
    <3>1. w.by \in Callers /\ call[w.by].at = "body" /\ call[w.by].conn = c /\ w.n = call[w.by].n
      BY <2>1, <1>1 DEF OwnWrites, Entry
    <3>2. conn[c].holder = w.by
      BY <3>1 DEF Holding
    <3> QED BY <3>1, <3>2, <1>1
  <2> QED BY <2>1, <2>2
<1>4. DbTypes'
  BY <1>1, <1>2, <1>3 DEF DbTypes
<1>5. Earlier'
  <2> SUFFICES ASSUME NEW w \in table' \cup aborted'
               PROVE  /\ w.n <= call'[w.by].n
                      /\ call'[w.by].at \in {"begin", "body"} => w.n < call'[w.by].n
    BY DEF Earlier
  <2>1. CASE w \in conn[c].txn.writes
    BY <2>1, <1>2, <1>3 DEF DbTypes
  <2>2. CASE w \in table \cup aborted
    <3>1. w.by \in Callers
      BY <2>2 DEF DbTypes, Entry
    <3>2. CASE w.by = k
      BY <2>2, <3>2, <1>2 DEF Earlier
    <3>3. CASE w.by # k
      BY <2>2, <3>1, <3>3, <1>2 DEF Earlier
    <3> QED BY <3>2, <3>3
  <2> QED BY <2>1, <2>2, <1>1
<1>6. AbortedLeavesNothing'
  <2> SUFFICES ASSUME NEW w \in conn[c].txn.writes, w \in aborted
               PROVE  FALSE
    BY <1>1 DEF AbortedLeavesNothing
  <2>1. w.by = k /\ w.n = call[k].n /\ w.n \in Nat
    BY <1>3 DEF Entry
  <2>2. w.n < call[w.by].n
    BY <2>1, <1>1 DEF Earlier
  <2> QED BY <2>1, <2>2
<1> QED BY <1>2, <1>4, <1>5, <1>6

LEMMA ThrowKeepsDb ==
  ASSUME DbInv, NEW k \in Callers, Throw(k)
  PROVE  DbInv'
<1> USE DEF DbInv
<1> DEFINE c == call[k].conn
           e == [by |-> k, n |-> call[k].n]
<1>1. /\ c \in Conns /\ conn[c].holder = k /\ call[k].at = "body"
      /\ conn' = [conn EXCEPT ![c] = [holder |-> Free, txn |-> NoTxn]]
      /\ call' = [call EXCEPT ![k] = [Quiet EXCEPT !.n = call[k].n]]
      /\ aborted' = aborted \cup {e}
      /\ UNCHANGED <<client, table>>
  BY DEF Throw, RolledBack, Holding
<1> HIDE DEF c
<1>2. /\ client' \in UserDatabaseName
      /\ conn' \in [Conns -> [holder : Callers \cup {Free}, txn : Txn]]
      /\ call' \in [Callers -> [kind : {"none", "transaction", "queryFunction"}, at : Stages,
                                conn : Conns \cup {Free}, readOnly : BOOLEAN, n : Nat]]
      /\ call'[k].at = "idle" /\ call'[k].n = call[k].n
      /\ \A j \in Callers \ {k} : call'[j] = call[j]
      /\ Holding' /\ OwnWrites'
  BY <1>1, CallEnds DEF c
<1>3. e \in Entry /\ e.by = k /\ e.n = call[k].n
  BY DEF DbTypes, Entry
<1> HIDE DEF e
<1>4. DbTypes'
  BY <1>1, <1>2, <1>3 DEF DbTypes
<1>5. Earlier'
  <2> SUFFICES ASSUME NEW w \in table' \cup aborted'
               PROVE  /\ w.n <= call'[w.by].n
                      /\ call'[w.by].at \in {"begin", "body"} => w.n < call'[w.by].n
    BY DEF Earlier
  <2>1. CASE w = e
    BY <2>1, <1>2, <1>3 DEF DbTypes
  <2>2. CASE w \in table \cup aborted
    <3>1. w.by \in Callers
      BY <2>2 DEF DbTypes, Entry
    <3>2. CASE w.by = k
      BY <2>2, <3>2, <1>2 DEF Earlier
    <3>3. CASE w.by # k
      BY <2>2, <3>1, <3>3, <1>2 DEF Earlier
    <3> QED BY <3>2, <3>3
  <2> QED BY <2>1, <2>2, <1>1
<1>6. AbortedLeavesNothing'
  <2>1. ASSUME e \in table
        PROVE  FALSE
    <3>1. e.n < call[e.by].n
      BY <2>1, <1>3, <1>1 DEF Earlier
    <3> QED BY <3>1, <1>3 DEF Entry
  <2> QED BY <2>1, <1>1 DEF AbortedLeavesNothing
<1> QED BY <1>2, <1>4, <1>5, <1>6

LEMMA QueryFunctionKeepsDb ==
  ASSUME DbInv, NEW k \in Callers, QueryFunction(k)
  PROVE  DbInv'
<1> USE DEF DbInv
<1> DEFINE c == call[k].conn
<1>1. /\ c \in Conns /\ conn[c].holder = k /\ call[k].at = "query"
      /\ call' = [call EXCEPT ![k].at = "querying"]
      /\ UNCHANGED <<client, table, aborted>>
  BY DEF QueryFunction, Holding
<1>2. \/ conn' = [conn EXCEPT ![c].holder = Free]
      \/ conn' = [conn EXCEPT ![c].txn = [open |-> TRUE, readOnly |-> TRUE, writes |-> {}]]
      \/ conn' = conn
  BY DEF QueryFunction
<1> HIDE DEF c
<1>3. DbTypes'
  <2>1. conn' \in [Conns -> [holder : Callers \cup {Free}, txn : Txn]]
    <3>1. [open |-> TRUE, readOnly |-> TRUE, writes |-> {}] \in Txn
      BY DEF Txn
    <3> QED BY <3>1, <1>1, <1>2 DEF DbTypes
  <2>2. call' \in [Callers -> [kind : {"none", "transaction", "queryFunction"}, at : Stages,
                               conn : Conns \cup {Free}, readOnly : BOOLEAN, n : Nat]]
    BY <1>1 DEF DbTypes, Stages
  <2> QED BY <2>1, <2>2, <1>1 DEF DbTypes
<1>4. /\ call'[k].at = "querying" /\ call'[k].n = call[k].n /\ call'[k].conn = c
      /\ \A j \in Callers \ {k} : call'[j] = call[j]
  BY <1>1 DEF DbTypes, c
<1>5. /\ \A d \in Conns \ {c} : conn'[d] = conn[d]
      /\ conn'[c].txn.writes \subseteq conn[c].txn.writes
  BY <1>1, <1>2 DEF DbTypes
<1>6. Holding'
  <2>1. \A j \in Callers \ {k} : call[j].at \in {"begin", "body", "query"} => call[j].conn # c
    BY <1>1 DEF Holding
  <2> QED BY <2>1, <1>1, <1>4, <1>5 DEF Holding
<1>7. OwnWrites'
  <2> SUFFICES ASSUME NEW d \in Conns, NEW w \in conn'[d].txn.writes
               PROVE  call'[w.by].at = "body" /\ call'[w.by].conn = d /\ w.n = call'[w.by].n
    BY DEF OwnWrites
  <2>1. w \in conn[d].txn.writes
    BY <1>5
  <2>2. w.by \in Callers /\ call[w.by].at = "body"
    BY <2>1 DEF OwnWrites, DbTypes, Txn, Entry
  <2>3. w.by # k
    BY <2>2, <1>1
  <2> QED BY <2>1, <2>2, <2>3, <1>4 DEF OwnWrites
<1>8. Earlier' /\ AbortedLeavesNothing'
  BY <1>1, <1>4 DEF Earlier, AbortedLeavesNothing, DbTypes, Entry
<1> QED BY <1>3, <1>6, <1>7, <1>8

LEMMA QueryDoneKeepsDb ==
  ASSUME DbInv, NEW k \in Callers, QueryDone(k)
  PROVE  DbInv'
<1> USE DEF DbInv
<1> DEFINE c == call[k].conn
<1>1. /\ c \in Conns /\ call[k].at = "querying"
      /\ conn' = IF conn[c].holder = k THEN [conn EXCEPT ![c] = [holder |-> Free, txn |-> NoTxn]] ELSE conn
      /\ call' = [call EXCEPT ![k] = [Quiet EXCEPT !.n = call[k].n]]
      /\ UNCHANGED <<client, table, aborted>>
  BY DEF QueryDone, RolledBack, Holding
<1> HIDE DEF c
<1>2. /\ call'[k].at = "idle" /\ call'[k].n = call[k].n
      /\ \A j \in Callers \ {k} : call'[j] = call[j]
  BY <1>1 DEF DbTypes, Quiet
<1>3. Earlier' /\ AbortedLeavesNothing'
  BY <1>1, <1>2 DEF Earlier, AbortedLeavesNothing, DbTypes, Entry
<1>4. CASE conn[c].holder = k
  <2>1. /\ client' \in UserDatabaseName
        /\ conn' \in [Conns -> [holder : Callers \cup {Free}, txn : Txn]]
        /\ call' \in [Callers -> [kind : {"none", "transaction", "queryFunction"}, at : Stages,
                                  conn : Conns \cup {Free}, readOnly : BOOLEAN, n : Nat]]
        /\ Holding' /\ OwnWrites'
    BY <1>1, <1>4, CallEnds DEF c
  <2> QED BY <2>1, <1>1, <1>3 DEF DbTypes
<1>5. CASE conn[c].holder # k
  <2>1. DbTypes'
    BY <1>1, <1>5 DEF DbTypes, Stages, Quiet
  <2>2. Holding'
    BY <1>1, <1>2, <1>5 DEF Holding
  <2>3. OwnWrites'
    BY <1>1, <1>2, <1>5 DEF OwnWrites, DbTypes, Txn, Entry
  <2> QED BY <2>1, <2>2, <2>3, <1>3
<1> QED BY <1>4, <1>5

\* The application database: whatever the clients and the interleaving of
\* their transactions on the pool's connections, the writes of a transaction
\* that threw are never in the table (transaction of the user databases).
THEOREM AbortedNeverCommitted == DbSpec => []AbortedLeavesNothing
<1>1. DbInv /\ [DbNext]_dbVars => DbInv'
  <2> SUFFICES ASSUME DbInv, [DbNext]_dbVars PROVE DbInv'
    OBVIOUS
  <2>1. ASSUME NEW k \in Callers,
               \/ ConnectCall(k) \/ Begin(k) \/ Write(k) \/ Commit(k) \/ Throw(k)
               \/ QueryFunction(k) \/ QueryDone(k)
        PROVE  DbInv'
    BY <2>1, ConnectKeepsDb, BeginKeepsDb, WriteKeepsDb, CommitKeepsDb, ThrowKeepsDb,
       QueryFunctionKeepsDb, QueryDoneKeepsDb
  <2>2. CASE destroyUserDatabase
    BY <2>2 DEF destroyUserDatabase, DbInv, DbTypes, Holding, OwnWrites, Earlier, AbortedLeavesNothing
  <2>3. CASE UNCHANGED dbVars
    BY <2>3 DEF dbVars, DbInv, DbTypes, Holding, OwnWrites, Earlier, AbortedLeavesNothing
  <2> QED BY <2>1, <2>2, <2>3 DEF DbNext
<1>2. DbInv => AbortedLeavesNothing
  BY DEF DbInv
<1> QED BY <1>1, <1>2, DbInitInv, PTL DEF DbSpec

-----------------------------------------------------------------------------
(* The stored procedures (StoredProcedures) *)

ProcTypes ==
  /\ prog \in [Ids -> [local : BOOLEAN, readOnly : BOOLEAN, does : Outcomes]]
  /\ wf.next \in 1..(Calls + 1)
  /\ DOMAIN wf = {"state", "next", "presetUUID", "at"}
  /\ wf.state \in {"running", "failed"} => wf.next \in Ids
  /\ rows \in [1..(Calls + 1) -> Outcomes \cup {NoRow}]
  /\ effects \in [Ids -> Nat]

\* What waits in the buffer is the output of a procedure.
Buffered == results \subseteq Ids

\* A body's writes commit with the record of its outcome.
RecordedWithEffect ==
  \A f \in Ids : effects[f] <= 1 /\ (rows[f] = NoRow => effects[f] = 0)

ProcInv == ProcTypes /\ Buffered /\ RecordedWithEffect

LEMMA ProcInitInv == ProcInit => ProcInv
<1> SUFFICES ASSUME ProcInit PROVE ProcInv
  OBVIOUS
<1>1. ProcTypes
  BY ProcedureAssumption DEF ProcInit, ProcTypes, Ids, NoRow
<1>2. Buffered /\ RecordedWithEffect
  BY ProcedureAssumption DEF ProcInit, Buffered, RecordedWithEffect, Ids
<1> QED BY <1>1, <1>2 DEF ProcInv

\* Going on to the next call, or to the end, keeps the position in range.
WfTypes ==
  /\ wf.next \in 1..(Calls + 1)
  /\ DOMAIN wf = {"state", "next", "presetUUID", "at"}
  /\ wf.state \in {"running", "failed"} => wf.next \in Ids

LEMMA ReturnsKeepsWf ==
  ASSUME ProcTypes, funcId \in Ids, NEW outcome, Returns(outcome)
  PROVE  WfTypes'
BY ProcedureAssumption DEF ProcTypes, WfTypes, Returns, funcId, Ids

\* So do an error still to be recorded and the wait for another execution.
LEMMA StayKeepsWf ==
  ASSUME ProcTypes, funcId \in Ids,
         \/ Conflicts \/ UNCHANGED wf
         \/ \E a \in {"recordError", "recordErrorTx"} : wf' = [wf EXCEPT !.at = a]
  PROVE  WfTypes'
BY ProcedureAssumption DEF ProcTypes, WfTypes, Conflicts, funcId, Ids

\* The rows of a flush: outcomes where there was a row before, in the buffer
\* and at f.
LEMMA FlushedRows ==
  ASSUME ProcInv, NEW f \in Ids, NEW outcome \in Outcomes
  PROVE  /\ Flushed(rows, f, outcome) \in [1..(Calls + 1) -> Outcomes \cup {NoRow}]
         /\ Flushed(rows, f, outcome)[f] # NoRow
         /\ \A g \in Ids : Flushed(rows, f, outcome)[g] = NoRow => rows[g] = NoRow
<1>1. /\ rows \in [1..(Calls + 1) -> Outcomes \cup {NoRow}] /\ results \subseteq Ids
      /\ \A g \in Ids : prog[g].does \in Outcomes
      /\ NoRow \notin Outcomes
      /\ Ids \subseteq 1..(Calls + 1)
  BY ProcedureAssumption DEF ProcInv, ProcTypes, Buffered, Outcomes, NoRow, Ids
<1> QED BY <1>1 DEF Flushed

\* Every step of a procedure leaves the invariant: it records outcomes (or
\* nothing), and lets a body's writes commit only where it records them.
LEMMA StepKeepsProc ==
  ASSUME ProcInv, UNCHANGED prog, WfTypes', results' \subseteq Ids,
         rows' \in [1..(Calls + 1) -> Outcomes \cup {NoRow}],
         \A g \in Ids : rows'[g] = NoRow => rows[g] = NoRow,
         \/ UNCHANGED effects
         \/ \E f \in Ids : /\ rows[f] = NoRow /\ rows'[f] # NoRow
                           /\ effects' = [effects EXCEPT ![f] = @ + 1]
  PROVE  ProcInv'
<1> USE DEF ProcInv
<1>1. effects' \in [Ids -> Nat]
  <2>1. effects \in [Ids -> Nat]
    BY DEF ProcTypes
  <2>2. ASSUME NEW f \in Ids, effects' = [effects EXCEPT ![f] = @ + 1]
        PROVE  effects' \in [Ids -> Nat]
    BY <2>1, <2>2
  <2> QED BY <2>1, <2>2
<1>2. RecordedWithEffect'
  BY DEF RecordedWithEffect, ProcTypes
<1>3. ProcTypes' /\ Buffered'
  BY <1>1 DEF ProcTypes, WfTypes, Buffered
<1> QED BY <1>2, <1>3

LEMMA HereInIds ==
  ASSUME ProcInv, NEW where, NEW at, Here(where, at)
  PROVE  funcId \in Ids /\ Proc.does \in Outcomes
BY ProcedureAssumption DEF ProcInv, ProcTypes, Here, funcId, Ids, Proc

LEMMA LocalKeepsProc ==
  ASSUME ProcInv, invokeProcLocal
  PROVE  ProcInv'
<1>0. /\ rows \in [1..(Calls + 1) -> Outcomes \cup {NoRow}] /\ results \subseteq Ids
      /\ ProcTypes
  BY DEF ProcInv, ProcTypes, Buffered
<1>1. CASE LocalCached
  <2>1. funcId \in Ids
    BY <1>1, HereInIds DEF LocalCached
  <2>2. WfTypes'
    BY <1>0, <1>1, <2>1, ReturnsKeepsWf, StayKeepsWf DEF LocalCached
  <2> QED BY <1>0, <1>1, <2>2, StepKeepsProc DEF LocalCached
<1>2. CASE LocalReads
  <2>1. funcId \in Ids
    BY <1>2, HereInIds DEF LocalReads
  <2>2. WfTypes'
    BY <1>0, <1>2, <2>1, ReturnsKeepsWf, StayKeepsWf DEF LocalReads
  <2>3. results' \subseteq Ids
    BY <1>0, <1>2, <2>1 DEF LocalReads
  <2> QED BY <1>0, <1>2, <2>2, <2>3, StepKeepsProc DEF LocalReads
<1>3. CASE LocalWrites
  <2>1. funcId \in Ids /\ Proc.does \in Outcomes
    BY <1>3, HereInIds DEF LocalWrites
  <2>2. WfTypes'
    BY <1>0, <1>3, <2>1, ReturnsKeepsWf, StayKeepsWf DEF LocalWrites
  <2>3. CASE UNCHANGED <<rows, results, effects>>
    BY <1>0, <1>3, <2>2, <2>3, StepKeepsProc DEF LocalWrites
  <2>4. CASE /\ FlushFree({funcId})
             /\ rows' = Flushed(rows, funcId, Proc.does)
             /\ effects' = [effects EXCEPT ![funcId] = @ + 1]
             /\ results' = {}
    <3>1. rows[funcId] = NoRow
      BY <2>4 DEF FlushFree
    <3>2. /\ rows' \in [1..(Calls + 1) -> Outcomes \cup {NoRow}] /\ rows'[funcId] # NoRow
          /\ \A g \in Ids : rows'[g] = NoRow => rows[g] = NoRow
      BY <2>1, <2>4, FlushedRows
    <3> QED BY <1>3, <2>1, <2>2, <2>4, <3>1, <3>2, StepKeepsProc DEF LocalWrites
  <2> QED BY <1>3, <2>3, <2>4 DEF LocalWrites
<1>4. CASE LocalAborts
  <2>1. funcId \in Ids
    BY <1>4, HereInIds DEF LocalAborts
  <2>2. WfTypes'
    BY <1>0, <1>4, <2>1, StayKeepsWf DEF LocalAborts
  <2> QED BY <1>0, <1>4, <2>2, StepKeepsProc DEF LocalAborts
<1>5. CASE LocalRecordError
  <2>1. funcId \in Ids /\ "error" \in Outcomes
    BY <1>5, HereInIds DEF LocalRecordError, Outcomes
  <2>2. WfTypes'
    BY <1>0, <1>5, <2>1, StayKeepsWf DEF LocalRecordError
  <2>3. /\ rows' \in [1..(Calls + 1) -> Outcomes \cup {NoRow}]
        /\ \A g \in Ids : rows'[g] = NoRow => rows[g] = NoRow
    <3>1. rows' = Flushed(rows, funcId, "error") \/ UNCHANGED rows
      BY <1>5 DEF LocalRecordError
    <3>2. CASE UNCHANGED rows
      BY <1>0, <3>2
    <3>3. CASE rows' = Flushed(rows, funcId, "error")
      BY <1>0, <2>1, <3>3, FlushedRows
    <3> QED BY <3>1, <3>2, <3>3
  <2> QED BY <1>0, <1>5, <2>2, <2>3, StepKeepsProc DEF LocalRecordError
<1>6. CASE LocalRecordErrorTx
  <2>1. funcId \in Ids /\ "error" \in Outcomes
    BY <1>6, HereInIds DEF LocalRecordErrorTx, Outcomes
  <2>2. WfTypes'
    BY <1>0, <1>6, <2>1, ReturnsKeepsWf, StayKeepsWf DEF LocalRecordErrorTx
  <2>3. /\ rows' \in [1..(Calls + 1) -> Outcomes \cup {NoRow}] /\ results' \subseteq Ids
        /\ \A g \in Ids : rows'[g] = NoRow => rows[g] = NoRow
    BY ZenonT(30), <1>0, <1>6, <2>1, FlushedRows DEF LocalRecordErrorTx
  <2> QED BY <1>0, <1>6, <2>2, <2>3, StepKeepsProc DEF LocalRecordErrorTx
<1> QED BY <1>1, <1>2, <1>3, <1>4, <1>5, <1>6 DEF invokeProcLocal

LEMMA RemoteKeepsProc ==
  ASSUME ProcInv, invokeProcRemote
  PROVE  ProcInv'
<1>0. /\ rows \in [1..(Calls + 1) -> Outcomes \cup {NoRow}] /\ results \subseteq Ids
      /\ ProcTypes
  BY DEF ProcInv, ProcTypes, Buffered
<1>1. CASE RemoteCached
  <2>1. funcId \in Ids
    BY <1>1, HereInIds DEF RemoteCached
  <2>2. WfTypes' /\ results' \subseteq Ids
    BY <1>0, <1>1, <2>1, ReturnsKeepsWf DEF RemoteCached
  <2> QED BY <1>0, <1>1, <2>2, StepKeepsProc DEF RemoteCached
<1>2. CASE RemoteReads
  <2>1. funcId \in Ids
    BY <1>2, HereInIds DEF RemoteReads
  <2>2. WfTypes' /\ results' \subseteq Ids
    BY <1>0, <1>2, <2>1, ReturnsKeepsWf DEF RemoteReads
  <2> QED BY <1>0, <1>2, <2>2, StepKeepsProc DEF RemoteReads
<1>3. CASE RemoteWrites
  <2>1. funcId \in Ids /\ Proc.does \in Outcomes
    BY <1>3, HereInIds DEF RemoteWrites
  <2>2. WfTypes'
    BY <1>0, <1>3, <2>1, ReturnsKeepsWf DEF RemoteWrites
  <2>3. CASE UNCHANGED <<rows, results, effects>>
    BY <1>0, <1>3, <2>2, <2>3, StepKeepsProc DEF RemoteWrites
  <2>4. CASE /\ FlushFree({funcId})
             /\ rows' = Flushed(rows, funcId, Proc.does)
             /\ effects' = IF Proc.does = "error" THEN effects ELSE [effects EXCEPT ![funcId] = @ + 1]
             /\ results' = {}
    <3>1. rows[funcId] = NoRow
      BY <2>4 DEF FlushFree
    <3>2. /\ rows' \in [1..(Calls + 1) -> Outcomes \cup {NoRow}] /\ rows'[funcId] # NoRow
          /\ \A g \in Ids : rows'[g] = NoRow => rows[g] = NoRow
      BY <2>1, <2>4, FlushedRows
    <3>3. UNCHANGED effects \/ effects' = [effects EXCEPT ![funcId] = @ + 1]
      BY <2>4
    <3> QED BY <1>3, <2>1, <2>2, <2>4, <3>1, <3>2, <3>3, StepKeepsProc DEF RemoteWrites
  <2> QED BY <1>3, <2>3, <2>4 DEF RemoteWrites
<1> QED BY <1>1, <1>2, <1>3 DEF invokeProcRemote

LEMMA CrashKeepsProc ==
  ASSUME ProcInv, CrashAndRecover
  PROVE  ProcInv'
<1>1. WfTypes'
  BY ProcedureAssumption DEF CrashAndRecover, WfTypes, Ids
<1> QED BY <1>1, StepKeepsProc DEF CrashAndRecover, ProcInv, ProcTypes

\* The stored procedures: however often the workflow crashes, is recovered and
\* fails to serialize, and although the look for a recorded output asks for the
\* wrong ID or overlooks a void one, the key of transaction_outputs lets the
\* writes of each procedure commit at most once (invokeProcLocal,
\* invokeProcRemote).
THEOREM ProcedureCommitsOnce == ProcSpec => []ProcedureOnce
<1>1. ProcInv /\ [ProcNext]_procVars => ProcInv'
  <2>1. CASE UNCHANGED procVars
    BY <2>1 DEF procVars, ProcInv, ProcTypes, Buffered, RecordedWithEffect
  <2> QED BY <2>1, LocalKeepsProc, RemoteKeepsProc, CrashKeepsProc DEF ProcNext
<1>2. ProcInv => ProcedureOnce
  BY DEF ProcInv, RecordedWithEffect, ProcedureOnce
<1> QED BY <1>1, <1>2, ProcInitInv, PTL DEF ProcSpec


-----------------------------------------------------------------------------
(* The debugger (DebugReplay) *)

\* The function ID that the execution and the replay both give operation k: one
\* for each operation before it, and one more for each timeout among them.
Timed == {"recv", "getEvent"}
TimedUpTo(n) == {j \in 1 .. n : body.ops[j] \in Timed}
FirstID(k) == (k - 1) + Cardinality(TimedUpTo(k - 1))

ReplayTypes ==
  /\ body.ops \in [Ops -> Kinds]
  /\ exec = [pc |-> exec.pc, functionID |-> exec.functionID, state |-> exec.state,
             crashes |-> exec.crashes]
  /\ exec.pc \in 1 .. BodyLength + 1
  /\ dbg = [state |-> dbg.state, pc |-> dbg.pc, functionID |-> dbg.functionID, got |-> dbg.got,
            complete |-> dbg.complete, lacking |-> dbg.lacking]
  /\ dbg.pc \in 1 .. BodyLength + 1 /\ dbg.complete \in BOOLEAN
  /\ txnOut \in [FuncIDs -> Nat] /\ opOut \in [FuncIDs -> Nat] /\ unflushed \in [FuncIDs -> Nat]

\* The execution and the replay are at the same function ID for an operation.
SameIDs == exec.functionID = FirstID(exec.pc) /\ dbg.functionID = FirstID(dbg.pc)

\* A row is that of the operation its function ID belongs to.
Txns == {"write", "read"}
TxnRows(out) ==
  \A f \in FuncIDs : out[f] # NoOutput => out[f] \in Ops /\ f = FirstID(out[f])
OpRows(out) ==
  \A f \in FuncIDs : out[f] # NoOutput =>
     \/ out[f] \in Ops /\ f = FirstID(out[f])
     \/ \E k \in Ops : \/ f = FirstID(k) /\ body.ops[k] = "sleep"
                       \/ f = FirstID(k) + 1 /\ body.ops[k] \in Timed

\* Operation k is on record, or will be before success is, or it was early.
Held(k) ==
  /\ body.ops[k] \in Txns =>
       txnOut[FirstID(k)] = k \/ (unflushed[FirstID(k)] = k /\ status = "PENDING") \/ k \in early
  /\ body.ops[k] \notin Txns \cup {"sleep"} => opOut[FirstID(k)] = k
  /\ body.ops[k] = "childStatus" => FirstID(k) \in children

\* A running execution has recorded what is behind it, and one that succeeds
\* everything, nothing having thrown.
Passed ==
  /\ status = "PENDING" => early = {}
  /\ exec.state = "running" =>
        /\ status = "PENDING"
        /\ \A k \in Ops : k < exec.pc => Held(k) /\ ~Throws(k)
  /\ ((exec.state = "ended" /\ status = "PENDING") \/ status = "SUCCESS") =>
        /\ exec.state = "ended"
        /\ \A k \in Ops : Held(k)
        /\ \A k \in 1 .. BodyLength + 1 : ~Throws(k)

\* The replay was given the right rows, and all of them if it began after the
\* end, but for those that were lacking.
Answered ==
  /\ dbg.got \in Seq(Nat) /\ Len(dbg.got) = dbg.pc - 1
  /\ \A k \in 1 .. Len(dbg.got) : dbg.got[k] = k
  /\ dbg.complete =>
        /\ status = "SUCCESS" /\ dbg.state # "threw"
        /\ dbg.state = "debuggerError" => dbg.pc \in dbg.lacking
        /\ \A k \in Ops : k \in early => k \in dbg.lacking \/ txnOut[FirstID(k)] = k

ReplayInv ==
  /\ ReplayTypes /\ SameIDs
  /\ TxnRows(txnOut) /\ TxnRows(unflushed) /\ OpRows(opOut)
  /\ Passed /\ Answered

\* No sleep of no length: it takes a function ID only in the replay.
IDsAgree == \A k \in Ops : body.ops[k] # "sleep0"

-----------------------------------------------------------------------------
\* How many function IDs timeouts take, up to an operation.
LEMMA TimedFacts ==
  ASSUME NEW n \in Nat
  PROVE  /\ IsFiniteSet(TimedUpTo(n)) /\ Cardinality(TimedUpTo(n)) \in Nat
         /\ Cardinality(TimedUpTo(n)) <= n
         /\ Cardinality(TimedUpTo(n + 1)) =
              Cardinality(TimedUpTo(n)) + IF body.ops[n + 1] \in Timed THEN 1 ELSE 0
<1>1. IsFiniteSet(1 .. n) /\ Cardinality(1 .. n) = n
  BY FS_Interval
<1>2. TimedUpTo(n) \subseteq 1 .. n
  BY DEF TimedUpTo
<1>3. IsFiniteSet(TimedUpTo(n)) /\ Cardinality(TimedUpTo(n)) <= n
  BY <1>1, <1>2, FS_Subset
<1>4. Cardinality(TimedUpTo(n)) \in Nat
  BY <1>3, FS_CardinalityType
<1>5. CASE body.ops[n + 1] \in Timed
  <2>1. TimedUpTo(n + 1) = TimedUpTo(n) \cup {n + 1}
    BY <1>5 DEF TimedUpTo
  <2>2. n + 1 \notin TimedUpTo(n)
    BY DEF TimedUpTo
  <2>3. Cardinality(TimedUpTo(n) \cup {n + 1}) = Cardinality(TimedUpTo(n)) + 1
    BY <1>3, <2>2, FS_AddElement
  <2> QED BY <1>3, <1>4, <1>5, <2>1, <2>3
<1>6. CASE body.ops[n + 1] \notin Timed
  <2>1. TimedUpTo(n + 1) = TimedUpTo(n)
    BY <1>6 DEF TimedUpTo
  <2> QED BY <1>3, <1>4, <1>6, <2>1
<1> QED BY <1>5, <1>6

\* The function IDs an operation takes are below those of the operations after it.
LEMMA IDsAscend ==
  ASSUME NEW k \in Ops, IDsAgree
  PROVE  /\ FirstID(k) \in FuncIDs /\ FirstID(k + 1) \in Nat
         /\ FirstID(k + 1) = FirstID(k) + IDsTaken(body.ops[k])
         /\ FirstID(k + 1) = FirstID(k) + IDsReplayed(body.ops[k])
         /\ \A j \in Ops : k < j => FirstID(k + 1) <= FirstID(j)
<1>1. k \in Nat /\ k - 1 \in Nat /\ k <= BodyLength /\ BodyLength \in Nat /\ (k - 1) + 1 = k /\ (k + 1) - 1 = k
  BY ReplayAssumption DEF Ops
<1>2. /\ Cardinality(TimedUpTo(k - 1)) \in Nat /\ Cardinality(TimedUpTo(k - 1)) <= k - 1
      /\ Cardinality(TimedUpTo(k)) =
           Cardinality(TimedUpTo(k - 1)) + IF body.ops[k] \in Timed THEN 1 ELSE 0
  BY <1>1, TimedFacts
<1>3. FirstID(k) \in FuncIDs
  BY <1>1, <1>2 DEF FirstID, FuncIDs
<1>4. FirstID(k) = (k - 1) + Cardinality(TimedUpTo(k - 1)) /\ FirstID(k + 1) = k + Cardinality(TimedUpTo(k))
  BY <1>1 DEF FirstID
<1>5. IDsTaken(body.ops[k]) = (IF body.ops[k] \in Timed THEN 2 ELSE 1) /\ IDsReplayed(body.ops[k]) = IDsTaken(body.ops[k])
  BY DEF IDsTaken, IDsReplayed, Timed, IDsAgree
<1>6. ASSUME NEW j \in Ops, k < j PROVE FirstID(k + 1) <= FirstID(j)
  <2>1. j \in Nat /\ j - 1 \in Nat /\ k <= j - 1
    BY <1>1, <1>6 DEF Ops
  <2>2. TimedUpTo(k) \subseteq TimedUpTo(j - 1)
    BY <1>1, <2>1 DEF TimedUpTo
  <2>3. IsFiniteSet(TimedUpTo(j - 1)) /\ Cardinality(TimedUpTo(j - 1)) \in Nat /\ Cardinality(TimedUpTo(k)) \in Nat
    BY <1>1, <2>1, TimedFacts
  <2>4. Cardinality(TimedUpTo(k)) <= Cardinality(TimedUpTo(j - 1))
    BY <2>2, <2>3, FS_Subset
  <2>5. FirstID(j) = (j - 1) + Cardinality(TimedUpTo(j - 1))
    BY DEF FirstID
  <2> QED BY <1>1, <1>4, <2>1, <2>3, <2>4, <2>5
<1> QED BY <1>1, <1>2, <1>3, <1>4, <1>5, <1>6

\* No two operations share a function ID, nor is one the ID of another's timeout.
LEMMA IDsDistinct ==
  ASSUME NEW j \in Ops, NEW k \in Ops, IDsAgree
  PROVE  /\ FirstID(j) = FirstID(k) => j = k
         /\ FirstID(k) # FirstID(j) + 1 \/ body.ops[j] \notin Timed
<1>1. j \in Nat /\ k \in Nat /\ FirstID(j) \in Nat /\ FirstID(k) \in Nat
  BY IDsAscend DEF Ops, FuncIDs
<1>2. IDsTaken(body.ops[j]) >= 1 /\ IDsTaken(body.ops[k]) >= 1 /\ (body.ops[j] \in Timed => IDsTaken(body.ops[j]) = 2)
      /\ IDsTaken(body.ops[j]) \in Nat /\ IDsTaken(body.ops[k]) \in Nat
  BY DEF IDsTaken, Timed, IDsAgree
<1>3. j < k => FirstID(j) + IDsTaken(body.ops[j]) <= FirstID(k)
  BY IDsAscend
<1>4. k < j => FirstID(k) + IDsTaken(body.ops[k]) <= FirstID(j)
  BY IDsAscend
<1> QED BY <1>1, <1>2, <1>3, <1>4

\* What two sets of rows have together.
LEMMA PlusRows ==
  ASSUME NEW r \in [FuncIDs -> Nat], NEW m \in [FuncIDs -> Nat]
  PROVE  /\ Plus(r, m) \in [FuncIDs -> Nat]
         /\ \A f \in FuncIDs : Plus(r, m)[f] = IF r[f] # NoOutput THEN r[f] ELSE m[f]
         /\ TxnRows(r) /\ TxnRows(m) => TxnRows(Plus(r, m))
         /\ OpRows(r) /\ OpRows(m) => OpRows(Plus(r, m))
<1>1. /\ Plus(r, m) \in [FuncIDs -> Nat]
      /\ \A f \in FuncIDs : Plus(r, m)[f] = IF r[f] # NoOutput THEN r[f] ELSE m[f]
  BY DEF Plus
<1>2. TxnRows(r) /\ TxnRows(m) => TxnRows(Plus(r, m))
  BY <1>1 DEF TxnRows
<1>3. OpRows(r) /\ OpRows(m) => OpRows(Plus(r, m))
  BY <1>1 DEF OpRows
<1> QED BY <1>1, <1>2, <1>3

\* The rows an operation adds.
LEMMA OnlyRows ==
  ASSUME NEW k \in Ops, IDsAgree, NEW n \in Nat
  PROVE  /\ Only(FirstID(k), n) \in [FuncIDs -> Nat]
         /\ Only(FirstID(k), n)[FirstID(k)] = n
         /\ \A f \in FuncIDs : f # FirstID(k) => Only(FirstID(k), n)[f] = NoOutput
         /\ n = k => TxnRows(Only(FirstID(k), n)) /\ OpRows(Only(FirstID(k), n))
         /\ body.ops[k] = "sleep" => OpRows(Only(FirstID(k), n))
<1>1. FirstID(k) \in FuncIDs
  BY IDsAscend
<1>2. /\ Only(FirstID(k), n) \in [FuncIDs -> Nat]
      /\ Only(FirstID(k), n)[FirstID(k)] = n
      /\ \A f \in FuncIDs : f # FirstID(k) => Only(FirstID(k), n)[f] = NoOutput
  BY <1>1 DEF Only, NoneYet, NoOutput
<1>3. n = k => TxnRows(Only(FirstID(k), n)) /\ OpRows(Only(FirstID(k), n))
  BY <1>2 DEF TxnRows, OpRows
<1>4. body.ops[k] = "sleep" => OpRows(Only(FirstID(k), n))
  BY <1>2 DEF OpRows
<1> QED BY <1>2, <1>3, <1>4

\* Those of one with a timeout.
LEMMA TimedRows ==
  ASSUME NEW k \in Ops, IDsAgree, body.ops[k] \in Timed
  PROVE  LET m == [Only(FirstID(k), k) EXCEPT ![FirstID(k) + 1] = Timer]
         IN  m \in [FuncIDs -> Nat] /\ m[FirstID(k)] = k /\ OpRows(m)
<1> DEFINE o == Only(FirstID(k), k)
           m == [o EXCEPT ![FirstID(k) + 1] = Timer]
<1>1. /\ k \in Nat /\ Timer \in Nat
      /\ FirstID(k) \in FuncIDs /\ FirstID(k) + 1 # FirstID(k)
  BY IDsAscend, ReplayAssumption DEF Ops, Timer, FuncIDs
<1>2. /\ o \in [FuncIDs -> Nat] /\ o[FirstID(k)] = k
      /\ \A f \in FuncIDs : f # FirstID(k) => o[f] = NoOutput
  BY <1>1, OnlyRows
<1> HIDE DEF o
<1>3. m \in [FuncIDs -> Nat] /\ m[FirstID(k)] = k
  BY <1>1, <1>2
<1>4. \A f \in FuncIDs : f = FirstID(k) \/ f = FirstID(k) + 1 \/ m[f] = NoOutput
  BY <1>2
<1> HIDE DEF m
<1>5. OpRows(m)
  BY <1>3, <1>4 DEF OpRows
<1> QED BY <1>3, <1>5 DEF m, o

\* An operation is found under its function ID or not at all.
LEMMA OwnRow ==
  ASSUME NEW k \in Ops, IDsAgree
  PROVE  /\ \A out : TxnRows(out) => out[FirstID(k)] \in {NoOutput, k}
         /\ \A out : OpRows(out) /\ body.ops[k] # "sleep" => out[FirstID(k)] \in {NoOutput, k}
<1>1. FirstID(k) \in FuncIDs
  BY IDsAscend
<1>2. ASSUME NEW out, TxnRows(out), out[FirstID(k)] # NoOutput PROVE out[FirstID(k)] = k
  BY <1>1, <1>2, IDsDistinct DEF TxnRows
<1>3. ASSUME NEW out, OpRows(out), body.ops[k] # "sleep", out[FirstID(k)] # NoOutput
      PROVE  out[FirstID(k)] = k
  BY <1>1, <1>3, IDsDistinct DEF OpRows
<1> QED BY <1>2, <1>3

\* With the workflow its function IDs stay.
LEMMA FirstIDStays == ASSUME body' = body PROVE \A k \in Ops : FirstID(k)' = FirstID(k)
  BY DEF FirstID, TimedUpTo

\* What the tables hold after an operation: all they held, and the row of k.
LEMMA RecordsRows ==
  ASSUME ReplayInv, IDsAgree, NEW k \in Ops, NEW kind \in Kinds,
         kind = body.ops[k] \/ (kind = "write" /\ body.ops[k] = "read"),
         RecordsOf(k, kind, FirstID(k))
  PROVE  /\ txnOut' \in [FuncIDs -> Nat] /\ opOut' \in [FuncIDs -> Nat] /\ unflushed' \in [FuncIDs -> Nat]
         /\ TxnRows(txnOut') /\ TxnRows(unflushed') /\ OpRows(opOut')
         /\ \A f \in FuncIDs :
              /\ txnOut[f] # NoOutput => txnOut'[f] = txnOut[f]
              /\ opOut[f] # NoOutput => opOut'[f] = opOut[f]
              /\ unflushed[f] # NoOutput => unflushed'[f] # NoOutput \/ txnOut'[f] # NoOutput
         /\ kind \in Txns => txnOut'[FirstID(k)] # NoOutput \/ unflushed'[FirstID(k)] # NoOutput
         /\ kind \notin Txns \cup {"sleep"} => opOut'[FirstID(k)] # NoOutput
<1> DEFINE f == FirstID(k)
           o == Only(f, k)
<1>1. /\ txnOut \in [FuncIDs -> Nat] /\ opOut \in [FuncIDs -> Nat] /\ unflushed \in [FuncIDs -> Nat]
      /\ TxnRows(txnOut) /\ TxnRows(unflushed) /\ OpRows(opOut)
  BY DEF ReplayInv, ReplayTypes
<1>2. f \in FuncIDs /\ k \in Nat /\ k # NoOutput
  BY IDsAscend DEF Ops, NoOutput
<1>3. o \in [FuncIDs -> Nat] /\ o[f] = k /\ TxnRows(o) /\ OpRows(o)
  BY <1>2, OnlyRows
<1>4. NoneYet \in [FuncIDs -> Nat] /\ TxnRows(NoneYet)
  BY DEF NoneYet, NoOutput, TxnRows
<1>5. kind # "sleep0"
  BY DEF IDsAgree
<1> HIDE DEF f, o
<1>6. CASE kind = "read"
  <2>1. UNCHANGED <<txnOut, opOut>> /\ unflushed' = IF txnOut[f] # NoOutput THEN unflushed ELSE Plus(unflushed, o)
    BY <1>6 DEF RecordsOf, f, o
  <2> QED BY <1>1, <1>2, <1>3, <1>6, <2>1, PlusRows DEF f, Txns
<1>7. CASE kind = "write"
  <2>1. txnOut' = Plus(txnOut, Plus(unflushed, o)) /\ unflushed' = NoneYet /\ UNCHANGED opOut
    BY <1>7 DEF RecordsOf, f, o
  <2>2. /\ Plus(unflushed, o) \in [FuncIDs -> Nat] /\ TxnRows(Plus(unflushed, o))
        /\ \A g \in FuncIDs : Plus(unflushed, o)[g] = IF unflushed[g] # NoOutput THEN unflushed[g] ELSE o[g]
    BY <1>1, <1>3, PlusRows
  <2>3. /\ txnOut' \in [FuncIDs -> Nat] /\ TxnRows(txnOut')
        /\ \A g \in FuncIDs : txnOut'[g] = IF txnOut[g] # NoOutput THEN txnOut[g] ELSE Plus(unflushed, o)[g]
    BY <1>1, <2>1, <2>2, PlusRows
  <2> QED BY <1>1, <1>2, <1>3, <1>4, <1>7, <2>1, <2>2, <2>3 DEF f, Txns
<1>8. ASSUME txnOut' = Plus(txnOut, unflushed) /\ unflushed' = NoneYet
      PROVE  /\ txnOut' \in [FuncIDs -> Nat] /\ unflushed' \in [FuncIDs -> Nat]
             /\ TxnRows(txnOut') /\ TxnRows(unflushed')
             /\ \A g \in FuncIDs :
                  /\ txnOut[g] # NoOutput => txnOut'[g] = txnOut[g]
                  /\ unflushed[g] # NoOutput => txnOut'[g] # NoOutput
  BY <1>1, <1>4, <1>8, PlusRows
<1>9. ASSUME NEW m \in [FuncIDs -> Nat], OpRows(m), opOut' = Plus(opOut, m)
      PROVE  /\ opOut' \in [FuncIDs -> Nat] /\ OpRows(opOut')
             /\ \A g \in FuncIDs : opOut[g] # NoOutput => opOut'[g] = opOut[g]
             /\ m[f] = k => opOut'[f] # NoOutput
  BY <1>1, <1>2, <1>9, PlusRows
<1>10. CASE kind \in {"step", "send", "setEvent"}
  <2>1. txnOut' = Plus(txnOut, unflushed) /\ unflushed' = NoneYet /\ opOut' = Plus(opOut, o)
    BY <1>10 DEF RecordsOf, f, o
  <2> QED BY <1>3, <1>8, <1>9, <1>10, <2>1 DEF f, Txns
<1>11. CASE kind \in {"recv", "getEvent"}
  <2> DEFINE m == [o EXCEPT ![f + 1] = Timer]
  <2>1. m \in [FuncIDs -> Nat] /\ OpRows(m) /\ m[f] = k
    BY <1>11, TimedRows DEF f, o, Timed
  <2>2. opOut' = Plus(opOut, m)
    BY <1>11 DEF RecordsOf, f, o
  <2> HIDE DEF m
  <2>3. (txnOut' = Plus(txnOut, unflushed) /\ unflushed' = NoneYet) \/ UNCHANGED <<txnOut, unflushed>>
    BY <1>11 DEF RecordsOf
  <2> QED BY <1>1, <1>8, <1>9, <1>11, <2>1, <2>2, <2>3 DEF f, Txns
<1>12. CASE kind = "sleep"
  <2>1. Timer \in Nat /\ Only(f, Timer) \in [FuncIDs -> Nat] /\ OpRows(Only(f, Timer))
    BY <1>12, OnlyRows, ReplayAssumption DEF f, Timer
  <2>2. opOut' = Plus(opOut, Only(f, Timer)) /\ UNCHANGED <<txnOut, unflushed>>
    BY <1>12 DEF RecordsOf, f
  <2> QED BY <1>1, <1>9, <1>12, <2>1, <2>2 DEF Txns
<1>13. CASE kind \in {"childStatus", "retrieveStatus"}
  <2>1. opOut' = Plus(opOut, o) /\ UNCHANGED <<txnOut, unflushed>>
    BY <1>13 DEF RecordsOf, f, o
  <2> QED BY <1>1, <1>3, <1>9, <1>13, <2>1 DEF f, Txns
<1> QED BY <1>5, <1>6, <1>7, <1>10, <1>11, <1>12, <1>13 DEF Kinds

\* Rows that are there stay with their operation.
LEMMA HeldStays ==
  ASSUME ReplayInv, IDsAgree, NEW k \in Ops, Held(k), body' = body, status' = status,
         TxnRows(txnOut'), TxnRows(unflushed'), OpRows(opOut'), children \subseteq children', early \subseteq early',
         \A f \in FuncIDs :
              /\ txnOut[f] # NoOutput => txnOut'[f] = txnOut[f]
              /\ opOut[f] # NoOutput => opOut'[f] = opOut[f]
              /\ unflushed[f] # NoOutput => unflushed'[f] # NoOutput \/ txnOut'[f] # NoOutput
  PROVE  Held(k)'
<1>1. FirstID(k) \in FuncIDs /\ k # NoOutput /\ FirstID(k)' = FirstID(k)
  BY IDsAscend, FirstIDStays DEF Ops, NoOutput
<1>2. txnOut'[FirstID(k)] \in {NoOutput, k} /\ unflushed'[FirstID(k)] \in {NoOutput, k}
  BY OwnRow
<1> QED BY <1>1, <1>2 DEF Held

\* Of the tables, what an operation of the execution or of the replay may do.
RowsGrow ==
  /\ txnOut' \in [FuncIDs -> Nat] /\ opOut' \in [FuncIDs -> Nat] /\ unflushed' \in [FuncIDs -> Nat]
  /\ TxnRows(txnOut') /\ TxnRows(unflushed') /\ OpRows(opOut')
  /\ children \subseteq children' /\ early \subseteq early'
  /\ \A f \in FuncIDs :
       /\ txnOut[f] # NoOutput => txnOut'[f] = txnOut[f]
       /\ opOut[f] # NoOutput => opOut'[f] = opOut[f]
       /\ unflushed[f] # NoOutput => unflushed'[f] # NoOutput \/ txnOut'[f] # NoOutput

\* The rows stay those of their operations, as the workflow does.
LEMMA RowsPrimed ==
  ASSUME body' = body
  PROVE  /\ \A k : FirstID(k)' = FirstID(k)
         /\ \A k : Throws(k)' = Throws(k)
         /\ TxnRows(txnOut') => TxnRows(txnOut)'
         /\ TxnRows(unflushed') => TxnRows(unflushed)'
         /\ OpRows(opOut') => OpRows(opOut)'
  BY DEF FirstID, TimedUpTo, Throws, TxnRows, OpRows

\* An action that leaves the tables alone.
LEMMA RowsSame ==
  ASSUME ReplayInv, UNCHANGED <<txnOut, opOut, unflushed, children, early>>
  PROVE  RowsGrow
  BY DEF ReplayInv, ReplayTypes, RowsGrow

\* While the tables only grow, what has been passed stays on record.
LEMMA PassedStays ==
  ASSUME ReplayInv, IDsAgree, RowsGrow, body' = body, exec' = exec, status' = status, early' = early
  PROVE  Passed'
<1>1. \A k \in Ops : Held(k) => Held(k)'
  BY HeldStays DEF RowsGrow
<1>2. \A k : Throws(k)' = Throws(k)
  BY RowsPrimed
<1>3. Passed
  BY DEF ReplayInv
<1> QED BY <1>1, <1>2, <1>3 DEF Passed

-----------------------------------------------------------------------------
\* The execution leaves the replay alone, and a recorded success too.
LEMMA ReplayWaits ==
  ASSUME ReplayInv, IDsAgree, body' = body, dbg' = dbg,
         status = "SUCCESS" => status' = "SUCCESS" /\ early' = early,
         \A f \in FuncIDs : txnOut[f] # NoOutput => txnOut'[f] = txnOut[f]
  PROVE  Answered' /\ dbg'.functionID = FirstID(dbg.pc)'
<1>1. \A k : FirstID(k)' = FirstID(k)
  BY RowsPrimed
<1>2. \A k \in Ops : FirstID(k) \in FuncIDs /\ k # NoOutput
  BY IDsAscend DEF Ops, NoOutput
<1>3. dbg.complete => \A k \in Ops : k \in early' => k \in dbg.lacking \/ txnOut'[FirstID(k)] = k
  BY <1>2 DEF ReplayInv, Answered
<1> QED BY <1>1, <1>3 DEF ReplayInv, Answered, SameIDs

\* One operation of the execution: it adds its row and passes on.
LEMMA ExecuteOpKeeps == ASSUME ReplayInv, IDsAgree, ExecuteOp PROVE ReplayInv'
<1> PICK k : k = exec.pc
  OBVIOUS
<1> DEFINE kind == body.ops[k]
           recorded == IF Throws(k) /\ kind = "read" THEN "write" ELSE kind
<1>1. /\ exec.state = "running" /\ k \in Ops /\ k \in Nat /\ exec.functionID = FirstID(k) /\ kind \in Kinds
      /\ status = "PENDING" /\ \A j \in Ops : j < k => Held(j) /\ ~Throws(j)
      /\ early = {}
  BY ReplayAssumption DEF ReplayInv, ReplayTypes, SameIDs, Passed, ExecuteOp, Executing, Ops
<1>2. recorded \in Kinds /\ (recorded = kind \/ (recorded = "write" /\ kind = "read"))
  BY <1>1 DEF Kinds
<1>3. /\ RecordsOf(k, recorded, FirstID(k))
      /\ body' = body /\ children' = children /\ status' = status /\ dbg' = dbg /\ early' = early
      /\ \E s \in {"running", "waiting", "throwing"} :
           /\ exec' = [exec EXCEPT !.pc = @ + 1, !.functionID = @ + IDsTaken(kind), !.state = s]
           /\ s = "running" <=> ~Throws(k)
  BY <1>1 DEF ExecuteOp
<1>4. ~AtChild /\ (kind = "childStatus" => FirstID(k) \in children)
  BY <1>1 DEF ExecuteOp, AtChild
<1> HIDE DEF recorded
<1>5. /\ RowsGrow
      /\ recorded \in Txns => txnOut'[FirstID(k)] # NoOutput \/ unflushed'[FirstID(k)] # NoOutput
      /\ recorded \notin Txns \cup {"sleep"} => opOut'[FirstID(k)] # NoOutput
  <2>1. \A f \in FuncIDs :
              /\ txnOut[f] # NoOutput => txnOut'[f] = txnOut[f]
              /\ opOut[f] # NoOutput => opOut'[f] = opOut[f]
              /\ unflushed[f] # NoOutput => unflushed'[f] # NoOutput \/ txnOut'[f] # NoOutput
    BY <1>1, <1>2, <1>3, RecordsRows
  <2>2. /\ txnOut' \in [FuncIDs -> Nat] /\ opOut' \in [FuncIDs -> Nat] /\ unflushed' \in [FuncIDs -> Nat]
        /\ TxnRows(txnOut') /\ TxnRows(unflushed') /\ OpRows(opOut')
    BY <1>1, <1>2, <1>3, RecordsRows
  <2>3. /\ recorded \in Txns => txnOut'[FirstID(k)] # NoOutput \/ unflushed'[FirstID(k)] # NoOutput
        /\ recorded \notin Txns \cup {"sleep"} => opOut'[FirstID(k)] # NoOutput
    BY <1>1, <1>2, <1>3, RecordsRows
  <2> QED BY <1>3, <2>1, <2>2, <2>3 DEF RowsGrow
<1>6. \A j : FirstID(j)' = FirstID(j) /\ Throws(j)' = Throws(j)
  BY <1>3, RowsPrimed
<1>7. Held(k)'
  <2>1. FirstID(k) \in FuncIDs /\ FirstID(k)' = FirstID(k)
    BY <1>1, <1>6, IDsAscend
  <2>2. txnOut'[FirstID(k)] \in {NoOutput, k} /\ unflushed'[FirstID(k)] \in {NoOutput, k}
        /\ (kind # "sleep" => opOut'[FirstID(k)] \in {NoOutput, k})
    BY <1>1, <1>5, OwnRow DEF RowsGrow
  <2>3. (kind \in Txns => recorded \in Txns) /\ (kind \notin Txns => recorded = kind)
    BY <1>2 DEF Txns
  <2> QED BY <1>1, <1>3, <1>4, <1>5, <2>1, <2>2, <2>3 DEF Held
<1>8. \A j \in Ops : j < k => Held(j)' /\ ~Throws(j)'
  BY <1>1, <1>3, <1>5, <1>6, HeldStays DEF RowsGrow
<1>9. /\ exec'.pc = k + 1 /\ exec'.functionID = FirstID(k + 1)
      /\ exec'.state \in {"running", "waiting", "throwing"} /\ (exec'.state = "running" => ~Throws(k))
      /\ exec' = [pc |-> exec'.pc, functionID |-> exec'.functionID, state |-> exec'.state,
                  crashes |-> exec'.crashes]
  <2>1. exec = [pc |-> exec.pc, functionID |-> exec.functionID, state |-> exec.state,
                crashes |-> exec.crashes]
    BY DEF ReplayInv, ReplayTypes
  <2>2. FirstID(k + 1) = FirstID(k) + IDsTaken(kind)
    BY <1>1, IDsAscend
  <2> QED BY <1>1, <1>3, <2>1, <2>2
<1>10. Passed'
  <2>1. \A j \in Ops : j < exec'.pc => j < k \/ j = k
    BY <1>1, <1>9 DEF Ops
  <2>2. exec'.state = "running" => \A j \in Ops : j < exec'.pc => Held(j)' /\ ~Throws(j)'
    BY <1>6, <1>7, <1>8, <1>9, <2>1
  <2> QED BY <1>1, <1>3, <1>9, <2>2 DEF Passed
<1>11. ReplayTypes'
  BY SMTT(30), <1>1, <1>3, <1>5, <1>9, ReplayAssumption DEF ReplayInv, ReplayTypes, RowsGrow, Ops
<1>12. Answered' /\ SameIDs'
  BY <1>3, <1>5, <1>6, <1>9, ReplayWaits DEF SameIDs, RowsGrow
<1> QED BY <1>3, <1>5, <1>10, <1>11, <1>12, RowsPrimed DEF ReplayInv, RowsGrow

\* The first IDs of all.
LEMMA FirstOfAll == FirstID(1) = 0
<1>1. TimedUpTo(0) = {}
  BY DEF TimedUpTo
<1> QED BY <1>1, FS_EmptySet DEF FirstID

\* The other steps of the execution.
LEMMA ExecutionKeeps ==
  ASSUME ReplayInv, IDsAgree,
         StartChild \/ ExecutionThrows \/ ExecutionReturns \/ flushWorkflowResultBuffer \/ flushWorkflowStatusBuffer
         \/ ExecutionCrashes
  PROVE  ReplayInv'
<1>1. /\ body' = body /\ dbg' = dbg /\ opOut' = opOut /\ BodyLength \in Nat /\ 1 \in 1 .. BodyLength + 1
      /\ exec.pc \in 1 .. BodyLength + 1
      /\ txnOut \in [FuncIDs -> Nat] /\ opOut \in [FuncIDs -> Nat] /\ unflushed \in [FuncIDs -> Nat]
      /\ TxnRows(txnOut) /\ TxnRows(unflushed) /\ OpRows(opOut) /\ Passed
      /\ exec = [pc |-> exec.pc, functionID |-> exec.functionID, state |-> exec.state,
                  crashes |-> exec.crashes]
      /\ exec.functionID = FirstID(exec.pc)
  BY ReplayAssumption DEF ReplayInv, ReplayTypes, SameIDs, StartChild, ExecutionThrows, ExecutionReturns,
     flushWorkflowResultBuffer, flushWorkflowStatusBuffer, ExecutionCrashes
<1>2. NoneYet \in [FuncIDs -> Nat] /\ TxnRows(NoneYet)
  BY DEF NoneYet, NoOutput, TxnRows
<1>3. Plus(txnOut, unflushed) \in [FuncIDs -> Nat] /\ TxnRows(Plus(txnOut, unflushed))
      /\ \A f \in FuncIDs : Plus(txnOut, unflushed)[f] = IF txnOut[f] # NoOutput THEN txnOut[f] ELSE unflushed[f]
  BY <1>1, PlusRows
<1>4. /\ txnOut' \in [FuncIDs -> Nat] /\ unflushed' \in [FuncIDs -> Nat]
      /\ TxnRows(txnOut') /\ TxnRows(unflushed')
  BY <1>1, <1>2, <1>3 DEF StartChild, ExecutionThrows, ExecutionReturns, flushWorkflowResultBuffer,
     flushWorkflowStatusBuffer, ExecutionCrashes
<1>5. \A j : FirstID(j)' = FirstID(j) /\ Throws(j)' = Throws(j)
  BY <1>1, RowsPrimed
<1>6. /\ exec' = [pc |-> exec'.pc, functionID |-> exec'.functionID, state |-> exec'.state,
                  crashes |-> exec'.crashes]
      /\ exec'.pc \in 1 .. BodyLength + 1 /\ exec'.functionID = FirstID(exec'.pc)
  <2>1. CASE StartChild \/ flushWorkflowResultBuffer \/ flushWorkflowStatusBuffer
    BY <1>1, <2>1 DEF StartChild, flushWorkflowResultBuffer, flushWorkflowStatusBuffer
  <2>2. CASE ExecutionThrows \/ ExecutionReturns
    BY <1>1, <2>2 DEF ExecutionThrows, ExecutionReturns
  <2>3. CASE ExecutionCrashes
    BY <1>1, <2>3, FirstOfAll DEF ExecutionCrashes
  <2> QED BY <2>1, <2>2, <2>3
<1>7. /\ status = "SUCCESS" => status' = "SUCCESS" /\ early' = early
      /\ \A f \in FuncIDs : txnOut[f] # NoOutput => txnOut'[f] = txnOut[f]
  BY <1>1, <1>3 DEF Passed, StartChild, ExecutionThrows, ExecutionReturns, flushWorkflowResultBuffer,
     flushWorkflowStatusBuffer, ExecutionCrashes
<1>8. Passed'
  <2>1. CASE StartChild
    <3>1. RowsGrow
      BY <1>1, <2>1 DEF RowsGrow, StartChild
    <3> QED BY <2>1, <3>1, PassedStays DEF StartChild
  <2>2. CASE ExecutionThrows
    BY <1>1, <2>2 DEF Passed, ExecutionThrows
  <2>3. CASE ExecutionReturns
    <3>1. exec.state = "running" /\ exec.pc = BodyLength + 1 /\ ~Throws(BodyLength + 1)
          /\ exec'.state = "ended" /\ UNCHANGED <<body, txnOut, opOut, children, unflushed, status, early>>
      BY <1>1, <2>3 DEF ExecutionReturns
    <3>2. status = "PENDING" /\ early = {} /\ \A j \in Ops : Held(j) /\ ~Throws(j)
      BY <1>1, <3>1 DEF Passed, Ops
    <3>3. \A j \in Ops : Held(j)'
      BY <1>5, <3>1, <3>2 DEF Held
    <3>4. \A j \in 1 .. BodyLength + 1 : ~Throws(j)'
      BY <1>1, <1>5, <3>1, <3>2 DEF Ops
    <3> QED BY <3>1, <3>2, <3>3, <3>4 DEF Passed
  <2>4. ASSUME UNCHANGED <<body, opOut, children>>, NEW j \in Ops, Held(j), TxnRows(txnOut'),
               \A f \in FuncIDs : txnOut[f] # NoOutput => txnOut'[f] = txnOut[f],
               early \subseteq early', unflushed[FirstID(j)] = j =>
                  txnOut'[FirstID(j)] # NoOutput \/ j \in early' \/ status # "PENDING"
        PROVE  Held(j)'
    <3>1. FirstID(j) \in FuncIDs /\ FirstID(j)' = FirstID(j) /\ j # NoOutput
      BY <1>5, IDsAscend DEF Ops, NoOutput
    <3>2. txnOut'[FirstID(j)] \in {NoOutput, j}
      BY <2>4, OwnRow
    <3> QED BY <2>4, <3>1, <3>2 DEF Held
  <2>5. CASE flushWorkflowResultBuffer
    <3>1. exec.state = "ended" /\ status' = status /\ txnOut' = Plus(txnOut, unflushed)
          /\ UNCHANGED <<body, exec, opOut, children, early>>
      BY <2>5 DEF flushWorkflowResultBuffer
    <3>2. ASSUME NEW j \in Ops, Held(j) PROVE Held(j)'
      <4>1. FirstID(j) \in FuncIDs /\ j # NoOutput
        BY IDsAscend DEF Ops, NoOutput
      <4>2. unflushed[FirstID(j)] = j => txnOut'[FirstID(j)] # NoOutput
        BY <1>3, <3>1, <4>1
      <4> QED BY <1>4, <1>7, <2>4, <3>1, <3>2, <4>2
    <3> QED BY <1>1, <1>5, <3>1, <3>2 DEF Passed
  <2>6. CASE flushWorkflowStatusBuffer
    <3>1. exec.state = "ended" /\ status = "PENDING" /\ status' = "SUCCESS" /\ early' = InBuffer
          /\ UNCHANGED <<body, exec, txnOut, opOut, children, unflushed>>
      BY <2>6 DEF flushWorkflowStatusBuffer
    <3>2. ASSUME NEW j \in Ops PROVE Held(j)'
      <4>1. Held(j) /\ FirstID(j) \in FuncIDs /\ FirstID(j)' = FirstID(j) /\ j # NoOutput
        BY <1>1, <1>5, <3>1, IDsAscend DEF Passed, Ops, NoOutput
      <4>2. unflushed[FirstID(j)] = j => j \in early'
        BY <3>1, <4>1 DEF InBuffer
      <4>3. j \notin early
        BY <1>1, <3>1 DEF Passed
      <4> QED BY <3>1, <4>1, <4>2, <4>3 DEF Held
    <3> QED BY <1>1, <1>5, <3>1, <3>2 DEF Passed
  <2>7. CASE ExecutionCrashes /\ status = "PENDING"
    <3>1. exec'.state = "running" /\ exec'.pc = 1 /\ status = "PENDING" /\ status' = status /\ early' = {}
      BY <1>1, <2>7 DEF ExecutionCrashes, getPendingWorkflows, Passed
    <3>2. \A j \in Ops : ~(j < 1)
      BY DEF Ops
    <3> QED BY <3>1, <3>2 DEF Passed
  <2>8. CASE ExecutionCrashes /\ status # "PENDING"
    <3>1. exec'.state = exec.state
          /\ UNCHANGED <<body, txnOut, opOut, children, status, early>>
      BY <1>1, <2>8 DEF ExecutionCrashes, getPendingWorkflows
    <3>2. ASSUME NEW j \in Ops, Held(j) PROVE Held(j)'
      BY <1>5, <2>8, <3>1, <3>2 DEF Held
    <3> QED BY <1>1, <1>5, <2>8, <3>1, <3>2 DEF Passed
  <2> QED BY <2>1, <2>2, <2>3, <2>5, <2>6, <2>7, <2>8
<1>9. Answered' /\ SameIDs'
  BY <1>1, <1>5, <1>6, <1>7, ReplayWaits DEF SameIDs
<1>10. ReplayTypes'
  BY <1>1, <1>4, <1>6 DEF ReplayInv, ReplayTypes
<1> QED BY <1>1, <1>4, <1>8, <1>9, <1>10, RowsPrimed DEF ReplayInv

-----------------------------------------------------------------------------
\* An operation of the replay that finds its own row, or none.
LEMMA AnswerKeeps ==
  ASSUME ReplayInv, IDsAgree, replaying, RowsGrow, UNCHANGED <<body, exec, status, early>>,
         NEW row \in {NoOutput, dbg.pc}, dbg.complete => row # NoOutput \/ dbg.pc \in dbg.lacking, Answer(row)
  PROVE  ReplayInv'
<1> DEFINE k == dbg.pc
<1>1. /\ k \in Ops /\ k \in Nat /\ k # NoOutput /\ dbg.functionID = FirstID(k) /\ dbg.complete \in BOOLEAN
      /\ dbg = [state |-> dbg.state, pc |-> dbg.pc, functionID |-> dbg.functionID, got |-> dbg.got,
                complete |-> dbg.complete, lacking |-> dbg.lacking]
      /\ dbg.got \in Seq(Nat) /\ Len(dbg.got) = k - 1 /\ (\A j \in 1 .. Len(dbg.got) : dbg.got[j] = j)
      /\ dbg.state = "running" /\ (dbg.complete => status = "SUCCESS")
  BY ReplayAssumption DEF ReplayInv, ReplayTypes, SameIDs, Answered, replaying, Ops, NoOutput
<1>2. \A j : FirstID(j)' = FirstID(j)
  BY RowsPrimed
<1>3. /\ dbg' = [state |-> dbg'.state, pc |-> dbg'.pc, functionID |-> dbg'.functionID, got |-> dbg'.got,
                 complete |-> dbg'.complete, lacking |-> dbg'.lacking]
      /\ dbg'.pc \in 1 .. BodyLength + 1 /\ dbg'.complete = dbg.complete /\ dbg'.lacking = dbg.lacking
      /\ dbg'.functionID = FirstID(dbg'.pc)
      /\ dbg'.got \in Seq(Nat) /\ Len(dbg'.got) = dbg'.pc - 1
      /\ \A j \in 1 .. Len(dbg'.got) : dbg'.got[j] = j
      /\ dbg.complete => dbg'.state # "threw" /\ (dbg'.state = "debuggerError" => dbg'.pc \in dbg.lacking)
  <2>1. CASE row = NoOutput
    <3>1. dbg' = [dbg EXCEPT !.state = "debuggerError"] /\ (dbg.complete => dbg.pc \in dbg.lacking)
      BY <2>1 DEF Answer
    <3> QED BY <1>1, <3>1, ReplayAssumption DEF Ops
  <2>2. CASE row = k
    <3> DEFINE g == Append(dbg.got, k)
               s == IF Throws(k) THEN "threw" ELSE dbg.state
    <3>1. dbg' = [dbg EXCEPT !.got = g, !.pc = k + 1, !.functionID = FirstID(k) + IDsReplayed(body.ops[k]),
                             !.state = s]
      BY <1>1, <2>2 DEF Answer, ReplayedKind
    <3>2. g \in Seq(Nat) /\ Len(g) = k /\ \A j \in 1 .. Len(g) : g[j] = j
      BY <1>1
    <3>3. FirstID(k + 1) = FirstID(k) + IDsReplayed(body.ops[k])
      BY <1>1, IDsAscend
    <3>4. dbg.complete => ~Throws(k)
      BY <1>1, ReplayAssumption DEF ReplayInv, Passed, Ops
    <3> HIDE DEF g, s
    <3>5. /\ dbg'.pc = k + 1 /\ dbg'.functionID = FirstID(k + 1) /\ dbg'.got = g /\ dbg'.state = s
          /\ dbg'.complete = dbg.complete /\ dbg'.lacking = dbg.lacking
          /\ dbg' = [state |-> dbg'.state, pc |-> dbg'.pc, functionID |-> dbg'.functionID, got |-> dbg'.got,
                     complete |-> dbg'.complete, lacking |-> dbg'.lacking]
      BY <1>1, <3>1, <3>3
    <3>6. k + 1 \in 1 .. BodyLength + 1 /\ (k + 1) - 1 = k
      BY <1>1, ReplayAssumption DEF Ops
    <3>7. dbg.complete => s \notin {"debuggerError", "threw"}
      BY <1>1, <3>4 DEF s
    <3> QED BY <3>2, <3>5, <3>6, <3>7
  <2> QED BY <2>1, <2>2
<1>4. Answered'
  <2>1. \A j \in Ops : FirstID(j) \in FuncIDs /\ j # NoOutput
    BY IDsAscend DEF Ops, NoOutput
  <2>2. dbg.complete => \A j \in Ops : j \in early => j \in dbg.lacking \/ txnOut[FirstID(j)] = j
    BY DEF ReplayInv, Answered
  <2>3. dbg'.complete => \A j \in Ops : j \in early' => j \in dbg'.lacking \/ txnOut'[FirstID(j)'] = j
    BY <1>2, <1>3, <2>1, <2>2 DEF RowsGrow
  <2> QED BY <1>1, <1>3, <2>3 DEF Answered
<1>5. ReplayTypes' /\ SameIDs'
  BY <1>1, <1>2, <1>3 DEF ReplayInv, ReplayTypes, SameIDs, RowsGrow
<1>6. Passed'
  BY PassedStays
<1> QED BY <1>4, <1>5, <1>6, RowsPrimed DEF ReplayInv, RowsGrow

\* Every step of the replay.
LEMMA DebuggerKeeps ==
  ASSUME ReplayInv, IDsAgree,
         \/ debugWorkflow \/ ReplayTransaction \/ ReplayStep \/ ReplaySend \/ ReplayRecv
         \/ ReplaySetEvent \/ ReplayGetEvent \/ ReplayRetrievedStatus
         \/ ReplaySleep \/ ReplayChildStatus \/ ReplayEnds
  PROVE  ReplayInv'
<1> DEFINE k == dbg.pc
<1>1. replaying => k \in Ops /\ k \in Nat /\ k # NoOutput /\ dbg.functionID = FirstID(k) /\ FirstID(k) \in FuncIDs
  BY ReplayAssumption, IDsAscend DEF ReplayInv, ReplayTypes, SameIDs, replaying, Ops, NoOutput
<1>2. replaying /\ dbg.complete => Held(k) /\ status = "SUCCESS"
  BY <1>1 DEF ReplayInv, Answered, Passed
<1>3. TxnRows(txnOut) /\ OpRows(opOut)
  BY DEF ReplayInv
<1>4. ASSUME dbg' = [dbg EXCEPT !.state = dbg'.state, !.complete = dbg'.complete, !.lacking = dbg'.lacking],
             dbg'.complete \in BOOLEAN,
             dbg'.complete => status = "SUCCESS" /\ dbg'.state \notin {"debuggerError", "threw"},
             dbg'.complete => \A j \in Ops : j \in early => j \in dbg'.lacking \/ txnOut[FirstID(j)] = j,
             UNCHANGED <<body, exec, txnOut, opOut, children, unflushed, status, early>>
      PROVE  ReplayInv'
  <2>1. RowsGrow /\ Passed'
    BY <1>4, RowsSame, PassedStays
  <2>2. /\ dbg'.pc = dbg.pc /\ dbg'.functionID = dbg.functionID /\ dbg'.got = dbg.got
        /\ dbg' = [state |-> dbg'.state, pc |-> dbg'.pc, functionID |-> dbg'.functionID, got |-> dbg'.got,
                   complete |-> dbg'.complete, lacking |-> dbg'.lacking]
    BY <1>4 DEF ReplayInv, ReplayTypes
  <2>4. \A j : FirstID(j)' = FirstID(j)
    BY <1>4, RowsPrimed
  <2>3. Answered'
    BY <1>4, <2>2, <2>4 DEF ReplayInv, Answered
  <2>5. ReplayTypes' /\ SameIDs'
    BY <1>4, <2>2, <2>4 DEF ReplayInv, ReplayTypes, SameIDs
  <2> QED BY <1>4, <2>1, <2>3, <2>5, RowsPrimed DEF ReplayInv, RowsGrow
<1>5. CASE debugWorkflow
  <2>1. /\ dbg' = [dbg EXCEPT !.state = "running", !.complete = (status = "SUCCESS"),
                             !.lacking = {j \in early : \A f \in FuncIDs : txnOut[f] # j}]
        /\ UNCHANGED <<body, exec, txnOut, opOut, children, unflushed, status, early>>
    BY <1>5 DEF debugWorkflow
  <2>2. /\ dbg'.state = "running" /\ dbg'.complete = (status = "SUCCESS")
        /\ dbg'.lacking = {j \in early : \A f \in FuncIDs : txnOut[f] # j}
        /\ dbg' = [dbg EXCEPT !.state = dbg'.state, !.complete = dbg'.complete, !.lacking = dbg'.lacking]
    BY <2>1 DEF ReplayInv, ReplayTypes
  <2>3. ASSUME NEW j \in Ops, j \in early, j \notin dbg'.lacking PROVE txnOut[FirstID(j)] = j
    <3>1. PICK f \in FuncIDs : txnOut[f] = j
      BY <2>2, <2>3
    <3>2. j # NoOutput
      BY DEF Ops, NoOutput
    <3> QED BY <1>3, <3>1, <3>2 DEF TxnRows
  <2> QED BY <1>4, <2>1, <2>2, <2>3
<1>6. CASE ReplayEnds
  <2>1. /\ dbg.state = "running" /\ dbg.pc = BodyLength + 1 /\ dbg.complete \in BOOLEAN
        /\ UNCHANGED <<body, exec, txnOut, opOut, children, unflushed, status, early>>
        /\ dbg' = [dbg EXCEPT !.state = IF Throws(BodyLength + 1) THEN "threw" ELSE "returned"]
    BY <1>6, ReplayAssumption DEF ReplayEnds, ReplayInv, ReplayTypes
  <2>2. dbg.complete =>
           /\ status = "SUCCESS" /\ ~Throws(BodyLength + 1)
           /\ \A j \in Ops : j \in early => j \in dbg.lacking \/ txnOut[FirstID(j)] = j
    BY ReplayAssumption DEF ReplayInv, Answered, Passed
  <2>3. /\ dbg'.state = (IF Throws(BodyLength + 1) THEN "threw" ELSE "returned") /\ dbg'.complete = dbg.complete
        /\ dbg'.lacking = dbg.lacking
        /\ dbg' = [dbg EXCEPT !.state = dbg'.state, !.complete = dbg'.complete, !.lacking = dbg'.lacking]
    BY <2>1 DEF ReplayInv, ReplayTypes
  <2> QED BY <1>4, <2>1, <2>2, <2>3
<1>7. CASE ReplayTransaction
  <2>1. /\ replaying /\ body.ops[k] \in Txns /\ Answer(txnOut[dbg.functionID])
        /\ UNCHANGED <<body, exec, txnOut, opOut, children, unflushed, status, early>>
    BY <1>7 DEF ReplayTransaction, ReplayedKind, Txns
  <2>2. txnOut[dbg.functionID] \in {NoOutput, k}
    BY <1>1, <1>3, <2>1, OwnRow
  <2>3. dbg.complete => txnOut[dbg.functionID] # NoOutput \/ k \in dbg.lacking
    BY <1>1, <1>2, <2>1 DEF Held, ReplayInv, Answered
  <2> QED BY <2>1, <2>2, <2>3, RowsSame, AnswerKeeps
<1>8. ASSUME NEW kind \in {"step", "send", "recv", "setEvent", "getEvent", "retrieveStatus"}, AnswerRecorded(kind)
      PROVE  ReplayInv'
  <2>1. /\ replaying /\ body.ops[k] \notin Txns \cup {"sleep"} /\ Answer(opOut[dbg.functionID])
        /\ UNCHANGED <<body, exec, txnOut, opOut, children, unflushed, status, early>>
    BY <1>8 DEF AnswerRecorded, ReplayedKind, Txns
  <2>2. opOut[dbg.functionID] \in {NoOutput, k}
    BY <1>1, <1>3, <2>1, OwnRow
  <2>3. dbg.complete => opOut[dbg.functionID] # NoOutput
    BY <1>1, <1>2, <2>1 DEF Held
  <2> QED BY <2>1, <2>2, <2>3, RowsSame, AnswerKeeps
<1>9. CASE ReplaySleep
  <2>1. replaying /\ Answer(k) /\ UNCHANGED <<body, exec, txnOut, opOut, children, unflushed, status, early>>
    BY <1>9 DEF ReplaySleep
  <2> QED BY <1>1, <2>1, RowsSame, AnswerKeeps
<1>10. CASE ReplayChildStatus
  <2>1. replaying /\ body.ops[k] = "childStatus" /\ UNCHANGED <<body, exec, txnOut, children, unflushed, status, early>>
    BY <1>10 DEF ReplayChildStatus, ReplayedKind
  <2>2. CASE dbg.functionID \in children
    <3> DEFINE o == Only(FirstID(k), k)
    <3>1. opOut' = Plus(opOut, o) /\ Answer(opOut'[FirstID(k)])
      BY <1>1, <1>10, <2>1, <2>2 DEF ReplayChildStatus
    <3>2. o \in [FuncIDs -> Nat] /\ o[FirstID(k)] = k /\ OpRows(o)
      BY <1>1, <2>1, OnlyRows
    <3>3. opOut \in [FuncIDs -> Nat]
      BY DEF ReplayInv, ReplayTypes
    <3> HIDE DEF o
    <3>4. /\ opOut' \in [FuncIDs -> Nat] /\ OpRows(opOut')
          /\ \A f \in FuncIDs : opOut'[f] = IF opOut[f] # NoOutput THEN opOut[f] ELSE o[f]
      BY <1>3, <3>1, <3>2, <3>3, PlusRows
    <3>5. RowsGrow
      BY <2>1, <3>4 DEF RowsGrow, ReplayInv, ReplayTypes
    <3>6. opOut[FirstID(k)] \in {NoOutput, k}
      BY <1>1, <1>3, <2>1, OwnRow
    <3>7. opOut'[FirstID(k)] = k
      BY <1>1, <2>1, <3>2, <3>4, <3>6
    <3> QED BY <1>1, <2>1, <3>1, <3>5, <3>7, AnswerKeeps
  <2>3. CASE dbg.functionID \notin children
    <3>1. opOut' = opOut /\ Answer(NoOutput)
      BY <1>10, <2>3 DEF ReplayChildStatus
    <3>2. ~dbg.complete
      BY <1>1, <1>2, <2>1, <2>3 DEF Held
    <3> QED BY <2>1, <3>1, <3>2, RowsSame, AnswerKeeps
  <2> QED BY <2>2, <2>3
<1> QED BY <1>5, <1>6, <1>7, <1>8, <1>9, <1>10
      DEF ReplayStep, ReplaySend, ReplayRecv, ReplaySetEvent, ReplayGetEvent, ReplayRetrievedStatus

-----------------------------------------------------------------------------
\* A workflow of any length, executed with any crashes and recoveries, and
\* debugged at any time, without a sleep of no length: every operation replayed
\* answers with its own record; after a recorded success the replay does not
\* throw, and no row is missing but one that waited in the result buffer when
\* the success was written and was missing when the replay began.
THEOREM ReplayGivesOwnRecords == ReplaySpec => []ReplayFaithful
<1> DEFINE I == IDsAgree => ReplayInv
<1>1. ReplayInit => I
  <2> SUFFICES ASSUME ReplayInit, IDsAgree PROVE ReplayInv
    OBVIOUS
  <2>1. /\ exec = [pc |-> 1, functionID |-> 0, state |-> "running", crashes |-> 0]
        /\ txnOut = NoneYet /\ opOut = NoneYet /\ unflushed = NoneYet
        /\ children = {} /\ status = "PENDING" /\ early = {}
        /\ dbg = [state |-> "off", pc |-> 1, functionID |-> 0, got |-> <<>>, complete |-> FALSE,
                  lacking |-> {}]
        /\ body.ops \in [Ops -> Kinds] /\ BodyLength \in Nat
    BY ReplayAssumption DEF ReplayInit
  <2>2. NoneYet \in [FuncIDs -> Nat] /\ TxnRows(NoneYet) /\ OpRows(NoneYet)
    BY DEF NoneYet, NoOutput, TxnRows, OpRows
  <2>3. ReplayTypes
    BY <2>1, <2>2 DEF ReplayTypes
  <2>4. SameIDs
    BY <2>1, FirstOfAll DEF SameIDs
  <2>5. Passed
    BY <2>1 DEF Passed, Ops
  <2>6. Answered
    <3> DEFINE T == Seq(Nat)
    <3>1. <<>> \in T /\ Len(<<>>) = 0
      OBVIOUS
    <3> HIDE DEF T
    <3> QED BY <2>1, <3>1 DEF Answered, T
  <2> QED BY <2>1, <2>2, <2>3, <2>4, <2>5, <2>6 DEF ReplayInv
<1>2. I /\ [ReplayNext]_replayVars => I'
  <2> SUFFICES ASSUME I, [ReplayNext]_replayVars, IDsAgree' PROVE ReplayInv'
    OBVIOUS
  <2>1. body' = body
    BY DEF ReplayNext, replayVars, StartChild, ExecuteOp, ExecutionThrows, ExecutionReturns,
       flushWorkflowResultBuffer, flushWorkflowStatusBuffer, ExecutionCrashes, debugWorkflow, ReplayTransaction, ReplayStep, ReplaySend, ReplayRecv, ReplaySetEvent,
       ReplayGetEvent, ReplayRetrievedStatus, AnswerRecorded, ReplaySleep, ReplayChildStatus, ReplayEnds
  <2>2. IDsAgree /\ ReplayInv
    BY <2>1 DEF IDsAgree
  <2>3. CASE UNCHANGED replayVars
    <3>1. UNCHANGED <<body, exec, txnOut, opOut, children, unflushed, status, early, dbg>>
      BY <2>3 DEF replayVars
    <3>2. RowsGrow /\ Passed' /\ \A k : FirstID(k)' = FirstID(k)
      BY <2>2, <3>1, RowsSame, PassedStays, RowsPrimed
    <3>3. ReplayTypes' /\ SameIDs' /\ Answered'
      BY <2>2, <3>1, <3>2 DEF ReplayInv, ReplayTypes, SameIDs, Answered
    <3> QED BY <3>1, <3>2, <3>3, RowsPrimed DEF ReplayInv, RowsGrow
  <2>4. CASE ReplayNext
    BY <2>2, <2>4, ExecuteOpKeeps, ExecutionKeeps, DebuggerKeeps DEF ReplayNext
  <2> QED BY <2>3, <2>4
<1>3. I => ReplayFaithful
  BY DEF IDsAgree, ReplayInv, Answered, ReplayFaithful
<1> QED BY <1>1, <1>2, <1>3, PTL DEF ReplaySpec
=============================================================================
