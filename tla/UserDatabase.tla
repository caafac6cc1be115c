---------------------------- MODULE UserDatabase ----------------------------
(***************************************************************************)
(* The application database behind the five clients (pg-node, Prisma,      *)
(* TypeORM, Knex, Drizzle): a pool of connections, the transactions that   *)
(* run on them and the query functions beside them.  The clients' own      *)
(* libraries are external: all of them check a connection out, and roll    *)
(* back what throws.                                                       *)
(***************************************************************************)
EXTENDS PostgresErrors, FiniteSets

CONSTANTS Callers,      \* activities that use the database at the same time
          Conns,        \* connections of the pool
          MaxTxns       \* bound: calls per caller

ASSUME UserDatabaseAssumption == MaxTxns \in Nat /\ "free" \notin Callers

VARIABLES client,     \* the client configureDbClient chose
          conn,       \* connection -> its holder and the writes of its open transaction
          call,       \* caller -> its call: what it runs, where it is, its connection
          table,      \* committed writes: caller and call number
          aborted,    \* calls whose transaction threw
          closed      \* destroy has ended the pool

dbVars == <<client, conn, call, table, aborted, closed>>

Free == "free"
NoTxn == [open |-> FALSE, readOnly |-> FALSE, writes |-> {}]
Quiet == [kind |-> "none", at |-> "idle", conn |-> Free, readOnly |-> FALSE, n |-> 0]

DbInit ==
  /\ client \in UserDatabaseName
  /\ conn = [c \in Conns |-> [holder |-> Free, txn |-> NoTxn]]
  /\ call = [k \in Callers |-> Quiet]
  /\ table = {} /\ aborted = {} /\ closed = FALSE

\* pool.connect: waits until a connection is free.
ConnectCall(k) ==
  /\ ~closed /\ call[k].at = "idle" /\ call[k].n < MaxTxns
  /\ \E c \in Conns, kind \in {"transaction", "queryFunction"}, ro \in BOOLEAN :
       /\ conn[c].holder = Free
       /\ kind = "queryFunction" => ro
       /\ conn' = [conn EXCEPT ![c].holder = k]
       /\ call' = [call EXCEPT ![k] = [kind |-> kind, conn |-> c, readOnly |-> ro, n |-> @.n + 1,
                                       at |-> IF kind = "transaction" THEN "begin" ELSE "query"]]
  /\ UNCHANGED <<client, table, aborted, closed>>

\* What a client asks of the server: whether a read-only transaction is one
\* there, and what a query function runs on: a connection that is given back
\* while it runs, a read-only transaction, or connections of the library.
PGNodeUserDatabase == [readOnly |-> TRUE, query |-> "released"]
PrismaUserDatabase == [readOnly |-> FALSE, query |-> "library"]
TypeORMDatabase == [readOnly |-> FALSE, query |-> "library"]
KnexUserDatabase == [readOnly |-> TRUE, query |-> "transaction"]
DrizzleUserDatabase == [readOnly |-> TRUE, query |-> "library"]

Implementation ==
  CASE client = "pg-node" -> PGNodeUserDatabase [] client = "prisma" -> PrismaUserDatabase
    [] client = "typeorm" -> TypeORMDatabase [] client = "knex" -> KnexUserDatabase
    [] client = "drizzle" -> DrizzleUserDatabase

Begin(k) ==
  /\ call[k].at = "begin"
  /\ conn' = [conn EXCEPT ![call[k].conn].txn =
                [open |-> TRUE, readOnly |-> call[k].readOnly /\ Implementation.readOnly, writes |-> @.writes]]
  /\ call' = [call EXCEPT ![k].at = "body"]
  /\ UNCHANGED <<client, table, aborted, closed>>

\* A statement of the body, on whatever transaction its connection has open;
\* outside one it commits by itself.  The server refuses a write in a
\* read-only transaction.
Write(k) ==
  /\ call[k].at = "body" /\ ~conn[call[k].conn].txn.readOnly
  /\ LET c == call[k].conn  w == [by |-> k, n |-> call[k].n] IN
     IF conn[c].txn.open
     THEN conn' = [conn EXCEPT ![c].txn.writes = @ \cup {w}] /\ UNCHANGED table
     ELSE table' = table \cup {w} /\ UNCHANGED conn
  /\ UNCHANGED <<client, call, aborted, closed>>

Committed(c) == /\ table' = table \cup conn[c].txn.writes
                /\ conn' = [conn EXCEPT ![c] = [holder |-> Free, txn |-> NoTxn]]

Commit(k) ==
  /\ call[k].at = "body"
  /\ Committed(call[k].conn)
  /\ call' = [call EXCEPT ![k] = [Quiet EXCEPT !.n = call[k].n]]
  /\ UNCHANGED <<client, aborted, closed>>

\* Mutant: the connection is released without ROLLBACK.
NotRolledBack(c) == [conn EXCEPT ![c].holder = Free]

\* The body, or COMMIT, throws: ROLLBACK, then the connection is released.
RolledBack(c) == [conn EXCEPT ![c] = [holder |-> Free, txn |-> NoTxn]]

Throw(k) ==
  /\ call[k].at = "body"
  /\ conn' = RolledBack(call[k].conn)
  /\ aborted' = aborted \cup {[by |-> k, n |-> call[k].n]}
  /\ call' = [call EXCEPT ![k] = [Quiet EXCEPT !.n = call[k].n]]
  /\ UNCHANGED <<client, table, closed>>

\* pg-node's queryFunction releases the connection as soon as the function has
\* returned its promise: its queries go on without it.
QueryFunction(k) ==
  /\ call[k].at = "query"
  /\ conn' = CASE Implementation.query = "released" -> [conn EXCEPT ![call[k].conn].holder = Free]
              [] Implementation.query = "transaction" ->
                   [conn EXCEPT ![call[k].conn].txn = [open |-> TRUE, readOnly |-> TRUE, writes |-> {}]]
              [] OTHER -> conn
  /\ call' = [call EXCEPT ![k].at = "querying"]
  /\ UNCHANGED <<client, table, aborted, closed>>

QueryDone(k) ==
  /\ call[k].at = "querying"
  /\ conn' = IF conn[call[k].conn].holder = k THEN RolledBack(call[k].conn) ELSE conn
  /\ call' = [call EXCEPT ![k] = [Quiet EXCEPT !.n = call[k].n]]
  /\ UNCHANGED <<client, table, aborted, closed>>

\* destroy: the pool ends once its connections are back.
destroyUserDatabase ==
  /\ ~closed /\ \A c \in Conns : conn[c].holder = Free
  /\ closed' = TRUE
  /\ UNCHANGED <<client, conn, call, table, aborted>>

DbNext == \/ \E k \in Callers : \/ ConnectCall(k) \/ Begin(k) \/ Write(k) \/ Commit(k) \/ Throw(k)
                                \/ QueryFunction(k) \/ QueryDone(k)
          \/ destroyUserDatabase

DbSpec == DbInit /\ [][DbNext]_dbVars

-----------------------------------------------------------------------------
\* The writes of a transaction that threw are never committed: neither by
\* itself nor, later, by another transaction on the connection it gave back
\* (transaction of the user databases).
AbortedLeavesNothing == table \cap aborted = {}
=============================================================================
