--------------------------- MODULE PostgresErrors ---------------------------
(***************************************************************************)
(* What the clients of the application database tell of an error.  Each    *)
(* reads the SQLSTATE where its own library puts it, so the error of       *)
(* another client has no code for it.                                      *)
(***************************************************************************)
EXTENDS Naturals

UserDatabaseName == {"pg-node", "prisma", "typeorm", "knex", "drizzle"}

\* Where a client looks for the SQLSTATE: error.code, error.meta.code or
\* error.driverError.code.
PGNodeErrors == "code"
PrismaErrors == "meta"
TypeORMErrors == "driverError"
KnexErrors == "code"
DrizzleErrors == "code"

ShapeOf(db) ==
  CASE db = "pg-node" -> PGNodeErrors [] db = "prisma" -> PrismaErrors [] db = "typeorm" -> TypeORMErrors
    [] db = "knex" -> KnexErrors [] db = "drizzle" -> DrizzleErrors

\* An error of the server as the library of client db throws it.
ErrorOf(db, code) == [shape |-> ShapeOf(db), code |-> code]

getPostgresErrorCode(db, err) == IF err.shape = ShapeOf(db) THEN err.code ELSE "null"

isRetriableTransactionError(db, err) == getPostgresErrorCode(db, err) = "40001"
isKeyConflictError(db, err) == getPostgresErrorCode(db, err) = "23505"
isFailedSqlTransactionError(db, err) == getPostgresErrorCode(db, err) = "25P02"
=============================================================================
