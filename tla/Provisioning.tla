---------------------------- MODULE Provisioning ----------------------------
(***************************************************************************)
(* Processes that start together on one database server.  Each is either   *)
(* `dbos migrate` or a server's init: it creates what is missing, in the   *)
(* order of the code, and looks before it creates, so another process may  *)
(* create the same object in between.                                      *)
(***************************************************************************)
EXTENDS Naturals, FiniteSets

CONSTANTS Starters,      \* processes that start
          Migrators,     \* those that run `dbos migrate`; the others start a server
          Migrations     \* number of system database migrations

ASSUME ProvisioningAssumption == Migrators \subseteq Starters /\ Migrations \in Nat \ {0}

VARIABLES step,      \* where each process is
          saw,       \* whether its last look found the object
          exist,     \* the objects of the server
          migrated,  \* migrations applied to the system database
          lock       \* the process that holds the migration lock, or "none"

provVars == <<step, saw, exist, migrated, lock>>

\* The objects, in the order in which they are looked for, and what follows.
FollowedBy == [database |-> "commands", schema |-> "table", table |-> "index",
               index |-> "sysdb", sysdb |-> "migrate"]
Objs == DOMAIN FollowedBy
\* CREATE DATABASE is the statement without IF NOT EXISTS.
Guarded == {"schema", "table", "index"}
\* A server's init takes the application database as given; `dbos migrate`
\* makes it and runs the application's migration commands.
FirstStep(p) == IF p \in Migrators THEN "database" ELSE "schema"

ProvInit ==
  /\ exist \in {{}, {"database"}}
  /\ step = [p \in Starters |-> FirstStep(p)]
  /\ saw = [p \in Starters |-> "unknown"]
  /\ migrated = 0 /\ lock = "none"

\* A server cannot connect to an application database that is not there.
LookFails(p) ==
  /\ step[p] \in Objs /\ saw[p] = "unknown" /\ p \notin Migrators
  /\ "database" \notin exist
  /\ step' = [step EXCEPT ![p] = "failed"]
  /\ UNCHANGED <<saw, exist, migrated, lock>>

\* SELECT EXISTS ..., or an attempt to connect.
Look(p) ==
  /\ step[p] \in Objs /\ saw[p] = "unknown"
  /\ p \in Migrators \/ "database" \in exist
  /\ saw' = [saw EXCEPT ![p] = IF step[p] \in exist THEN "there" ELSE "missing"]
  /\ UNCHANGED <<step, exist, migrated, lock>>

Forward(p) == /\ step' = [step EXCEPT ![p] = FollowedBy[@]]
              /\ saw' = [saw EXCEPT ![p] = "unknown"]

Skip(p) ==
  /\ step[p] \in Objs /\ saw[p] = "there"
  /\ Forward(p) /\ UNCHANGED <<exist, migrated, lock>>

\* The object was missing when looked for; a database that another process
\* created since then fails this one.
Create(p) ==
  /\ step[p] \in Objs /\ saw[p] = "missing"
  /\ IF step[p] \in exist /\ step[p] \notin Guarded
     THEN step' = [step EXCEPT ![p] = "failed"] /\ UNCHANGED <<saw, exist>>
     ELSE exist' = exist \cup {step[p]} /\ Forward(p)
  /\ UNCHANGED <<migrated, lock>>

\* The application's own migration commands; one that fails ends `dbos migrate`.
RunCommands(p) ==
  /\ step[p] = "commands"
  /\ step' \in {[step EXCEPT ![p] = "schema"], [step EXCEPT ![p] = "aborted"]}
  /\ UNCHANGED <<saw, exist, migrated, lock>>

\* migrate.latest takes the lock, or fails because another process has it.
TakeLock(p) ==
  /\ step[p] = "migrate"
  /\ IF lock = "none"
     THEN lock' = p /\ step' = [step EXCEPT ![p] = "migrating"]
     ELSE step' = [step EXCEPT ![p] = "check"] /\ UNCHANGED lock
  /\ UNCHANGED <<saw, exist, migrated>>

\* The migrations missing are applied one by one, each in its transaction.
MigrateOne(p) ==
  /\ step[p] = "migrating" /\ migrated < Migrations
  /\ migrated' = migrated + 1
  /\ UNCHANGED <<step, saw, exist, lock>>

Unlock(p) ==
  /\ step[p] = "migrating" /\ migrated = Migrations
  /\ lock' = "none" /\ step' = [step EXCEPT ![p] = "ready"]
  /\ UNCHANGED <<saw, exist, migrated>>

\* Mutant: the failed migration is always a warning.
tableAssumed == TRUE

\* A failed migration is a warning when operation_outputs is there (the first
\* migration creates it): someone else is migrating.
tableExists == migrated >= 1

CheckTable(p) ==
  /\ step[p] = "check"
  /\ step' = [step EXCEPT ![p] = IF tableExists THEN "ready" ELSE "failed"]
  /\ UNCHANGED <<saw, exist, migrated, lock>>

ProvStep(p) == Look(p) \/ LookFails(p) \/ Skip(p) \/ Create(p) \/ RunCommands(p) \/ TakeLock(p) \/ MigrateOne(p)
               \/ Unlock(p) \/ CheckTable(p)
ProvNext == \E p \in Starters : ProvStep(p)

ProvSpec == ProvInit /\ [][ProvNext]_provVars

-----------------------------------------------------------------------------
\* However the starts interleave, a process that goes on finds the tables it
\* writes to: transaction_outputs with its schema, and operation_outputs in
\* the system database, also when its own migration failed (system_database
\* init, createDBOSTables).
ReadyMeansUsable ==
  \A p \in Starters : step[p] = "ready" => Objs \subseteq exist /\ migrated >= 1
=============================================================================
