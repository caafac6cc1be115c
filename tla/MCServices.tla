----------------------------- MODULE MCServices -----------------------------
(***************************************************************************)
(* What surrounds the execution of workflows in a process: its start and   *)
(* stop with the write buffers, the provisioning of the databases, the     *)
(* application database, stored procedures, the debugger, the HTTP server, *)
(* the registrations and the validation of arguments.  They share no       *)
(* state, so one run explores them one at a time: part says which one      *)
(* moves, and the others stay in an initial state.                         *)
(***************************************************************************)
EXTENDS ProcessLifecycle, Provisioning, UserDatabase, StoredProcedures,
        DebugReplay, HttpServer, Registration, DataValidation

VARIABLE part

mcVars == <<part, lifeVars, provVars, dbVars, procVars, replayVars, httpVars, regVars, passed>>

(* One initial state of each part that does not move. *)
ProvStill   == exist = {}
DbStill     == client = "pg-node"
ProcStill   == /\ \A f \in DOMAIN prog : prog[f] = [local |-> TRUE, readOnly |-> FALSE, does |-> "value"]
               /\ userDb = "knex" /\ ~wf.presetUUID
ReplayStill == body.throws = 0 /\ \A k \in DOMAIN body.ops : body.ops[k] = "write"
HttpStill   == api = [kind |-> "workflow", authMiddleware |-> FALSE, requiredRole |-> "unset",
                       defaultRole |-> "unset", bodyArg |-> FALSE, readOnly |-> FALSE]
ArgStill    == /\ passed.x = Undefined
               /\ passed.d = [type |-> "text", digits |-> 0, required |-> "OPTIONAL", defaultArgRequired |-> "OPTIONAL"]

MCInit ==
    /\ part \in {"process", "provisioning", "database", "procedures", "debugger", "http", "registration", "arguments"}
    /\ LifeInit /\ RegInit
    /\ ProvInit /\ (part # "provisioning" => ProvStill)
    /\ DbInit /\ (part # "database" => DbStill)
    /\ ProcInit /\ (part # "procedures" => ProcStill)
    /\ ReplayInit /\ (part # "debugger" => ReplayStill)
    /\ HttpInit /\ (part # "http" => HttpStill)
    /\ ArgumentInit /\ (part # "arguments" => ArgStill)

OnlyLife == UNCHANGED <<part, provVars, dbVars, procVars, replayVars, httpVars, regVars, passed>>
OnlyHttp == UNCHANGED <<part, lifeVars, provVars, dbVars, procVars, replayVars, regVars, passed>>

MCNext ==
    \/ part = "process" /\ LifeNext /\ OnlyLife
    \/ /\ part = "provisioning" /\ ProvNext
       /\ UNCHANGED <<part, lifeVars, dbVars, procVars, replayVars, httpVars, regVars, passed>>
    \/ /\ part = "database" /\ DbNext
       /\ UNCHANGED <<part, lifeVars, provVars, procVars, replayVars, httpVars, regVars, passed>>
    \/ /\ part = "procedures" /\ ProcNext
       /\ UNCHANGED <<part, lifeVars, provVars, dbVars, replayVars, httpVars, regVars, passed>>
    \/ /\ part = "debugger" /\ ReplayNext
       /\ UNCHANGED <<part, lifeVars, provVars, dbVars, procVars, httpVars, regVars, passed>>
    \/ part = "http" /\ HttpNext /\ OnlyHttp
    \/ /\ part = "registration" /\ RegNext
       /\ UNCHANGED <<part, lifeVars, provVars, dbVars, procVars, replayVars, httpVars, passed>>

LifeStarts  == part = "process" /\ Starting /\ OnlyLife
LifeFlushes == part = "process" /\ Flushing /\ OnlyLife
LifeStops   == part = "process" /\ Stopping /\ OnlyLife
HttpHandles(q) == part = "http" /\ HandleRequest(q) /\ OnlyHttp
HttpFlushes == part = "http" /\ (FlushOutput \/ FlushResults) /\ OnlyHttp

(* The event loop resumes every await whose call came back, statements of    *)
(* the databases end, and the flush worker runs every second.  Nothing makes *)
(* a workflow end: it may poll for ever.                                     *)
MCSpec ==
    /\ MCInit /\ [][MCNext]_mcVars
    /\ WF_mcVars(LifeStarts) /\ WF_mcVars(LifeFlushes) /\ WF_mcVars(LifeStops)
    /\ \A q \in Requests : WF_mcVars(HttpHandles(q))
    /\ WF_mcVars(HttpFlushes)

(* A process that is asked to stop, or whose start fails, exits, whatever    *)
(* statements of the last flush fail (runtime and executor destroy), on two  *)
(* conditions the code does not ensure: that every loop of the scheduler     *)
(* heard the stop, or failed, and that each running workflow ends at last.   *)
StopsWhenAsked ==
    (\A j \in Jobs : []<>(job[j] # "running"))
        => (phase = "stopScheduler" /\ flags.schedulerHeard ~> phase = "exited")
=============================================================================
