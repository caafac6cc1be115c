----------------------------- MODULE HttpServer -----------------------------
(***************************************************************************)
(* One endpoint of the HTTP server, and requests that carry the same       *)
(* workflow UUID in their header: a client that retries, several clients,  *)
(* and the administration endpoints.  A workflow is reduced to one         *)
(* recorded operation, so that requests, executions in progress and what   *)
(* is recorded meet in every order.                                        *)
(***************************************************************************)
EXTENDS Naturals, FiniteSets

CONSTANTS Requests,      \* requests to the endpoint
          Endpoints      \* kinds of registered functions to consider

EndpointKinds == {"transaction", "workflow", "step", "handler"}
ASSUME HttpAssumption == Endpoints \subseteq EndpointKinds /\ IsFiniteSet(Requests)

VARIABLES api,       \* the endpoint as registered
          server,    \* of listen: where it is
          req,       \* the requests
          opRow,     \* recorded outcome of the workflow's operation
          opBuffer,  \* result of a read-only operation that a flush is to record
          wfRow,     \* workflow_status: "none", "PENDING" or an outcome
          wfBuffer,  \* output that the next flush records
          wfUser     \* user in the workflow's status

httpVars == <<api, server, req, opRow, opBuffer, wfRow, wfBuffer, wfUser>>

\* A value, nothing, an error of the client, one with a status, any other one.
Replies  == {"value", "void", "clientError", "forbidden", "error"}
Errors    == {"clientError", "forbidden", "error"}
Unset     == "none"
Users     == {"nobody", "reader", "writer"}

\* What the decorators say of the endpoint and of its class.
GetApi == Endpoints                         \* and PostApi, ...: on what they are put
Authentication == BOOLEAN
RequiredRole == {"unset", "writer"}
DefaultRequiredRole == {"unset", "writer"}
ArgSource == BOOLEAN                        \* whether an argument comes from the body
ReadOnly(kind) ==                           \* whether the operation is a read-only transaction
  IF kind \in {"transaction", "workflow"} THEN BOOLEAN ELSE {FALSE}

HttpInit ==
  /\ api \in [kind : GetApi, authMiddleware : Authentication, requiredRole : RequiredRole,
              defaultRole : DefaultRequiredRole, bodyArg : ArgSource, readOnly : BOOLEAN]
  /\ api.readOnly \in ReadOnly(api.kind)
  /\ server = "127.0.0.1"
  /\ req = [q \in Requests |-> [at |-> "absent", user |-> "nobody", body |-> FALSE, out |-> Unset, status |-> 0,
                             found |-> FALSE]]
  /\ opRow = Unset /\ opBuffer = Unset /\ wfRow = Unset /\ wfBuffer = Unset /\ wfUser = Unset

HttpRecords == <<opRow, opBuffer, wfRow, wfBuffer, wfUser>>
At(q, where) == req[q].at = where
Go(q, where, out) == req' = [req EXCEPT ![q].at = where, ![q].out = out]
GoFound(q, where, out) ==       \* ... with the outcome found on record
  req' = [req EXCEPT ![q] = [@ EXCEPT !.at = where, !.out = out, !.found = TRUE]]

\* checkPortAvailability: a port that is taken ends the process, another error
\* only warns.
listen ==
  /\ server \in {"127.0.0.1", "::1"}
  /\ \E bind \in {"free", "EADDRINUSE", "otherError"} :
        server' = IF bind = "EADDRINUSE" THEN "exited"
                  ELSE IF server = "127.0.0.1" THEN "::1" ELSE "listening"
  /\ UNCHANGED <<api, req, HttpRecords>>

Arrive(q) ==
  /\ server = "listening" /\ At(q, "absent")
  /\ \E user \in IF api.authMiddleware THEN Users ELSE {"nobody"},
        body \in IF api.bodyArg THEN BOOLEAN ELSE {FALSE} :
        req' = [req EXCEPT ![q] = [@ EXCEPT !.at = "auth", !.user = user, !.body = body]]
  /\ UNCHANGED <<api, server, HttpRecords>>

\* authMiddleware, if the class has one, turns a request away or names its user;
\* without one nobody is authenticated.
Authenticate(q) ==
  /\ At(q, "auth")
  /\ IF api.authMiddleware /\ req[q].user = "nobody" THEN Go(q, "respond", "forbidden")
     ELSE Go(q, "parse", Unset)
  /\ UNCHANGED <<api, server, HttpRecords>>

\* A POST argument needs a body.  Then the function is invoked: everything but a
\* single transaction has its status recorded first.
Parse(q) ==
  /\ At(q, "parse")
  /\ IF api.bodyArg /\ ~req[q].body
     THEN Go(q, "respond", "clientError") /\ UNCHANGED <<wfRow, wfUser>>
     ELSE /\ Go(q, IF api.kind = "handler" THEN "run" ELSE "check", Unset)
          /\ IF api.kind \in {"workflow", "step"} /\ wfRow = Unset
             THEN wfRow' = "PENDING" /\ wfUser' = req[q].user
             ELSE UNCHANGED <<wfRow, wfUser>>
  /\ UNCHANGED <<api, server, opRow, opBuffer, wfBuffer>>

\* The role of the method, or else that of its class.
getRequiredRoles == IF api.requiredRole # "unset" THEN api.requiredRole ELSE api.defaultRole

Denied(user) == getRequiredRoles # "unset" /\ user # getRequiredRoles

\* The function of a workflow endpoint checks the role before its operation, on
\* every execution; it then looks for the recorded outcome.  A transaction that
\* finds an error records it again, meets its own key and waits.
CheckRecorded(q) ==
  /\ At(q, "check")
  /\ CASE api.kind = "workflow" /\ Denied(req[q].user) -> Go(q, "finish", "forbidden")
       [] OTHER ->
            IF opRow = Unset THEN Go(q, "run", Unset)
            ELSE IF (api.kind = "transaction" \/ api.readOnly) /\ opRow \in Errors
                 THEN GoFound(q, "wait", Unset)
            ELSE GoFound(q, "finish", opRow)
  /\ UNCHANGED <<api, server, HttpRecords>>

\* The body runs, as often as executions get here; its role is checked first.
Run(q) ==
  /\ At(q, "run")
  /\ \E out \in Replies :
        /\ Denied(req[q].user) => out = "forbidden"
        /\ Go(q, IF api.kind = "handler" THEN "respond" ELSE "record", out)
  /\ UNCHANGED <<api, server, HttpRecords>>

\* Mutant: the last outcome is recorded.
RecordLastOutcome(q) ==
  /\ At(q, "record")
  /\ opRow' = req[q].out /\ Go(q, "finish", req[q].out)
  /\ UNCHANGED <<api, server, opBuffer, wfRow, wfBuffer, wfUser>>

\* The first outcome is recorded; a later one is a conflict.  The result of a
\* read-only transaction is not recorded here: it stays in the resultBuffer of
\* the execution.
RecordOutcome(q) ==
  /\ At(q, "record")
  /\ IF api.readOnly /\ req[q].out \notin Errors THEN Go(q, "finish", req[q].out) /\ UNCHANGED opRow
     ELSE IF opRow = Unset THEN opRow' = req[q].out /\ Go(q, "finish", req[q].out)
     ELSE Go(q, "wait", Unset) /\ UNCHANGED opRow
  /\ UNCHANGED <<api, server, opBuffer, wfRow, wfBuffer, wfUser>>

\* Mutant: only what a function returns is recorded.
FinishUnrecorded(q) ==
  /\ At(q, "finish")
  /\ wfBuffer' = IF req[q].out \in Errors THEN wfBuffer ELSE req[q].out
  /\ wfUser' = IF wfUser = Unset THEN req[q].user ELSE wfUser
  /\ Go(q, "respond", req[q].out)
  /\ UNCHANGED <<api, server, opRow, opBuffer, wfRow>>

\* runWorkflow: an error is recorded at once, an output buffered, and so is the
\* resultBuffer of the execution, in place of another one of this UUID.
Finish(q) ==
  /\ At(q, "finish")
  /\ IF req[q].out \in Errors
     THEN wfRow' = req[q].out /\ UNCHANGED <<wfBuffer, opBuffer>>
     ELSE /\ wfBuffer' = req[q].out /\ UNCHANGED wfRow
          /\ opBuffer' = IF api.readOnly /\ ~req[q].found THEN req[q].out ELSE opBuffer
  /\ wfUser' = IF wfUser = Unset THEN req[q].user ELSE wfUser
  /\ Go(q, "respond", req[q].out)
  /\ UNCHANGED <<api, server, opRow>>

FlushOutput ==
  /\ wfBuffer # Unset
  /\ wfRow' = wfBuffer /\ wfBuffer' = Unset
  /\ UNCHANGED <<api, server, req, opRow, opBuffer, wfUser>>

\* The results go to the other database.  A key that is taken refuses the
\* statement, and the result stays in the buffer.
FlushResults ==
  /\ opBuffer # Unset /\ opRow = Unset
  /\ opRow' = opBuffer /\ opBuffer' = Unset
  /\ UNCHANGED <<api, server, req, wfRow, wfBuffer, wfUser>>

\* getWorkflowResult of the execution that got there first.
WaitReturns(q) ==
  /\ At(q, "wait") /\ wfRow \notin {Unset, "PENDING"}
  /\ Go(q, "respond", wfRow)
  /\ UNCHANGED <<api, server, HttpRecords>>

\* A client error is 400 whatever status the error has; an error without one is
\* 500.  A recorded error has kept its code and its status.
StatusOf(out) ==
  CASE out = "value" -> 200 [] out = "void" -> 204
    [] out = "clientError" -> 400 [] out = "forbidden" -> 403 [] out = "error" -> 500

Respond(q) ==
  /\ At(q, "respond")
  /\ req' = [req EXCEPT ![q].at = "done", ![q].status = StatusOf(req[q].out)]
  /\ UNCHANGED <<api, server, HttpRecords>>

\* A recovered workflow runs for the user in its status.
getRecoveryContext == wfUser

\* The recovery endpoint executes a PENDING workflow again; the request that
\* started it may still be running.
recoveryHandler(q) ==
  /\ server = "listening" /\ At(q, "absent") /\ wfRow = "PENDING"
  /\ req' = [req EXCEPT ![q] = [@ EXCEPT !.at = "check", !.user = getRecoveryContext]]
  /\ UNCHANGED <<api, server, HttpRecords>>

HandleRequest(q) ==
  \/ Authenticate(q) \/ Parse(q) \/ CheckRecorded(q) \/ Run(q) \/ RecordOutcome(q)
  \/ Finish(q) \/ WaitReturns(q) \/ Respond(q)

HttpNext ==
  \/ listen \/ FlushOutput \/ FlushResults
  \/ \E q \in Requests : Arrive(q) \/ HandleRequest(q) \/ recoveryHandler(q)

HttpSpec == HttpInit /\ [][HttpNext]_httpVars

-----------------------------------------------------------------------------
\* As long as one user sends the requests for a workflow UUID, every answer has
\* the same status, in whatever order the requests, a recovery and the flush of
\* the output meet (wrappedHandler, runWorkflow), when the operation records its
\* outcome at once.  A read-only transaction does not: until its result is
\* flushed every request runs it, and may be answered differently.  There, as
\* everywhere, a request that found a recorded result is answered with that.  A
\* plain handler ignores the UUID, and a request that is turned away before the
\* function is not counted.
AnsweredAlike ==
  LET served == {q \in Requests : At(q, "done") /\ (api.bodyArg => req[q].body)}
      users  == {req[q].user : q \in {r \in Requests : ~At(r, "absent")}}
  IN  /\ api.kind # "handler" /\ ~api.readOnly /\ Cardinality(users) = 1 =>
           Cardinality({req[q].status : q \in served}) <= 1
      /\ \A q \in Requests :
           At(q, "done") /\ req[q].found /\ opRow \notin Errors => req[q].status = StatusOf(opRow)

\* Every request is answered: an execution that waits for another one's result
\* gets it (wrappedHandler, getWorkflowResult).
EveryRequestAnswered == \A q \in Requests : req[q].at = "auth" ~> req[q].at = "done"
=============================================================================
