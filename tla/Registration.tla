---------------------------- MODULE Registration ----------------------------
(***************************************************************************)
(* Decorators fill the registrations of classes, methods and configured    *)
(* instances; an executor copies them into its maps when it starts and     *)
(* finds the function of a recovered workflow there by the names in its    *)
(* status.  Between two starts the application may be deployed again with  *)
(* other functions, while a workflow of the old ones is still PENDING.     *)
(***************************************************************************)
EXTENDS Naturals, FiniteSets

CONSTANTS ClassNames, FunctionNames, InstanceNames,
          MaxDeploys      \* bound: deployments

ASSUME RegistrationAssumption ==
  "" \notin ClassNames \cup InstanceNames /\ MaxDeploys \in Nat

VARIABLES code,         \* methodToRegistration: the decorated functions
          instances,    \* configuredInstances: class and name of each
          maps,         \* workflowInfoMap, transactionInfoMap, stepInfoMap, procedureInfoMap
          stage,        \* of a start: where init is
          ready,        \* instances that were initialized
          pending,      \* the status of the PENDING workflow, or none
          called,       \* what that workflow called: function and instance
          recovered,    \* what the last recovery called
          deploys

regVars == <<code, instances, maps, stage, ready, pending, called, recovered, deploys>>

OpKind == {"workflow", "transaction", "step", "procedure"}
NoCall == [class |-> "", name |-> "", kind |-> "", instance |-> ""]
Nothing == [NoCall EXCEPT !.kind = "none"]
Threw == [NoCall EXCEPT !.kind = "error"]
NoInstance == ""

\* Applications: at most one function of a name in a class, since the class
\* registration keeps one MethodRegistration per name.
Applications ==
  {c \in SUBSET [class : ClassNames, name : FunctionNames, kind : OpKind] :
     \A f, g \in c : f.class = g.class /\ f.name = g.name => f = g}

\* configureInstance: a name that is configured twice for a class is an error.
Configurations == SUBSET [class : ClassNames, name : InstanceNames]

RegInit ==
  /\ code = {} /\ instances = {} /\ maps = {}
  /\ stage = "down" /\ ready = {}
  /\ pending = Nothing /\ called = Nothing /\ recovered = Nothing /\ deploys = 0

\* The entrypoints are loaded, and the decorators and configureInstance run.
Decorate ==
  /\ stage = "down" /\ deploys < MaxDeploys
  /\ code' \in Applications
  /\ instances' \in Configurations
  /\ stage' = "loaded" /\ deploys' = deploys + 1
  /\ maps' = {} /\ ready' = {} /\ recovered' = Nothing
  /\ UNCHANGED <<pending, called>>

\* What a class hands to the map of a kind.  A name that is taken fails the
\* start; one MethodRegistration per name leaves none.
Registered(kind) == {f \in code : f.kind = kind}

registerClass ==
  /\ stage = "loaded" /\ maps' = UNION {Registered(kind) : kind \in OpKind} /\ stage' = "registered"
  /\ UNCHANGED <<code, instances, ready, pending, called, recovered, deploys>>

\* Mutant: the class of the function is not looked at.
LookupByName(s) == {f \in maps : f.kind = s.kind /\ f.name = s.name}

\* getXInfoByNames: by class and name; a status without a class, as earlier
\* versions wrote them, by a name that must be the only one.  The temporary
\* workflow of a procedure is not looked for.
Lookup(s) ==
  LET named == {f \in maps : f.kind = s.kind /\ f.name = s.name /\ f.kind # "procedure"}
      exact == {f \in named : f.class = s.class}
  IN  IF exact # {} THEN exact ELSE IF s.class = "" THEN named ELSE {}

getConfiguredInstance(s) ==
  IF [class |-> s.class, name |-> s.instance] \in instances THEN s.instance ELSE NoInstance

\* executeWorkflowUUID: no function of the kind, or several, is an error, which
\* the recovery logs; the workflow stays PENDING.
recoverPendingWorkflows ==
  /\ stage = "registered" /\ stage' = "recovering"
  /\ IF pending = Nothing THEN recovered' = Nothing
     ELSE IF ~\E f \in maps : Lookup(pending) = {f} THEN recovered' = Threw
     ELSE \E f \in Lookup(pending) :
            recovered' = [class |-> f.class, name |-> f.name, kind |-> f.kind,
                          instance |-> getConfiguredInstance(pending)]
  /\ UNCHANGED <<code, instances, maps, ready, pending, called, deploys>>

\* The instances are initialized only now, while recovered workflows run.
initialize ==
  /\ stage = "recovering" /\ stage' = "up"
  /\ ready' = instances
  /\ UNCHANGED <<code, instances, maps, pending, called, recovered, deploys>>

\* A function is called and its status recorded; an earlier version would have
\* left the class out.
Call ==
  /\ stage = "up" /\ pending = Nothing
  /\ \E f \in maps, legacy \in BOOLEAN :
       \E i \in {NoInstance} \cup (IF legacy THEN {} ELSE {c.name : c \in {d \in instances : d.class = f.class}}) :
         LET s == [class |-> f.class, name |-> f.name, kind |-> f.kind, instance |-> i]
         IN  called' = s /\ pending' = IF legacy THEN [s EXCEPT !.class = ""] ELSE s
  /\ UNCHANGED <<code, instances, maps, stage, ready, recovered, deploys>>

\* A workflow that was recovered, or just called, ends.
Ends ==
  /\ stage \in {"recovering", "up"} /\ pending # Nothing /\ recovered # Threw
  /\ pending' = Nothing /\ called' = Nothing /\ recovered' = Nothing
  /\ UNCHANGED <<code, instances, maps, stage, ready, deploys>>

Stop ==
  /\ stage # "down" /\ stage' = "down"
  /\ UNCHANGED <<code, instances, maps, ready, pending, called, recovered, deploys>>

RegNext == Decorate \/ registerClass \/ recoverPendingWorkflows \/ initialize \/ Call \/ Ends \/ Stop

RegSpec == RegInit /\ [][RegNext]_regVars

-----------------------------------------------------------------------------
\* Whatever is deployed between the call and the recovery, a recovery calls the
\* function of the class that was called, on the instance it was called on, or
\* it fails; an instance that is no longer configured is passed as none.  A
\* status without a class is held to this while its function is still there
\* (getWorkflowInfoByStatus, executeWorkflowUUID).
RecoversTheSame ==
  recovered \notin {Nothing, Threw} /\ pending # Nothing
    /\ (pending.class = "" => \E f \in code : f.class = called.class /\ f.name = called.name /\ f.kind = called.kind)
  => /\ recovered.class = called.class /\ recovered.name = called.name /\ recovered.kind = called.kind
     /\ recovered.instance = called.instance \/ [class |-> called.class, name |-> called.instance] \notin instances
=============================================================================
