--------------------------- MODULE SystemDatabase ---------------------------
(***************************************************************************)
(* The system database of an executor: Notifications (Postgres) or, when   *)
(* the executor is given that implementation, FdbSystemDatabase.  The      *)
(* variable backend says which of them a behaviour uses; the other one's   *)
(* variables keep their initial values.  Both implement Mailbox.           *)
(***************************************************************************)
EXTENDS FdbSystemDatabase

VARIABLE backend

sysVars == <<vars, fdbOnly, backend>>

(* The constructor of DBOSExecutor takes one or builds the Postgres one. *)
SysInit ==
    /\ Init /\ FdbInit
    /\ backend \in {"postgres", "foundationdb"}

PgStep ==
    /\ backend = "postgres" /\ UNCHANGED <<fdbOnly, backend>>
    /\ (\E e \in Executions : Step(e)) \/ (\E p \in Processes : Listen(p)) \/ Tick

SysNext ==
    \/ PgStep
    \/ backend = "postgres" /\ (\E p \in Processes : Crash(p)) /\ UNCHANGED <<fdbOnly, backend>>
    \/ backend = "foundationdb" /\ FdbNext /\ UNCHANGED backend

(* The runtime resumes a call whose query came back, fires a timer or runs   *)
(* the notification handler as long as one of them can go on; no behaviour   *)
(* makes such steps forever, so this much fairness serves them all.          *)
SysSpec == SysInit /\ [][SysNext]_sysVars /\ WF_sysVars(PgStep)

-----------------------------------------------------------------------------
AllSteps == UNION {{w} \X DOMAIN Steps[w] : w \in Workflows}
StepAt(s) == Steps[s[1]][s[2]]
SendSteps == {s \in AllSteps : StepAt(s).op = "send"}
RecvSteps == {s \in AllSteps : StepAt(s).op = "recv"}

(* Messages are told apart by the step that sends them, and only workflows   *)
(* send and receive: the send of a client runs in a workflow of its own.     *)
ASSUME MessagesAssumption ==
    /\ \A s, t \in SendSteps : StepAt(s).msg = StepAt(t).msg => s = t
    /\ \A s \in SendSteps \cup RecvSteps : s[1] \notin Clients

Row(s, stamp) == [to |-> StepAt(s).to, topic |-> StepAt(s).topic, msg |-> StepAt(s).msg, at |-> stamp]
Addressed(r, n) == n.to = r[1] /\ n.topic = StepAt(r).topic

(* A row is stamped with its millisecond; a message in an array stands for a *)
(* row with a stamp of its own, the step that sent it.                       *)
AllRows == {Row(s, <<t>>) : s \in SendSteps, t \in 0..MaxTime} \cup {Row(s, s) : s \in SendSteps}
Stamped(n) == [to |-> n.to, topic |-> n.topic, msg |-> n.msg, at |-> <<n.at>>]
InArray(s) == \E b \in DOMAIN messages : \E i \in DOMAIN messages[b] :
                 messages[b][i] = StepAt(s).msg

MailSent == {StepAt(s).msg : s \in SendSteps \cap DOMAIN operation_outputs}
MailRows == IF backend = "postgres" THEN {Stamped(n) : n \in notifications}
            ELSE {Row(s, s) : s \in {q \in SendSteps : InArray(q)}}
MailAnswer == [r \in RecvSteps \cap DOMAIN operation_outputs |-> operation_outputs[r]]

Mail == INSTANCE Mailbox WITH
    Rows <- AllRows, Receives <- RecvSteps, For <- Addressed,
    sent <- MailSent, rows <- MailRows, answer <- MailAnswer

(* Both system databases implement the mailbox: a message enters it once     *)
(* whatever executions, crashes and retries send it; a recv step is answered *)
(* once; a message answers at most one step, leaves the mailbox only with    *)
(* the answer of a step (or with one of the same millisecond), and Null is   *)
(* the answer only when the mailbox is empty.                                *)
ImplementsMailbox == Mail!Spec

(* Every call comes back: no execution stays in recv, getEvent, getStatus or *)
(* getResult, although the NOTIFY may find no resolver or another            *)
(* execution's, and a crash loses all resolvers; the recorded deadline ends  *)
(* the wait.                                                                 *)
CallsReturn ==
    backend = "postgres" =>
        \A e \in Executions : []<>(ex[e].pc \in {"done", "conflict", "error", "lost", "never"})
=============================================================================
