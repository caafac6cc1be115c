------------------------------ MODULE Mailbox ------------------------------
(***************************************************************************)
(* What sending and receiving promise, whichever system database stores    *)
(* the messages: a message enters the mailbox of its destination once, and *)
(* every receive step is answered once, for good, with one of the messages *)
(* waiting for it, or with Null when none is there.  Messages stamped with *)
(* the same instant leave the mailbox together, and only one of them is    *)
(* the answer (system_database.ts keys the deletion by the millisecond).   *)
(* Notifications (Postgres) and FdbSystemDatabase implement this module.   *)
(***************************************************************************)
CONSTANTS Rows,       \* the messages that may be stored: [msg, at, to, topic]
          Receives,   \* the receive steps
          For(_, _),  \* For(r, n): is the row n addressed to the receive r?
          Null

VARIABLES sent,       \* the messages that were ever stored
          rows,       \* the messages waiting
          answer      \* the receive steps answered so far, with the answer

Init ==
    /\ sent = {}
    /\ rows = {}
    /\ answer = <<>>

Send ==
    \E n \in Rows :
        /\ n.msg \notin sent
        /\ sent' = sent \cup {n.msg}
        /\ rows' = rows \cup {n}
        /\ UNCHANGED answer

Waiting(r) == {n \in rows : For(r, n)}

Answer(r, m) == answer' = [q \in DOMAIN answer \cup {r} |->
                             IF q = r THEN m ELSE answer[q]]

Receive(r) ==
    /\ r \notin DOMAIN answer
    /\ \E n \in Waiting(r) :
          /\ Answer(r, n.msg)
          /\ rows' = rows \ {k \in Waiting(r) : k.at = n.at}
    /\ UNCHANGED sent

Miss(r) ==
    /\ r \notin DOMAIN answer
    /\ Waiting(r) = {}
    /\ Answer(r, Null)
    /\ UNCHANGED <<sent, rows>>

Next == Send \/ \E r \in Receives : Receive(r) \/ Miss(r)

Spec == Init /\ [][Next]_<<sent, rows, answer>>
=============================================================================
