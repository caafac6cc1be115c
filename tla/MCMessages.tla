----------------------------- MODULE MCMessages -----------------------------
(***************************************************************************)
(* Constants for model checking SystemDatabase: what the workflows do, and *)
(* which executions and crashes there are.                                 *)
(***************************************************************************)
EXTENDS SystemDatabase

(* A sender and a receiver with a crash, the receiver executed twice, the    *)
(* setter of an event and its reader with a crash, the reader executed       *)
(* twice and a client, all in one process.                                   *)
MCCalled == {[calls |-> {"s1", "r1"}, crashes |-> 1], [calls |-> {"s1", "r1", "r2"}, crashes |-> 0],
             [calls |-> {"e1", "g1"}, crashes |-> 1], [calls |-> {"e1", "g1", "g2"}, crashes |-> 0],
             [calls |-> {"e1", "c1"}, crashes |-> 0]}
MCWorkflows == {"S", "R", "E", "G", "C"}
MCClients == {"C"}
MCSteps ==
    [S |-> <<[op |-> "send", to |-> "R", topic |-> "t", msg |-> "m1"],
             [op |-> "send", to |-> "R", topic |-> "t", msg |-> "m2"]>>,
     R |-> <<[op |-> "recv", topic |-> "t"], [op |-> "recv", topic |-> "t"]>>,
     E |-> <<[op |-> "setEvent", key |-> "k", value |-> "v1"],
             [op |-> "sleep"],
             [op |-> "setEvent", key |-> "k", value |-> "v2"]>>,
     G |-> <<[op |-> "getEvent", of |-> "E", key |-> "k"],
             [op |-> "getStatus", of |-> "E"]>>,
     C |-> <<[op |-> "getEvent", of |-> "E", key |-> "k"],
             [op |-> "getResult", of |-> "E"]>>]
MCExecutions == {"s1", "r1", "r2", "e1", "g1", "g2", "c1"}
MCWorkflowOf == [s1 |-> "S", r1 |-> "R", r2 |-> "R", e1 |-> "E", g1 |-> "G", g2 |-> "G", c1 |-> "C"]
MCProcessOf == [e \in MCExecutions |-> "p"]
=============================================================================
