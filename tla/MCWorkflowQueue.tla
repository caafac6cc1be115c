-------------------------- MODULE MCWorkflowQueue --------------------------
(* Instances of WorkflowQueue for TLC.                                       *)
EXTENDS WorkflowQueue, TLC

\* Sound when all processes have the same executor ID.
QueueSymmetry == Permutations(Workflows) \cup Permutations(Executors)

\* Every process runs with the default executor ID.
AllLocal == [e \in Executors |-> "local"]

\* Every process runs on a VM of its own.
OwnId == [e \in Executors |-> e]

=============================================================================
