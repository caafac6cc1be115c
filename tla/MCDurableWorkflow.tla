------------------------- MODULE MCDurableWorkflow -------------------------
(* Instances of DurableWorkflow for TLC: the workflow functions to execute.  *)
EXTENDS DurableWorkflow, TLC

RunSymmetry == Permutations(Runs)

\* A read that a write depends on, then a step.
ReadWriteStep == <<"ro", "rw", "step">>

\* The same with an operation in between that leaves the read in the buffer.
ReadGetEventWriteStep == <<"ro", "getEvent", "rw", "step">>

\* A message that depends on a read, then a step.
ReadSendStep == <<"ro", "notify", "step">>

\* The operations that record themselves without flushing a read before them.
ReadGetEventSleepWrite == <<"ro", "getEvent", "sleep", "rw">>

OneWrite == <<"rw">>

=============================================================================
