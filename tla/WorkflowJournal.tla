-------------------------- MODULE WorkflowJournal --------------------------
(***************************************************************************)
(* What durable execution promises of a workflow, with no executions,      *)
(* crashes, buffers or recovery in it: the workflow has a journal of       *)
(* operation results which only grows, without rewriting, and without gaps *)
(* but for reads that an operation may leave to the next; an operation     *)
(* takes effect in the very step that journals its result; and success is  *)
(* reported only of a workflow journalled to its end.                      *)
(***************************************************************************)
EXTENDS Naturals

CONSTANTS
    NumOps,     \* how many operations the workflow calls
    ReadOnly,   \* the operations that change nothing
    Writing,    \* the operations with an effect in a database
    Alone,      \* the operations journalled without the reads before them
    Vals, Err,  \* results: what user code returns, or that it threw
    NoRow       \* no entry in the journal

Ops == 1 .. NumOps
Rows == Vals \cup {Err, NoRow}

VARIABLES
    journal,    \* journal[f]: the result of operation f
    effects,    \* effects[f]: how many times f took effect
    success     \* the workflow is reported as having returned

vars == <<journal, effects, success>>

Init ==
    /\ journal = [f \in Ops |-> NoRow]
    /\ effects = [f \in Ops |-> 0]
    /\ success = FALSE

\* What is journalled with n: itself and, unless n is journalled alone, the
\* reads before it that are not yet.
With(n) == {f \in 1 .. n : journal[f] = NoRow /\ (f = n \/ n \notin Alone)}

\* Operation n is journalled.  Only n can have an effect, and has it if it did
\* not fail.
Extend(n) ==
    /\ journal[n] = NoRow
    /\ \A f \in 1 .. n - 1 : journal[f] = NoRow => f \in ReadOnly
    /\ journal' \in [Ops -> Rows]
    /\ \A f \in Ops : IF f \in With(n) THEN journal'[f] # NoRow
                                       ELSE journal'[f] = journal[f]
    /\ effects' = IF n \in Writing /\ journal'[n] # Err
                  THEN [effects EXCEPT ![n] = @ + 1] ELSE effects
    /\ UNCHANGED success

Succeed ==
    /\ \A f \in Ops : f \in ReadOnly \/ journal[f] \in Vals
    /\ success' = TRUE
    /\ UNCHANGED <<journal, effects>>

\* A later failure, or a cancel or resume command, replaces the status.
Replace ==
    /\ success' = FALSE
    /\ UNCHANGED <<journal, effects>>

Next == Succeed \/ Replace \/ \E n \in Ops : Extend(n)

Spec == Init /\ [][Next]_vars

=============================================================================
