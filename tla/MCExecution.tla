----------------------------- MODULE MCExecution -----------------------------
(***************************************************************************)
(* Instances of Execution for TLC.                                         *)
(***************************************************************************)
EXTENDS Execution, TLC

CONSTANTS a1, a2, t1, t2

Fields(p, a) == [enabled |-> TRUE, preventOverlap |-> p, wan |-> a]
Row(s, f) == [state |-> s, fields |-> f]
Setting(n, s) == [limit |-> n, separateWAN |-> s]

\* Fields with and without prevent-overlap, on two paths, enabled or not.
Edits == {Fields(TRUE, a1), [Fields(FALSE, a2) EXCEPT !.enabled = FALSE]}

\* An empty database.
NoTasks == {[t \in Tasks |-> Row("none", Fields(FALSE, a1))]}

\* Two tasks on one path or on two paths.
TwoTasks == {[t \in Tasks |-> IF t = t1 THEN Row("live", Fields(FALSE, a1))
                              ELSE Row("live", Fields(FALSE, a))] : a \in {a1, a2}}

OneTask == {[t \in Tasks |-> Row("live", Fields(FALSE, a1))]}

NoEdits == {}

Shared == {Setting(2, TRUE)}
Toggled == {Setting(2, TRUE), Setting(2, FALSE)}

Symmetry == Permutations(Workers) \cup Permutations(Callers)
=============================================================================
