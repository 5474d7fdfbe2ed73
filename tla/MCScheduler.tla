----------------------------- MODULE MCScheduler -----------------------------
(***************************************************************************)
(* Instances of Scheduler for TLC.                                         *)
(***************************************************************************)
EXTENDS Scheduler, TLC

CONSTANTS utc, dst

\* In utc every instant is a minute of its own; in dst the clocks are set back
\* after the third instant, and the local minute of the second comes again.
SetBack == [z \in Zones |-> [i \in Instants |->
              IF z = dst /\ i > 3 THEN i - 2 ELSE i]]

Field(e, c, z) == [enabled |-> e, cron |-> c, zone |-> z]

\* Every minute in a zone that sets its clocks back, another expression in
\* another zone, and a disabled task.
Zoned == {Field(TRUE, Instants, dst), Field(TRUE, {2, 3}, utc), Field(FALSE, {2}, utc)}

\* Two expressions and a disabled task.
Plain == {Field(TRUE, {1}, utc), Field(TRUE, {2}, utc), Field(FALSE, {1}, utc)}

Symmetry == Permutations(Tasks) \cup Permutations(Callbacks)
=============================================================================
