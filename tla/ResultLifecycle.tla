--------------------------- MODULE ResultLifecycle ---------------------------
(***************************************************************************)
(* What the rest of the program may rely on about one result row, whatever *)
(* the queue, the workers, the limiter and restarts do: a row starts       *)
(* queued (or is skipped at once), moves forward through validating and    *)
(* running, ends in one terminal status that never changes, and only then  *)
(* can be deleted.  Execution is checked to implement this specification.  *)
(***************************************************************************)
CONSTANT Results

VARIABLE status

ActiveStatuses == {"queued", "validating", "running"}
TerminalStatuses == {"succeeded", "failed", "skipped", "cancelled"}
Statuses == {"absent", "deleted"} \cup ActiveStatuses \cup TerminalStatuses

Init == status = [r \in Results |-> "absent"]

Move(r, from, to) ==
  /\ status[r] \in from
  /\ status' = [status EXCEPT ![r] = to]

Create(r) == Move(r, {"absent"}, "queued") \/ Move(r, {"absent"}, "skipped")

Advance(r) == Move(r, {"queued"}, "validating") \/ Move(r, {"validating"}, "running")

\* A result succeeds only out of running; it may fail, be skipped or be
\* cancelled out of every active status.
Finish(r) ==
  \/ Move(r, {"running"}, "succeeded")
  \/ \E to \in TerminalStatuses \ {"succeeded"} : Move(r, ActiveStatuses, to)

\* A restart cancels every row the previous process left active.
Recover ==
  status' = [r \in Results |-> IF status[r] \in ActiveStatuses THEN "cancelled" ELSE status[r]]

\* Any set of terminal rows is deleted together.
Delete(rows) ==
  /\ \A r \in rows : status[r] \in TerminalStatuses
  /\ status' = [r \in Results |-> IF r \in rows THEN "deleted" ELSE status[r]]

Next ==
  \/ \E r \in Results : Create(r) \/ Advance(r) \/ Finish(r)
  \/ Recover
  \/ \E rows \in SUBSET Results : Delete(rows)

Spec == Init /\ [][Next]_status
=============================================================================
