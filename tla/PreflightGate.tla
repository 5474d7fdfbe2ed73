---------------------------- MODULE PreflightGate ----------------------------
(***************************************************************************)
(* What the task editor promises the rest of the system about preflights:  *)
(* a task document that needs one is sent to the server only while the     *)
(* latest preflight, as the server answered it, passed exactly that        *)
(* document.  TaskEditor is checked and proved to implement this.          *)
(***************************************************************************)
EXTENDS Integers, Sequences

CONSTANTS
  Documents,   \* the task documents that can be submitted
  Guarded(_),  \* whether a document needs a passed preflight
  None

VARIABLES
  passed,      \* the document the latest preflight passed, or None
  sent         \* the documents sent to be saved, in order

Init == passed = None /\ sent = <<>>

\* A preflight passes a document, or the last one that passed is withdrawn.
Pass == passed' \in Documents \cup {None} /\ UNCHANGED sent

Send(d) ==
  /\ d \in Documents
  /\ Guarded(d) => passed = d
  /\ sent' = Append(sent, d)
  /\ UNCHANGED passed

Next == Pass \/ (sent' # <<>> /\ Send(sent'[Len(sent')]))

Spec == Init /\ [][Next]_<<passed, sent>>
=============================================================================
