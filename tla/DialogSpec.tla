----------------------------- MODULE DialogSpec -----------------------------
(***************************************************************************)
(* What the Dialog module promises a script (docs/dialog.md): dialogs are  *)
(* open one at a time, an open dialog is running until it finishes, and    *)
(* its result can be collected once, after which another may be opened.    *)
(***************************************************************************)
EXTENDS Integers

CONSTANT Outcomes  \* how a dialog may end

VARIABLES
  ended,    \* TRUE iff the program has ended
  status,   \* what status() says: "none", "running" or "finished"
  number,   \* dialogs opened so far; the last is the one that is open
  outcome,  \* how the open dialog ended
  results   \* results collected so far: dialog -> outcome

vars == <<ended, status, number, outcome, results>>

NoOutcome == "none"

Init == ended = FALSE /\ status = "none" /\ number = 0 /\ outcome = NoOutcome /\ results = {}

Open ==
  /\ ~ended /\ status = "none" /\ status' = "running"
  /\ number' = number + 1
  /\ UNCHANGED <<ended, outcome, results>>

Finish ==
  /\ ~ended /\ status = "running" /\ status' = "finished"
  /\ outcome' \in Outcomes
  /\ UNCHANGED <<ended, number, results>>

Collect ==
  /\ ~ended /\ status = "finished" /\ status' = "none"
  /\ results' = results \cup {<<number, outcome>>}
  /\ outcome' = NoOutcome
  /\ UNCHANGED <<ended, number>>

\* The system cannot terminate the dialog: it counts as closed, its result is lost.
Lose ==
  /\ ~ended /\ status = "finished" /\ status' = "none"
  /\ outcome' = NoOutcome
  /\ UNCHANGED <<ended, number, results>>

\* The program ends, and with it an open dialog.
Close ==
  /\ ~ended /\ ended' = TRUE
  /\ status' = "none" /\ outcome' = NoOutcome
  /\ UNCHANGED <<number, results>>

Next == Open \/ Finish \/ Collect \/ Lose \/ Close

Spec == Init /\ [][Next]_vars

=============================================================================
