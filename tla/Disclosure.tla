------------------------------ MODULE Disclosure ------------------------------
(***************************************************************************)
(* What Bootstrap's widgets promise of a part of the page that can be shown  *)
(* and hidden (bootstrap.js of the Java front end): it is closed, opening,   *)
(* open or closing, a motion is never turned round half-way unless the       *)
(* widget allows it, and whatever moves comes to rest.  Accordion implements  *)
(* it once for each panel, Modal once for its dialog.                        *)
(***************************************************************************)
CONSTANT Interruptible  \* TRUE: it may be closed while it is still opening

VARIABLE phase

Init == phase \in {"closed", "open"}

\* Without CSS transitions it opens, or closes, at once.
Open  == phase = "closed" /\ phase' \in {"opening", "open"}

Close ==
  /\ phase = "open" \/ (Interruptible /\ phase = "opening")
  /\ phase' \in {"closing", "closed"}

Opened == phase = "opening" /\ phase' = "open"
Closed == phase = "closing" /\ phase' = "closed"

Settle == Opened \/ Closed

Next == Open \/ Close \/ Settle

Safety == Init /\ [][Next]_phase

Liveness == WF_phase(Settle)

Spec == Safety /\ Liveness
=============================================================================
