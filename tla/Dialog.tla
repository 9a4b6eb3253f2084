-------------------------------- MODULE Dialog --------------------------------
(***************************************************************************)
(* A modal dialog whose body is a group of collapsible panels: Modal and     *)
(* Accordion on one page.  They meet in the document: the panels can be      *)
(* clicked only while the dialog is displayed, and the end events of their   *)
(* transitions bubble to the dialog and its element, which may be waiting    *)
(* for the end of their own.                                                 *)
(***************************************************************************)
EXTENDS Integers

CONSTANTS Options, N, Vetoes

VARIABLES options, isShown, wait, displayed, adjusted, trapped, modalOpen, padding, savedPad,
          backdrops, current, press, watching, ignoring,
          support, open, expanded, instance, busy, pending, rushed

Window == INSTANCE Modal
Body   == INSTANCE Accordion

ASSUME PartsAssumption == Window!Assumptions /\ Body!Assumptions

windowVars == <<options, isShown, wait, displayed, adjusted, trapped, modalOpen, padding,
                savedPad, backdrops, current, press, watching, ignoring>>
bodyVars   == <<support, open, expanded, instance, busy, pending, rushed>>
vars       == <<windowVars, bodyVars>>

\* One browser: it supports transitions or not, and then no dialog fades.
Init == Window!Init /\ Body!Init /\ (options.fade => support)

\* The dialog goes on; its body does not notice.
WindowStep == Window!Next /\ UNCHANGED bodyVars

\* A click on a trigger, which must be in sight.
Click(p) ==
  /\ displayed
  /\ Body!ClickAgain(p) \/ Body!ClickFirst(p)
  /\ UNCHANGED windowVars

\* A script prepares the panels at any time.
Setup(p) == Body!Setup(p) /\ UNCHANGED windowVars

\* A panel's transition ends, by its timer even when the dialog is hidden.
PanelEnds(p) == Body!End(p) /\ Window!EndsInside("panel")

Next ==
  \/ WindowStep
  \/ \E p \in Body!Panels : Click(p) \/ Setup(p) \/ PanelEnds(p)

Spec == Init /\ [][Next]_vars

\* As of the parts: the timers fire.
Fairness ==
  /\ WF_vars(Window!Callback /\ UNCHANGED bodyVars)
  /\ WF_vars(Window!Tick /\ UNCHANGED bodyVars)
  /\ \A p \in Body!Panels : WF_vars(PanelEnds(p))

FairSpec == Spec /\ Fairness

-----------------------------------------------------------------------------
(* Properties                                                                *)

TypeOK == Window!TypeOK /\ Body!TypeOK

\* A dialog that has been closed leaves the page as it was (Modal), whatever its body does.
PageRestored == Window!PageRestored

\* A dialog that is open can be seen, holds the focus and has one backdrop (Modal).
OpenIsWhole == Window!OpenIsWhole

\* A drag that begins on the dialog, as one that selects text, does not close it (Modal).
DragKeeps == Window!DragKeeps

\* The panels' transitions, and the dialog's own, which bubble to the element, cut none
\* short that is waited for further out.
NotCutShort == Window!NotCutShort

\* One panel at most is open, or opening, though the dialog may be hidden at any moment;
\* until a panel is opened while another moves that has lost its instance (Accordion).
OneOpen == Body!OneOpen

\* The triggers announce no panel that is closed and, unless an instance was made while a
\* panel was opening, the one that is open (Accordion).
AriaTruthful == Body!AriaTruthful

Promise == INSTANCE Disclosure WITH phase <- Window!Phase, Interruptible <- TRUE

\* The dialog is a Disclosure that may be closed while it opens, and comes to rest.
WindowDiscloses == Promise!Spec
=============================================================================
