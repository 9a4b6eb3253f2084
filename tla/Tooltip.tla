-------------------------------- MODULE Tooltip --------------------------------
(***************************************************************************)
(* A tooltip, Tooltip of bootstrap.js (Popover is built on it): shown while   *)
(* its element is hovered, has the focus or was clicked.  enter() and leave()  *)
(* start timers, show() and hide() wait for the tip to fade, and all of them   *)
(* tell each other what is wanted by hoverState.  An end event at the tip runs *)
(* the callbacks that wait there in their order, and each may call leave():    *)
(* the methods are functions from one state of the instance to the next.       *)
(***************************************************************************)
EXTENDS Transitions, Sequences

CONSTANTS Reasons,     \* of "click", "hover" and "focus", its triggers
          Delays,      \* of the tooltips: [show, hide], TRUE where there is one
          MaxPending   \* bound: callbacks that wait on the tip at a time

\* What the constants are; the modules that instantiate this one assume it.
Assumptions ==
  /\ Reasons \subseteq {"click", "hover", "focus"}
  /\ Delays \subseteq [show : BOOLEAN, hide : BOOLEAN]
  /\ MaxPending \in Nat \ {0}

VARIABLES
  fades,     \* options.animation, in a browser with transitions
  delay,     \* options.delay
  enabled,
  inState,   \* the reasons that hold
  tip,       \* hoverState ("in", "out" or "null"), timeout (what it is for, or "none"), is the
             \* tip in the document (attached), its classes "in" (seen) and "fade" (fading),
             \* the callbacks that wait on it (pending), and has that of destroy() run (gone):
             \* the handlers are off and $element is null
  disturbed  \* history: an event came while the tip faded, or a script meddled

vars == <<fades, delay, enabled, inState, tip, disturbed>>

Init ==
  /\ fades \in BOOLEAN /\ delay \in Delays
  /\ enabled = TRUE /\ inState = {}
  /\ tip = [hoverState |-> "null", timeout |-> "none", attached |-> FALSE, seen |-> FALSE,
            fading |-> FALSE, pending |-> <<>>, gone |-> FALSE]
  /\ disturbed = FALSE

-----------------------------------------------------------------------------
(* show and hide                                                             *)

\* show() does nothing for a tip that is disabled.  complete() comes at once without a
\* transition.
Show(t) ==
  IF ~enabled THEN t
    ELSE [t EXCEPT !.attached = TRUE, !.seen = TRUE, !.fading = fades,
                   !.hoverState = IF fades THEN @ ELSE "null",
                   !.pending = IF fades THEN Append(@, "shown") ELSE @]

\* hide(), of which complete() comes at once without a transition, before hoverState is
\* cleared.
Hide(t, callback) ==
  IF t.fading
    THEN [t EXCEPT !.seen = FALSE, !.pending = Append(@, callback), !.hoverState = "null"]
    ELSE [t EXCEPT !.seen = FALSE, !.hoverState = "null",
                   !.attached = @ /\ t.hoverState = "in" /\ callback = "hidden",
                   !.gone = callback = "destroyed"]

-----------------------------------------------------------------------------
(* enter and leave                                                           *)

\* enter(): a tip that is shown, or going to be, stays; else the timer is started anew.
Enter(t) ==
  LET wanted == [t EXCEPT !.hoverState = "in"]
  IN  IF t.seen \/ t.hoverState = "in" THEN wanted
      ELSE IF delay.show THEN [wanted EXCEPT !.timeout = "show"]
      ELSE Show([wanted EXCEPT !.timeout = "none"])

\* Defect: the timer of leave() is started only if none runs.
LeaveUnlessTimed(t, reasons) ==
  IF reasons # {} \/ t.timeout # "none" THEN t
  ELSE IF delay.hide THEN [t EXCEPT !.hoverState = "out", !.timeout = "hide"]
  ELSE Hide([t EXCEPT !.hoverState = "out", !.timeout = "none"], "hidden")

\* leave(), when these reasons remain.
Leave(t, reasons) ==
  IF reasons # {} THEN t
  ELSE IF delay.hide THEN [t EXCEPT !.hoverState = "out", !.timeout = "hide"]
  ELSE Hide([t EXCEPT !.hoverState = "out", !.timeout = "none"], "hidden")

\* Defect: what has come meanwhile is not looked at.
FiredAnyway(t) ==
  IF t.timeout = "show" THEN Show([t EXCEPT !.timeout = "none"])
                        ELSE Hide([t EXCEPT !.timeout = "none"], "hidden")

\* The timers of both: only if the state has not changed meanwhile.  Without $element show()
\* and hide() throw before they change anything.
Fired(t) ==
  LET off == [t EXCEPT !.timeout = "none"]
  IN  CASE t.timeout = "show" /\ t.hoverState = "in" /\ ~t.gone  -> Show(off)
        [] t.timeout = "hide" /\ t.hoverState = "out" /\ ~t.gone -> Hide(off, "hidden")
        [] OTHER -> off

-----------------------------------------------------------------------------
(* The end of a fade                                                         *)

\* Defect: a tip that was left while it was being shown is not.
CompleteShowOnly(t) == [t EXCEPT !.hoverState = "null"]

\* complete() of show: what was left meanwhile is left now.
CompleteShow(t) ==
  LET shown == [t EXCEPT !.hoverState = "null"]
  IN  IF t.hoverState = "out" THEN Leave(shown, inState) ELSE shown

\* complete() of hide: what is wanted again is not detached, unless it is destroyed.
CompleteHide(t, callback) ==
  [t EXCEPT !.attached = @ /\ t.hoverState = "in" /\ callback = "hidden",
            !.gone = callback = "destroyed"]

\* After destroy() both find no $element and change nothing.
Complete(t, callback) ==
  IF t.gone THEN t
  ELSE IF callback = "shown" THEN CompleteShow(t) ELSE CompleteHide(t, callback)

\* All that wait on the tip, one after the other.
Completed(t) ==
  LET after[k \in 0 .. Len(t.pending)] ==
        IF k = 0 THEN [t EXCEPT !.pending = <<>>] ELSE Complete(after[k - 1], t.pending[k])
  IN  after[Len(t.pending)]

-----------------------------------------------------------------------------
(* What happens                                                              *)

\* An event of the element, whose handlers are there until destroy() has faded the tip, or a
\* call by a script.
Event ==
  /\ ~tip.gone /\ Len(tip.pending) < MaxPending
  /\ disturbed' = (disturbed \/ tip.pending # <<>>)
  /\ UNCHANGED <<fades, delay, enabled>>

\* mouseenter, and focusin, which may come again from a child.
EventIn ==
  /\ Event
  /\ \E reason \in Reasons \ {"click"} :
       /\ reason = "focus" \/ reason \notin inState
       /\ inState' = inState \union {reason}
  /\ tip' = Enter(tip)

EventOut ==
  /\ Event
  /\ \E reason \in inState \ {"click"} : inState' = inState \ {reason}
  /\ tip' = Leave(tip, inState')

\* toggle(e).
Click ==
  /\ Event /\ "click" \in Reasons
  /\ inState' = IF "click" \in inState THEN inState \ {"click"} ELSE inState \union {"click"}
  /\ tip' = IF inState' # {} THEN Enter(tip) ELSE Leave(tip, {})

\* enable, disable and toggleEnabled.
Enable ==
  /\ ~tip.gone
  /\ enabled' = ~enabled /\ disturbed' = TRUE
  /\ UNCHANGED <<fades, delay, inState, tip>>

\* A script calls hide().
CallHide ==
  /\ ~tip.gone /\ Len(tip.pending) < MaxPending
  /\ tip' = Hide(tip, "hidden")
  /\ disturbed' = TRUE
  /\ UNCHANGED <<fades, delay, enabled, inState>>

\* destroy(): hide() with a callback that throws everything away; it may be called again
\* before that has run.
Destroy ==
  /\ Event
  /\ tip' = Hide([tip EXCEPT !.timeout = "none"], "destroyed")
  /\ UNCHANGED inState

TimerFires ==
  /\ tip.timeout # "none"
  /\ tip' = Fired(tip)
  /\ UNCHANGED <<fades, delay, enabled, inState, disturbed>>

\* An end event at the tip.
End ==
  /\ tip.pending # <<>>
  /\ tip' = Completed(tip)
  /\ UNCHANGED <<fades, delay, enabled, inState, disturbed>>

Next == EventIn \/ EventOut \/ Click \/ Enable \/ CallHide \/ Destroy \/ TimerFires \/ End

Spec == Init /\ [][Next]_vars

\* Timers fire, the tip's transitions end.
Fairness == WF_vars(TimerFires) /\ WF_vars(End)

FairSpec == Spec /\ Fairness

-----------------------------------------------------------------------------
(* Properties *)

TypeOK ==
  /\ fades \in BOOLEAN /\ delay \in Delays /\ enabled \in BOOLEAN
  /\ inState \subseteq Reasons
  /\ tip \in [hoverState : {"in", "out", "null"}, timeout : {"none", "show", "hide"},
              attached : BOOLEAN, seen : BOOLEAN, fading : BOOLEAN,
              pending : Seq({"shown", "hidden", "destroyed"}), gone : BOOLEAN]
  /\ disturbed \in BOOLEAN

AtRest == tip.timeout = "none" /\ tip.pending = <<>>

\* However quickly reasons come and go, no tip stays without one, and none of a tooltip that
\* was destroyed, also if its element was entered or left while it faded for the last time.
NeverStuck == AtRest /\ (inState = {} \/ tip.gone) => ~tip.attached

\* If nothing came in the middle of a fade, a tip is to be seen as long as there is a reason.
SeenWhenWanted ==
  AtRest /\ inState # {} /\ ~tip.gone /\ ~disturbed => tip.attached /\ tip.seen

\* A tip that is no longer wanted vanishes.
Vanishes == inState = {} ~> inState # {} \/ ~tip.attached
=============================================================================
