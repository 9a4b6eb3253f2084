-------------------------------- MODULE Gallery --------------------------------
(***************************************************************************)
(* A slide show with a tooltip on something in one of its items: Carousel and *)
(* Tooltip on one page.  The tip is put next to its element, inside the item, *)
(* so that the end events of its fading bubble to the item, which may be      *)
(* waiting for the end of its slide.                                          *)
(***************************************************************************)
EXTENDS Integers

CONSTANTS Size, Kinds, SlideTime, MaxCalls, Reasons, Delays, MaxPending,
          Host  \* the item with the tooltip

VARIABLES animated, wraps, timed, actives, indicator, slides, slideWait, sliding, slid,
          timer, queue, calls, refused,
          fades, delay, enabled, inState, tip, disturbed

Show == INSTANCE Carousel
Tip  == INSTANCE Tooltip

ASSUME PartsAssumption == Show!Assumptions /\ Tip!Assumptions /\ Host \in Show!Items

showVars == <<animated, wraps, timed, actives, indicator, slides, slideWait, sliding, slid,
              timer, queue, calls, refused>>
tipVars  == <<fades, delay, enabled, inState, tip, disturbed>>
vars     == <<showVars, tipVars>>

Init == Show!Init /\ Tip!Init

\* A tip is not an item.
TipElement == Size

ShowStep == Show!Next /\ UNCHANGED tipVars

\* The element is in sight while its item is, or slides in.
InSight == Host \in actives \/ \E s \in slides : s[2] = Host

\* What happens to the element and its tooltip.
TipEvent ==
  /\ \/ InSight /\ (Tip!EventIn \/ Tip!Click)
     \/ Tip!EventOut \/ Tip!Enable \/ Tip!CallHide \/ Tip!Destroy
  /\ UNCHANGED showVars

TipTimer == Tip!TimerFires /\ UNCHANGED showVars

\* The tip's fade ends, by its timer if the item is not in sight; the event bubbles.
TipEnds ==
  /\ Tip!End
  /\ IF Host \in actives THEN Show!EndsInside(TipElement) ELSE UNCHANGED showVars

Next == ShowStep \/ TipEvent \/ TipTimer \/ TipEnds

Spec == Init /\ [][Next]_vars

\* As of the parts: timers fire, transitions end.
Fairness ==
  WF_vars(Show!Goes /\ UNCHANGED tipVars) /\ WF_vars(TipTimer) /\ WF_vars(TipEnds)

FairSpec == Spec /\ Fairness

-----------------------------------------------------------------------------
(* Properties                                                                *)

TypeOK == Show!TypeOK /\ Tip!TypeOK

\* One item is active and named by the indicator, whatever fades in it (Carousel).
OneActive == Show!OneActive

\* No timer of the slide show is lost from interval, and none runs when it is paused (Carousel).
OneTimer == Show!OneTimer

\* The fading of the tip does not end the slide of its item.
SlideNotCut == Show!SlideNotCut

\* A jump that has to wait is made or prevented (Carousel).
JumpsMade == Show!JumpsMade

\* No tip stays without a reason, or without its tooltip (Tooltip).
NeverStuck == Tip!NeverStuck

\* Left alone while it fades, a tip is to be seen while there is a reason (Tooltip).
SeenWhenWanted == Tip!SeenWhenWanted

\* A tip that is not wanted vanishes, even when its item has slid out of sight (Tooltip).
Vanishes == Tip!Vanishes
=============================================================================
