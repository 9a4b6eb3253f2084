------------------------------- MODULE Carousel -------------------------------
(***************************************************************************)
(* A slide show, Carousel of bootstrap.js: items of which one is active, a    *)
(* timer that goes on to the next, and jumps to an item.  A slide ends in a   *)
(* callback that waits on the active item; a jump asked for meanwhile waits    *)
(* for the event "slid", which comes a moment later, when timers run again.    *)
(* Items are numbered from 0, as the code does.                                *)
(***************************************************************************)
EXTENDS Transitions, Sequences, FiniteSets

CONSTANTS Size,      \* number of items
          Kinds,     \* of carousels: <<animated, wraps, timed>>
          SlideTime, \* units of time that a slide takes, 600 ms in all
          MaxCalls   \* bound: calls by users and scripts

\* What the constants are; the modules that instantiate this one assume it.
Assumptions ==
  /\ Size \in Nat \ {0} /\ Kinds \subseteq BOOLEAN \X BOOLEAN \X BOOLEAN
  /\ SlideTime \in Nat \ {0} /\ MaxCalls \in Nat

Items == 0 .. Size - 1

VARIABLES
  animated,   \* the class "slide", in a browser with transitions
  wraps,      \* options.wrap
  timed,      \* options.interval is not 0
  actives,    \* items with the class "active"
  indicator,  \* the active indicator
  slides,     \* callbacks waiting: <<from, to>>
  slideWait,  \* the time until they are run, or None
  sliding,
  timer,      \* paused; interval, "none", the handle of a timer that runs or a "stale" one, of
              \* a timer that was cleared; and the number of timers that run
  queue,      \* jumps waiting for "slid"
  slid,       \* the event "slid" is to be triggered
  calls,      \* calls so far
  refused     \* history: the items whose slides the last of these steps asked for in vain

slideVars == <<actives, indicator, slides, slideWait, sliding>>
vars == <<animated, wraps, timed, slideVars, slid, timer, queue, calls, refused>>

Init ==
  /\ \E kind \in Kinds : animated = kind[1] /\ wraps = kind[2] /\ timed = kind[3]
  /\ \E first \in Items : actives = {first} /\ indicator = first
  /\ slides = {} /\ slideWait = None /\ sliding = FALSE
  /\ \E cycling \in {FALSE, timed} :
       timer = [paused |-> FALSE, interval |-> IF cycling THEN "running" ELSE "none",
                running |-> IF cycling THEN 1 ELSE 0]
  /\ queue = <<>> /\ slid = FALSE
  /\ calls = 0 /\ refused = {}

Active == CHOOSE i \in Items : i \in actives

-----------------------------------------------------------------------------
(* cycle and pause: from one state of the timer to the next                  *)

\* clearInterval(interval), which does nothing for a stale handle.
ClearInterval(t) ==
  IF t.interval = "running" THEN [t EXCEPT !.interval = "stale", !.running = @ - 1] ELSE t

\* interval = setInterval(next): what was in interval is lost.
SetInterval(t) == [t EXCEPT !.interval = "running", !.running = @ + 1]

\* Defect: the timer that runs is not cleared.
CycleUncleared(t) == IF timed /\ ~t.paused THEN SetInterval(t) ELSE t

\* cycle(e), also of mouseleave.
CycleOn(t) ==
  IF timed /\ ~t.paused THEN SetInterval(ClearInterval(t)) ELSE ClearInterval(t)

\* cycle(): on its own it also ends a pause.
Cycle(t) == CycleOn([t EXCEPT !.paused = FALSE])

\* pause(e), of mouseenter: while something slides it triggers an end event at the carousel,
\* which the item does not hear, and cycles before it clears the timer after all.
PauseOn(t) ==
  [ClearInterval(IF slides = {} THEN t ELSE CycleOn(t)) EXCEPT !.interval = "none"]

\* pause().
Pause(t) == PauseOn([t EXCEPT !.paused = TRUE])

-----------------------------------------------------------------------------
(* slide                                                                     *)

\* getItemForDirection: without wrapping the active item stands for none.
ItemForDirection(direction) ==
  IF direction = "prev"
    THEN IF Active = 0 THEN IF wraps THEN Size - 1 ELSE Active ELSE Active - 1
    ELSE IF Active = Size - 1 /\ ~wraps THEN Active ELSE (Active + 1) % Size

\* slide() to next, when that is not active: if it is cycling it pauses, before anything
\* slides, and cycles.  Without transitions "slid" comes at once, but then no jump waits for it.
Slide(next, t) ==
  /\ indicator' = next
  /\ IF animated
       THEN /\ slides' = slides \union {<<Active, next>>}
            /\ slideWait' = IF slides = {} THEN SlideTime ELSE slideWait
            /\ sliding' = TRUE
            /\ UNCHANGED actives
       ELSE /\ actives' = (actives \ {Active}) \union {next}
            /\ UNCHANGED <<slides, slideWait, sliding>>
  /\ timer' = IF t.interval # "none" THEN Cycle(Pause(t)) ELSE t

Stay == UNCHANGED <<slideVars, timer>>

\* slide() to next, unless a listener of the event "slide" prevents it.
TrySlide(next) ==
  \/ Slide(next, timer) /\ refused' = {}
  \/ Stay /\ refused' = {next}

\* Defect: next() and prev() do not wait for the end of a slide.
MoveAnyTime(direction) ==
  IF ItemForDirection(direction) \in actives
    THEN Stay /\ refused' = {} ELSE TrySlide(ItemForDirection(direction))

\* next() and prev().
Move(direction) ==
  IF sliding \/ ItemForDirection(direction) \in actives
    THEN Stay /\ refused' = {} ELSE TrySlide(ItemForDirection(direction))

\* to(pos): it is put off during a slide; the active item only sets the timer.
To(pos) ==
  IF sliding THEN queue' = Append(queue, pos) /\ Stay /\ refused' = {}
    ELSE /\ IF pos = Active
              THEN timer' = Cycle(Pause(timer)) /\ refused' = {} /\ UNCHANGED slideVars
              ELSE TrySlide(pos)
         /\ UNCHANGED queue

-----------------------------------------------------------------------------
(* What happens                                                              *)

Calls == calls < MaxCalls /\ calls' = calls + 1

\* The arrow keys, a click on an arrow, carousel('next').
CallMove ==
  /\ Calls
  /\ \E direction \in {"next", "prev"} : Move(direction)
  /\ UNCHANGED <<animated, wraps, timed, slid, queue>>

\* A click on an indicator, carousel(number): a number beyond the items is ignored.
CallTo ==
  /\ Calls
  /\ \E pos \in Items : To(pos)
  /\ UNCHANGED <<animated, wraps, timed, slid>>

CallTimer ==
  /\ Calls
  /\ timer' \in {Cycle(timer), CycleOn(timer), Pause(timer), PauseOn(timer)}
  /\ UNCHANGED <<animated, wraps, timed, slideVars, slid, queue, refused>>

\* The timer: its interval is longer than a slide, and every slide sets it anew.
IntervalFires ==
  /\ timer.running > 0 /\ ~sliding /\ ~slid
  /\ Move("next")
  /\ UNCHANGED <<animated, wraps, timed, slid, queue, calls>>

\* Defect: the event "slid" is not triggered.
EndedSilently(target) ==
  LET done == {s \in slides : s[1] = target}
  IN  /\ actives' = (actives \union {s[2] : s \in done}) \ {target}
      /\ slides' = slides \ done /\ slideWait' = None
      /\ sliding' = FALSE
      /\ UNCHANGED <<indicator, slid>>

\* The callbacks that wait on the item at target run.
Ended(target) ==
  LET done == {s \in slides : s[1] = target}
  IN  /\ actives' = (actives \union {s[2] : s \in done}) \ {target}
      /\ slides' = slides \ done /\ slideWait' = None
      /\ sliding' = FALSE
      /\ slid' = TRUE
      /\ UNCHANGED indicator

\* An end event at target, which may be inside the active item.
EndsInside(target) ==
  IF slides # {} /\ Hears(target, Active)
    THEN Ended(Active) /\ UNCHANGED <<animated, wraps, timed, timer, queue, calls, refused>>
    ELSE UNCHANGED vars

\* The end of a slide.
End == slideWait = 0 /\ EndsInside(Active)

\* The event "slid", before any other slide can end.  Its handlers run in their order: jumps to
\* the active item and those that are prevented, up to one that slides; those after it wait
\* again.
Slid ==
  /\ slid /\ slid' = FALSE
  /\ \/ /\ sliding \/ queue = <<>>
        /\ Stay /\ UNCHANGED <<queue, refused>>
     \/ /\ ~sliding /\ queue # <<>>
        /\ UNCHANGED slideVars
        /\ timer' = IF \E k \in 1 .. Len(queue) : queue[k] = Active
                      THEN Cycle(Pause(timer)) ELSE timer
        /\ refused' = {queue[k] : k \in 1 .. Len(queue)} \ {Active}
        /\ queue' = <<>>
     \/ /\ ~sliding
        /\ \E k \in 1 .. Len(queue) :
             /\ queue[k] # Active
             /\ Slide(queue[k], IF \E j \in 1 .. k - 1 : queue[j] = Active
                                  THEN Cycle(Pause(timer)) ELSE timer)
             /\ refused' = {queue[j] : j \in 1 .. k - 1} \ {Active}
             /\ queue' = SubSeq(queue, k + 1, Len(queue))
  /\ UNCHANGED <<animated, wraps, timed, calls>>

Tick ==
  /\ ~slid /\ slideWait > 0
  /\ slideWait' = slideWait - 1
  /\ UNCHANGED <<animated, wraps, timed, actives, indicator, slides, sliding, slid, timer,
                 queue, calls, refused>>

Goes == Tick \/ End \/ Slid

Next == CallMove \/ CallTo \/ CallTimer \/ IntervalFires \/ Goes

Spec == Init /\ [][Next]_vars

\* Timers fire and handlers run.
Fairness == WF_vars(Goes)

FairSpec == Spec /\ Fairness

-----------------------------------------------------------------------------
(* Properties *)

TypeOK ==
  /\ animated \in BOOLEAN /\ wraps \in BOOLEAN /\ timed \in BOOLEAN
  /\ actives \subseteq Items /\ indicator \in Items
  /\ slides \subseteq Items \X Items /\ slideWait \in None .. SlideTime
  /\ sliding \in BOOLEAN
  /\ timer \in [paused : BOOLEAN, interval : {"none", "running", "stale"}, running : Nat]
  /\ queue \in Seq(Items) /\ slid \in BOOLEAN
  /\ calls \in 0 .. MaxCalls /\ refused \subseteq Items

\* Whatever comes while it slides, one item is active, and the indicator names it or the
\* one that slides in.
OneActive ==
  \E i \in Items :
    /\ actives = {i}
    /\ (slides = {} /\ indicator = i) \/ slides = {<<i, indicator>>}

\* In whatever order cycle(), pause() and slide() clear and set interval, no timer that runs is
\* lost from it, so that the next pause() ends them all; and none runs while it is paused.
OneTimer ==
  /\ timer.running = IF timer.interval = "running" THEN 1 ELSE 0
  /\ timer.paused => timer.interval = "none"

\* Nothing but the end of its own transition ends a slide.
SlideNotCut == [][slides # {} /\ slides' = {} => slideWait = 0]_vars

\* A jump that has to wait is not forgotten: its item becomes the active one, unless a listener
\* prevents the slide to it.
JumpsMade ==
  \A i \in Items : (\E k \in 1 .. Len(queue) : queue[k] = i) ~> actives = {i} \/ i \in refused
=============================================================================
