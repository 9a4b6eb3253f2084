------------------------------ MODULE GalleryProof ------------------------------
(***************************************************************************)
(* Theorems about Gallery, for any number of items and any tooltip.           *)
(***************************************************************************)
EXTENDS Gallery, SequenceTheorems, WellFoundedInduction, TLAPS

\* A set of numbers that is not empty has a least one.
LEMMA LeastIsIn ==
  ASSUME NEW S \in SUBSET Nat, S # {}
  PROVE  \E x \in S : \A y \in S : x <= y
  <1>1. PICK x \in S : \A y \in S : ~(<<y, x>> \in OpToRel(<, Nat))
        BY NatLessThanWellFounded, WFMin
  <1>2. \A y \in S : ~(y < x)
        BY <1>1, Zenon DEF OpToRel
  <1> QED  BY <1>2

-----------------------------------------------------------------------------
(* The timer                                                                 *)

Timers == [paused : BOOLEAN, interval : {"none", "running", "stale"}, running : Nat]

\* What runs is what interval names.
Sound(t) == t \in Timers /\ t.running = IF t.interval = "running" THEN 1 ELSE 0

\* That, and nothing that is paused has a timer: not so in the midst of pause().
Quiet(t) == Sound(t) /\ (t.paused => t.interval = "none")

LEMMA ClearIs ==
  ASSUME NEW t, Sound(t)
  PROVE  /\ Sound(Show!ClearInterval(t)) /\ Show!ClearInterval(t).paused = t.paused
         /\ Show!ClearInterval(t).running = 0
         /\ t.interval = "none" => Show!ClearInterval(t).interval = "none"
  <1>1. CASE t.interval = "running"
    <2>1. t \in Timers /\ t.running = 1
          BY <1>1 DEF Sound
    <2>2. Show!ClearInterval(t) = [t EXCEPT !.interval = "stale", !.running = 0]
          BY <1>1, <2>1 DEF Show!ClearInterval
    <2> DEFINE u == [t EXCEPT !.interval = "stale", !.running = 0]
    <2>3. /\ u \in Timers /\ u.paused = t.paused /\ u.interval = "stale" /\ u.running = 0
          BY <2>1 DEF Timers
    <2> HIDE DEF u
    <2> QED  BY <1>1, <2>2, <2>3 DEF Sound, u
  <1>2. CASE t.interval # "running"
    <2>1. Show!ClearInterval(t) = t
          BY <1>2 DEF Show!ClearInterval
    <2> QED  BY <1>2, <2>1 DEF Sound, Timers
  <1> QED  BY <1>1, <1>2

\* cycle() sets the timer anew or leaves none, and for what is paused it stays off.
LEMMA CycleOnIs ==
  ASSUME NEW t, Sound(t)
  PROVE  /\ Sound(Show!CycleOn(t)) /\ Show!CycleOn(t).paused = t.paused
         /\ Quiet(t) => Quiet(Show!CycleOn(t))
  <1> DEFINE u == Show!ClearInterval(t)
  <1>1. /\ Sound(u) /\ u.paused = t.paused /\ u.running = 0
        /\ t.interval = "none" => u.interval = "none"
        BY ClearIs
  <1> HIDE DEF u
  <1>2. CASE timed /\ ~t.paused
    <2>1. Show!CycleOn(t) = [u EXCEPT !.interval = "running", !.running = 1]
          BY <1>1, <1>2 DEF Show!CycleOn, Show!SetInterval, u
    <2> DEFINE w == [u EXCEPT !.interval = "running", !.running = 1]
    <2>2. w \in Timers /\ w.paused = u.paused /\ w.interval = "running" /\ w.running = 1
          BY <1>1 DEF Sound, Timers
    <2> HIDE DEF w
    <2> QED  BY <1>1, <1>2, <2>1, <2>2 DEF Sound, Quiet, w
  <1>3. CASE ~(timed /\ ~t.paused)
    <2>1. Show!CycleOn(t) = u
          BY <1>3 DEF Show!CycleOn, u
    <2> QED  BY <1>1, <2>1 DEF Quiet
  <1> QED  BY <1>2, <1>3

LEMMA CycleIs == ASSUME NEW t, Sound(t) PROVE Quiet(Show!Cycle(t))
  <1> DEFINE u == [t EXCEPT !.paused = FALSE]
  <1>1. Sound(u) /\ Quiet(u)
        BY DEF Sound, Quiet, Timers
  <1> HIDE DEF u
  <1>2. Quiet(Show!CycleOn(u))
        BY <1>1, CycleOnIs
  <1> QED  BY <1>2 DEF Show!Cycle, u

\* pause() clears what there was, also if it has cycled in between.
LEMMA PauseOnIs == ASSUME NEW t, Sound(t) PROVE Quiet(Show!PauseOn(t))
  <1> DEFINE u == IF slides = {} THEN t ELSE Show!CycleOn(t)
             w == Show!ClearInterval(u)
  <1>1. Sound(u)
        BY CycleOnIs
  <1> HIDE DEF u
  <1>2. Sound(w) /\ w.running = 0
        BY <1>1, ClearIs
  <1>3. Show!PauseOn(t) = [w EXCEPT !.interval = "none"]
        BY DEF Show!PauseOn, u, w
  <1> HIDE DEF w
  <1> QED  BY <1>2, <1>3 DEF Sound, Quiet, Timers

LEMMA PauseIs == ASSUME NEW t, Sound(t) PROVE Quiet(Show!Pause(t))
  <1>1. Sound([t EXCEPT !.paused = TRUE])
        BY DEF Sound, Timers
  <1> QED  BY <1>1, PauseOnIs DEF Show!Pause

LEMMA PauseCycleIs == ASSUME NEW t, Sound(t) PROVE Quiet(Show!Cycle(Show!Pause(t)))
  BY PauseIs, CycleIs DEF Quiet

-----------------------------------------------------------------------------
(* The invariant                                                             *)

\* What a slide changes.
SlideTypes ==
  /\ actives \subseteq Show!Items /\ indicator \in Show!Items
  /\ slides \subseteq Show!Items \X Show!Items /\ slideWait \in Show!None .. SlideTime
  /\ sliding \in BOOLEAN /\ refused \subseteq Show!Items

OtherTypes ==
  /\ animated \in BOOLEAN /\ wraps \in BOOLEAN /\ timed \in BOOLEAN
  /\ queue \in Seq(Show!Items) /\ slid \in BOOLEAN /\ calls \in 0 .. MaxCalls

\* sliding tells whether a callback waits; what slides in is not the active item.
Slides ==
  /\ SlideTypes
  /\ OneActive /\ Quiet(timer)
  /\ sliding <=> slides # {}
  /\ slides # {} => indicator \notin actives

SInv == Slides /\ OtherTypes

LEMMA ActiveIsIn == OneActive => Show!Active \in Show!Items /\ actives = {Show!Active}
  BY DEF OneActive, Show!OneActive, Show!Active

\* Items are numbers; there is one.
LEMMA ItemsAre == Show!Items \subseteq Nat /\ 0 \in Show!Items /\ Size \notin Show!Items
  BY PartsAssumption DEF Show!Items, Show!Assumptions

\* slide() when nothing slides.
LEMMA SlideKeeps ==
  ASSUME SInv, ~sliding, NEW next \in Show!Items, next # Show!Active, NEW t, Quiet(t),
         Show!Slide(next, t), refused' \subseteq Show!Items
  PROVE  Slides'
  <1> USE DEF SInv, Slides
  <1>1. Show!Active \in Show!Items /\ actives = {Show!Active} /\ slides = {}
        BY ActiveIsIn
  <1>2. Quiet(timer')
    <2>1. Quiet(Show!Cycle(Show!Pause(t)))
          BY PauseCycleIs DEF Quiet
    <2>2. timer' \in {t, Show!Cycle(Show!Pause(t))}
          BY Zenon DEF Show!Slide
    <2> QED  BY <2>1, <2>2
  <1>3. CASE animated
    <2>1. /\ slides' = {<<Show!Active, next>>} /\ indicator' = next /\ sliding' = TRUE
          /\ actives' = actives /\ slideWait' = SlideTime
          BY <1>1, <1>3 DEF Show!Slide
    <2>2. OneActive'
          BY <1>1, <2>1 DEF OneActive, Show!OneActive
    <2>3. SlideTypes'
          BY <1>1, <2>1, PartsAssumption DEF SlideTypes, Show!Assumptions, Show!None
    <2> QED  BY <1>1, <1>2, <2>1, <2>2, <2>3
  <1>4. CASE ~animated
    <2>1. /\ slides' = {} /\ indicator' = next /\ sliding' = sliding
          /\ actives' = {next} /\ slideWait' = slideWait
          BY <1>1, <1>4 DEF Show!Slide
    <2>2. OneActive'
          BY <2>1 DEF OneActive, Show!OneActive
    <2>3. SlideTypes'
          BY <2>1 DEF SlideTypes
    <2> QED  BY <1>2, <2>1, <2>2, <2>3
  <1> QED  BY <1>3, <1>4

\* Only the timer changes.
LEMMA TimerKeeps ==
  ASSUME Slides, UNCHANGED Show!slideVars, Quiet(timer'), refused' \subseteq Show!Items
  PROVE  Slides'
  BY DEF Slides, SlideTypes, Show!slideVars, OneActive, Show!OneActive

LEMMA StayKeeps == Slides /\ Show!Stay /\ refused' \subseteq Show!Items => Slides'
  BY TimerKeeps DEF Slides, Show!Stay

\* slide(), which a listener may prevent.
LEMMA TrySlideKeeps ==
  ASSUME SInv, ~sliding, NEW next \in Show!Items, next # Show!Active, Show!TrySlide(next)
  PROVE  Slides'
  BY SlideKeeps, StayKeeps DEF Show!TrySlide, SInv, Slides

\* The end of a slide, of the active item.
LEMMA EndedKeeps ==
  ASSUME SInv, slides # {}, Show!Ended(Show!Active), UNCHANGED <<timer, refused>>
  PROVE  Slides'
  <1> USE DEF SInv, Slides
  <1>1. Show!Active \in Show!Items /\ actives = {Show!Active}
        BY ActiveIsIn
  <1>2. slides = {<<Show!Active, indicator>>}
        BY <1>1 DEF OneActive, Show!OneActive
  <1>3. {s \in slides : s[1] = Show!Active} = slides
        BY <1>2
  <1>4. {s[2] : s \in slides} = {indicator}
        BY <1>2
  <1>5. actives' = (actives \union {indicator}) \ {Show!Active} /\ slides' = {}
        BY <1>3, <1>4 DEF Show!Ended
  <1>6. /\ actives' = {indicator} /\ slides' = {} /\ indicator' = indicator
        /\ sliding' = FALSE /\ slideWait' = Show!None
        BY <1>1, <1>5 DEF Show!Ended
  <1>7. SlideTypes'
    <2>1. Show!None \in Show!None .. SlideTime
          BY PartsAssumption DEF Show!None, Show!Assumptions
    <2> QED  BY <1>6, <2>1 DEF SlideTypes
  <1>8. OneActive'
        BY <1>6, <1>7 DEF SlideTypes, OneActive, Show!OneActive
  <1> QED  BY <1>6, <1>7, <1>8

-----------------------------------------------------------------------------
(* The steps                                                                 *)

LEMMA DirectionIn ==
  ASSUME OneActive, NEW direction
  PROVE  Show!ItemForDirection(direction) \in Show!Items
  <1>1. Size \in Nat \ {0}
        BY PartsAssumption DEF Show!Assumptions
  <1>2. Show!Active \in 0 .. Size - 1
        BY ActiveIsIn DEF Show!Items
  <1>3. (Show!Active + 1) % Size \in 0 .. Size - 1
        BY <1>1, <1>2
  <1> QED  BY <1>1, <1>2, <1>3 DEF Show!ItemForDirection, Show!Items

LEMMA MoveKeeps ==
  ASSUME SInv, NEW direction, Show!Move(direction)
  PROVE  Slides'
  <1> DEFINE next == Show!ItemForDirection(direction)
  <1>1. next \in Show!Items
        BY DirectionIn DEF SInv, Slides
  <1>2. CASE sliding \/ next \in actives
        BY <1>2, StayKeeps DEF Show!Move, SInv
  <1>3. CASE ~sliding /\ next \notin actives
    <2>1. next # Show!Active
          BY <1>3, ActiveIsIn DEF SInv, Slides
    <2>2. Show!TrySlide(next)
          BY <1>3 DEF Show!Move
    <2> HIDE DEF next
    <2> QED  BY <1>1, <1>3, <2>1, <2>2, TrySlideKeeps
  <1> QED  BY <1>2, <1>3

\* Everything but the slides and the timer stays as it is.
OthersStay == UNCHANGED <<animated, wraps, timed, queue, slid>> /\ calls' \in 0 .. MaxCalls

LEMMA OthersKeep == OtherTypes /\ OthersStay => OtherTypes'
  BY DEF OtherTypes, OthersStay

LEMMA CallsIn == OtherTypes /\ Show!Calls => calls' \in 0 .. MaxCalls
  BY PartsAssumption DEF OtherTypes, Show!Calls, Show!Assumptions

LEMMA CallToKeeps == ASSUME SInv, Show!CallTo PROVE SInv'
  <1>1. PICK pos \in Show!Items : Show!To(pos)
        BY DEF Show!CallTo
  <1>2. queue' \in Seq(Show!Items)
    <2>1. queue \in Seq(Show!Items)
          BY DEF SInv, OtherTypes
    <2>2. queue' = queue \/ queue' = Append(queue, pos)
          BY <1>1 DEF Show!To
    <2> QED  BY <2>1, <2>2, AppendProperties
  <1>3. OtherTypes'
        BY <1>2, CallsIn DEF SInv, Show!CallTo, OtherTypes
  <1>4. CASE sliding
        BY <1>1, <1>3, <1>4, StayKeeps DEF SInv, Show!To
  <1>5. CASE ~sliding /\ pos = Show!Active
    <2>1. Quiet(timer') /\ UNCHANGED Show!slideVars /\ refused' = {}
          BY <1>1, <1>5, PauseCycleIs DEF SInv, Slides, Quiet, Show!To
    <2> QED  BY <1>3, <2>1, TimerKeeps DEF SInv
  <1>6. CASE ~sliding /\ pos # Show!Active
        BY <1>1, <1>3, <1>6, TrySlideKeeps DEF SInv, Show!To
  <1> QED  BY <1>4, <1>5, <1>6

LEMMA CallTimerKeeps == ASSUME SInv, Show!CallTimer PROVE SInv'
  <1>1. OtherTypes'
        BY CallsIn DEF SInv, Show!CallTimer, OtherTypes
  <1>2. Quiet(timer')
    <2>1. Quiet(timer) /\ Sound(timer)
          BY DEF SInv, Slides, Quiet
    <2> QED  BY <2>1, CycleIs, CycleOnIs, PauseIs, PauseOnIs DEF Show!CallTimer
  <1>3. UNCHANGED Show!slideVars /\ refused' \subseteq Show!Items
        BY DEF Show!CallTimer, SInv, Slides, SlideTypes
  <1> QED  BY <1>1, <1>2, <1>3, TimerKeeps DEF SInv

LEMMA SlidKeeps == ASSUME SInv, Show!Slid PROVE SInv'
  <1>1. queue \in Seq(Show!Items) /\ Len(queue) \in Nat
        BY DEF SInv, OtherTypes
  <1>2. \A k \in 1 .. Len(queue) : queue[k] \in Show!Items
        BY <1>1, ElementOfSeq
  <1>3. UNCHANGED <<animated, wraps, timed, calls>> /\ slid' = FALSE
        BY DEF Show!Slid
  <1>4. Quiet(timer) /\ Quiet(Show!Cycle(Show!Pause(timer)))
        BY PauseCycleIs DEF SInv, Slides, Quiet
  <1>5. CASE Show!Stay /\ UNCHANGED <<queue, refused>>
        BY <1>3, <1>5, StayKeeps DEF SInv, Slides, SlideTypes, OtherTypes
  <1>6. CASE /\ UNCHANGED Show!slideVars /\ queue' = <<>>
             /\ timer' = IF \E k \in 1 .. Len(queue) : queue[k] = Show!Active
                            THEN Show!Cycle(Show!Pause(timer)) ELSE timer
             /\ refused' = {queue[k] : k \in 1 .. Len(queue)} \ {Show!Active}
    <2>1. queue' \in Seq(Show!Items)
          BY <1>6
    <2>2. Quiet(timer')
          BY <1>4, <1>6, Zenon
    <2>3. refused' \subseteq Show!Items
          BY <1>2, <1>6
    <2>4. Slides'
          BY <1>6, <2>2, <2>3, TimerKeeps DEF SInv
    <2> QED  BY <1>3, <2>1, <2>4 DEF SInv, OtherTypes
  <1>7. ASSUME ~sliding, NEW k \in 1 .. Len(queue), queue[k] # Show!Active,
               Show!Slide(queue[k], IF \E j \in 1 .. k - 1 : queue[j] = Show!Active
                                      THEN Show!Cycle(Show!Pause(timer)) ELSE timer),
               refused' = {queue[j] : j \in 1 .. k - 1} \ {Show!Active},
               queue' = SubSeq(queue, k + 1, Len(queue))
        PROVE  SInv'
    <2> DEFINE t == IF \E j \in 1 .. k - 1 : queue[j] = Show!Active
                      THEN Show!Cycle(Show!Pause(timer)) ELSE timer
    <2>1. Quiet(t)
          BY <1>4, Zenon
    <2>2. Show!Slide(queue[k], t)
          BY <1>7
    <2> HIDE DEF t
    <2>3. queue[k] \in Show!Items
          BY <1>2
    <2>4. refused' \subseteq Show!Items
      <3>1. 1 .. k - 1 \subseteq 1 .. Len(queue)
            BY <1>1
      <3> QED  BY <1>2, <1>7, <3>1
    <2>5. queue' \in Seq(Show!Items)
          BY <1>1, <1>7, SubSeqProperties
    <2>6. Slides'
          BY <1>7, <2>1, <2>2, <2>3, <2>4, SlideKeeps
    <2> QED  BY <1>3, <2>5, <2>6 DEF SInv, OtherTypes
  <1> QED  BY <1>5, <1>6, <1>7 DEF Show!Slid

LEMMA EndsInsideKeeps ==
  ASSUME SInv, NEW target, Show!EndsInside(target)
  PROVE  SInv'
  <1>1. CASE UNCHANGED Show!vars
        BY <1>1 DEF Show!vars, Show!slideVars, SInv, Slides, SlideTypes, OtherTypes,
                    OneActive, Show!OneActive
  <1>2. CASE /\ slides # {} /\ Show!Ended(Show!Active)
             /\ UNCHANGED <<animated, wraps, timed, timer, queue, calls, refused>>
    <2>1. Slides'
          BY <1>2, EndedKeeps
    <2> QED  BY <1>2, <2>1 DEF SInv, OtherTypes, Show!Ended
  <1> QED  BY <1>1, <1>2 DEF Show!EndsInside

LEMMA ShowNext == ASSUME SInv, [Show!Next]_(Show!vars) PROVE SInv'
  <1>1. CASE Show!CallMove
    <2>1. PICK direction \in {"next", "prev"} : Show!Move(direction)
          BY <1>1 DEF Show!CallMove
    <2>2. OthersStay
          BY <1>1, CallsIn DEF Show!CallMove, OthersStay, SInv
    <2> QED  BY <2>1, <2>2, MoveKeeps, OthersKeep DEF SInv
  <1>2. CASE Show!CallTo  BY <1>2, CallToKeeps
  <1>3. CASE Show!CallTimer  BY <1>3, CallTimerKeeps
  <1>4. CASE Show!IntervalFires
    <2>1. OthersStay /\ Show!Move("next")
          BY <1>4 DEF Show!IntervalFires, OthersStay, SInv, OtherTypes
    <2> QED  BY <2>1, MoveKeeps, OthersKeep DEF SInv
  <1>5. CASE Show!Tick
    <2>1. slideWait' \in Show!None .. SlideTime
          BY <1>5, PartsAssumption
          DEF Show!Tick, SInv, Slides, SlideTypes, Show!None, Show!Assumptions
    <2>2. UNCHANGED <<animated, wraps, timed, actives, indicator, slides, sliding, slid, timer,
                      queue, calls, refused>>
          BY <1>5 DEF Show!Tick
    <2> QED  BY <2>1, <2>2 DEF SInv, Slides, SlideTypes, OtherTypes, OneActive, Show!OneActive
  <1>6. CASE Show!End  BY <1>6, EndsInsideKeeps DEF Show!End
  <1>7. CASE Show!Slid  BY <1>7, SlidKeeps
  <1>8. CASE UNCHANGED Show!vars
        BY <1>8 DEF Show!vars, Show!slideVars, SInv, Slides, SlideTypes, OtherTypes,
                    OneActive, Show!OneActive
  <1> QED  BY <1>1, <1>2, <1>3, <1>4, <1>5, <1>6, <1>7, <1>8 DEF Show!Next, Show!Goes

-----------------------------------------------------------------------------
(* The slide show with a tooltip in it                                       *)

\* The end of the tip's fade is not heard by the item, which bubbles or not.
LEMMA TipUnheard == SInv /\ TipEnds => UNCHANGED Show!vars
  <1> SUFFICES ASSUME SInv, TipEnds PROVE UNCHANGED Show!vars
      OBVIOUS
  <1>1. ~Show!Hears(TipElement, Show!Active)
        BY ActiveIsIn, ItemsAre DEF SInv, Slides, Show!Hears, TipElement
  <1>2. CASE Show!EndsInside(TipElement)
        BY <1>1, <1>2 DEF Show!EndsInside
  <1>3. CASE UNCHANGED showVars
        BY <1>3 DEF showVars, Show!vars, Show!slideVars
  <1> QED  BY <1>2, <1>3 DEF TipEnds

\* Every step is one of Carousel, or none.
LEMMA ShowSteps == SInv /\ [Next]_vars => [Show!Next]_(Show!vars)
  <1> SUFFICES ASSUME SInv, [Next]_vars PROVE [Show!Next]_(Show!vars)
      OBVIOUS
  <1>1. CASE ShowStep
        BY <1>1 DEF ShowStep
  <1>2. CASE TipEnds
        BY <1>2, TipUnheard
  <1>3. CASE UNCHANGED showVars
        BY <1>3 DEF showVars, Show!vars, Show!slideVars
  <1> QED  BY <1>1, <1>2, <1>3 DEF Next, TipEvent, TipTimer, vars

LEMMA InitSInv == Init => SInv
  <1> SUFFICES ASSUME Init PROVE SInv
      OBVIOUS
  <1>1. Show!Init /\ Size \in Nat \ {0} /\ SlideTime \in Nat \ {0} /\ MaxCalls \in Nat
        BY PartsAssumption DEF Init, Show!Assumptions
  <1>2. \E first \in Show!Items : actives = {first} /\ indicator = first
        BY <1>1 DEF Show!Init
  <1>3. animated \in BOOLEAN /\ wraps \in BOOLEAN /\ timed \in BOOLEAN
        BY <1>1, PartsAssumption DEF Show!Init, Show!Assumptions
  <1>4. SlideTypes
    <2>1. refused = {} /\ sliding = FALSE /\ slides = {}
          BY <1>1 DEF Show!Init
    <2>3. slideWait \in Show!None .. SlideTime
          BY <1>1 DEF Show!Init, Show!None
    <2>4. actives \subseteq Show!Items /\ indicator \in Show!Items
          BY <1>2
    <2> QED  BY <2>1, <2>3, <2>4 DEF SlideTypes
  <1>5. OtherTypes
    <2>1. queue = <<>> /\ slid = FALSE /\ calls = 0
          BY <1>1 DEF Show!Init
    <2>2. queue \in Seq(Show!Items)
          BY <2>1
    <2>3. calls \in 0 .. MaxCalls
          BY <1>1, <2>1
    <2> QED  BY <1>3, <2>1, <2>2, <2>3 DEF OtherTypes
  <1>6. OneActive
        BY <1>1, <1>2 DEF Show!Init, OneActive, Show!OneActive
  <1>7. Quiet(timer)
    <2>1. PICK cycling \in BOOLEAN :
            timer = [paused |-> FALSE, interval |-> IF cycling THEN "running" ELSE "none",
                     running |-> IF cycling THEN 1 ELSE 0]
          BY <1>1, <1>3 DEF Show!Init
    <2>2. CASE cycling
          BY <2>1, <2>2 DEF Quiet, Sound, Timers
    <2>3. CASE ~cycling
          BY <2>1, <2>3 DEF Quiet, Sound, Timers
    <2> QED  BY <2>2, <2>3
  <1> QED  BY <1>1, <1>4, <1>5, <1>6, <1>7 DEF Show!Init, SInv, Slides

LEMMA StepSInv == SInv /\ [Next]_vars => SInv'
  BY ShowSteps, ShowNext

\* However calls, jumps that wait, the timer and end events follow each other, one item is
\* active, and the indicator names it or the one that slides in; for any number of items.
THEOREM SingleActive == Spec => []OneActive
  <1>1. SInv => OneActive
        BY DEF SInv, Slides
  <1> QED  BY InitSInv, StepSInv, <1>1, PTL DEF Spec

\* However cycle(), pause() and slide() clear and set interval, the timer that runs is the one
\* in it, and none does while it is paused.
THEOREM SingleTimer == Spec => []OneTimer
  <1>1. SInv => OneTimer
        BY DEF SInv, Slides, Quiet, Sound, OneTimer, Show!OneTimer
  <1> QED  BY InitSInv, StepSInv, <1>1, PTL DEF Spec

\* Only the timer of its own transition ends a slide, whatever fades inside the item.
THEOREM SlidesLast == Spec => SlideNotCut
  <1> DEFINE Cut == slides # {} /\ slides' = {}
  <1>1. SInv /\ [Show!Next]_(Show!vars) => [Cut => slideWait = 0]_(Show!vars)
    <2> SUFFICES ASSUME SInv, Show!Next, Cut PROVE slideWait = 0
        OBVIOUS
    <2>1. sliding
          BY DEF SInv, Slides
    <2>2. ASSUME NEW direction, Show!Move(direction) PROVE FALSE
          BY <2>1, <2>2 DEF Show!Move, Show!Stay, Show!slideVars
    <2>3. CASE Show!CallMove \/ Show!IntervalFires
          BY <2>2, <2>3 DEF Show!CallMove, Show!IntervalFires
    <2>4. CASE Show!CallTo
          BY <2>1, <2>4 DEF Show!CallTo, Show!To, Show!Stay, Show!slideVars
    <2>5. CASE Show!CallTimer \/ Show!Tick
          BY <2>5 DEF Show!CallTimer, Show!Tick, Show!slideVars
    <2>6. CASE Show!End
          BY <2>6 DEF Show!End
    <2>7. CASE Show!Slid
          BY <2>1, <2>7 DEF Show!Slid, Show!Stay, Show!slideVars
    <2> QED  BY <2>3, <2>4, <2>5, <2>6, <2>7 DEF Show!Next, Show!Goes
  <1>2. SInv /\ [Next]_vars => [Cut => slideWait = 0]_(Show!vars)
        BY <1>1, ShowSteps
  <1> QED  BY InitSInv, StepSInv, <1>2, PTL DEF Spec, SlideNotCut, Show!SlideNotCut

-----------------------------------------------------------------------------
(* The tip                                                                   *)

Callbacks == {"shown", "hidden", "destroyed"}

Tips == [hoverState : {"in", "out", "null"}, timeout : {"none", "show", "hide"},
         attached : BOOLEAN, seen : BOOLEAN, fading : BOOLEAN, pending : Seq(Callbacks),
         gone : BOOLEAN]

TipTypes ==
  /\ fades \in BOOLEAN /\ delay \in Delays /\ enabled \in BOOLEAN
  /\ inState \subseteq Reasons /\ tip \in Tips
  /\ disturbed \in BOOLEAN

\* The callbacks that wait on the tip.
Awaited(t) == {t.pending[k] : k \in 1 .. Len(t.pending)}

\* Without a reason the tip is not wanted, and what is in the document has a timer or a callback that will take it away.
Leaving(t, callbacks) ==
  /\ t.hoverState # "in" /\ t.timeout # "show"
  /\ t.attached => \/ t.timeout = "hide" /\ t.hoverState = "out"
                   \/ callbacks \ {"shown"} # {}

\* What is to be seen is in the document and nothing will take it away.
Seen(t, callbacks) == t.seen => t.attached /\ callbacks \subseteq {"shown"}

\* With a reason, the tip is to be seen and nothing is meant to hide it, or its timer runs.
Coming(t, callbacks) ==
  \/ t.seen /\ t.hoverState # "out" /\ t.timeout # "show"
  \/ ~t.seen /\ t.timeout = "show" /\ t.hoverState = "in" /\ callbacks = {}

\* What holds of a tip while these callbacks are still to run.
TipFits(t, callbacks) ==
  /\ t.gone => ~t.attached
  /\ ~t.gone /\ inState = {} => Leaving(t, callbacks)
  /\ ~t.gone /\ ~disturbed /\ "destroyed" \notin callbacks => enabled /\ Seen(t, callbacks)
  /\ ~t.gone /\ ~disturbed /\ "destroyed" \notin callbacks /\ inState # {}
       => Coming(t, callbacks)

TipInv == TipTypes /\ TipFits(tip, Awaited(tip))

\* One more callback waits after Append.
LEMMA AwaitedMore ==
  ASSUME NEW t \in Tips, NEW u \in Tips, NEW c \in Callbacks,
         u.pending = Append(t.pending, c)
  PROVE  Awaited(u) = Awaited(t) \union {c}
  <1>1. t.pending \in Seq(Callbacks)
        BY DEF Tips
  <1>2. /\ Len(u.pending) = Len(t.pending) + 1 /\ Len(t.pending) \in Nat
        /\ \A k \in 1 .. Len(t.pending) : u.pending[k] = t.pending[k]
        /\ u.pending[Len(t.pending) + 1] = c
        BY <1>1, AppendProperties
  <1> QED  BY <1>2 DEF Awaited

LEMMA AwaitedNone == ASSUME NEW t \in Tips PROVE Awaited(t) = {} <=> t.pending = <<>>
  <1>1. t.pending \in Seq(Callbacks)
        BY DEF Tips
  <1>2. Len(t.pending) \in Nat /\ (Len(t.pending) = 0 <=> t.pending = <<>>)
        BY <1>1, EmptySeq, LenProperties
  <1>3. ASSUME Len(t.pending) = 0 PROVE Awaited(t) = {}
        BY <1>3 DEF Awaited
  <1>4. ASSUME Len(t.pending) # 0 PROVE t.pending[1] \in Awaited(t)
        BY <1>2, <1>4 DEF Awaited
  <1> QED  BY <1>2, <1>3, <1>4

LEMMA AwaitedSame ==
  ASSUME NEW t, NEW u, u.pending = t.pending PROVE Awaited(u) = Awaited(t)
  BY DEF Awaited

\* What show() makes of a tip.
LEMMA ShowIs ==
  ASSUME fades \in BOOLEAN, NEW t \in Tips, NEW u, u = Tip!Show(t)
  PROVE  /\ u \in Tips /\ u.gone = t.gone
         /\ ~enabled => u = t
         /\ enabled => /\ u.attached = TRUE /\ u.seen = TRUE /\ u.timeout = t.timeout
                       /\ u.hoverState \in {t.hoverState, "null"}
                       /\ Awaited(t) \subseteq Awaited(u)
                       /\ Awaited(u) \subseteq Awaited(t) \union {"shown"}
  <1>1. CASE ~enabled
        BY <1>1, Zenon DEF Tip!Show
  <1>2. CASE enabled /\ fades
    <2>1. Append(t.pending, "shown") \in Seq(Callbacks)
          BY AppendProperties DEF Tips, Callbacks
    <2>2. u = [t EXCEPT !.attached = TRUE, !.seen = TRUE, !.fading = fades,
                        !.hoverState = t.hoverState, !.pending = Append(t.pending, "shown")]
          BY <1>2, Zenon DEF Tip!Show
    <2>3. u \in Tips /\ u.pending = Append(t.pending, "shown")
          BY <2>1, <2>2 DEF Tips
    <2>4. /\ u.attached = TRUE /\ u.seen = TRUE /\ u.gone = t.gone
          /\ u.timeout = t.timeout /\ u.hoverState = t.hoverState
          BY <2>2 DEF Tips
    <2>5. Awaited(u) = Awaited(t) \union {"shown"}
          BY <2>3, AwaitedMore DEF Callbacks
    <2> QED  BY <1>2, <2>3, <2>4, <2>5
  <1>3. CASE enabled /\ ~fades
    <2>2. u = [t EXCEPT !.attached = TRUE, !.seen = TRUE, !.fading = fades,
                        !.hoverState = "null", !.pending = t.pending]
          BY <1>3, Zenon DEF Tip!Show
    <2>3. u \in Tips /\ u.pending = t.pending
          BY <2>2 DEF Tips
    <2>4. /\ u.attached = TRUE /\ u.seen = TRUE /\ u.gone = t.gone
          /\ u.timeout = t.timeout /\ u.hoverState = "null"
          BY <2>2 DEF Tips
    <2>5. Awaited(u) = Awaited(t)
          BY <2>3, AwaitedSame
    <2> QED  BY <1>3, <2>3, <2>4, <2>5
  <1> QED  BY <1>1, <1>2, <1>3

\* What hide() makes of a tip: a callback waits, or it is gone unless it is wanted.
LEMMA HideIs ==
  ASSUME NEW t \in Tips, NEW c \in {"hidden", "destroyed"}, NEW u, u = Tip!Hide(t, c)
  PROVE  /\ u \in Tips /\ u.seen = FALSE /\ u.hoverState = "null" /\ u.timeout = t.timeout
         /\ u.attached => c \in Awaited(u) \/ (t.hoverState = "in" /\ c = "hidden")
         /\ Awaited(t) \subseteq Awaited(u)
         /\ ~t.gone /\ c = "hidden" => ~u.gone
         /\ ~t.gone /\ c = "destroyed" => c \in Awaited(u) \/ (u.gone /\ ~u.attached)
         /\ ~t.gone /\ u.gone => ~u.attached
  <1>1. CASE t.fading
    <2>1. Append(t.pending, c) \in Seq(Callbacks)
          BY AppendProperties DEF Tips, Callbacks
    <2>2. u = [t EXCEPT !.seen = FALSE, !.pending = Append(t.pending, c),
                        !.hoverState = "null"]
          BY <1>1, Zenon DEF Tip!Hide
    <2>3. u \in Tips /\ u.pending = Append(t.pending, c)
          BY <2>1, <2>2 DEF Tips
    <2>4. u.seen = FALSE /\ u.timeout = t.timeout /\ u.hoverState = "null" /\ u.gone = t.gone
          BY <2>2 DEF Tips
    <2>5. Awaited(u) = Awaited(t) \union {c}
          BY <2>3, AwaitedMore DEF Callbacks
    <2> QED  BY <2>3, <2>4, <2>5
  <1>2. CASE ~t.fading
    <2> DEFINE stays == t.attached /\ t.hoverState = "in" /\ c = "hidden"
               dies  == c = "destroyed"
    <2>1. stays \in BOOLEAN /\ dies \in BOOLEAN
          BY Zenon
    <2>2. u = [t EXCEPT !.seen = FALSE, !.hoverState = "null", !.attached = stays,
                        !.gone = dies]
          BY <1>2, Zenon DEF Tip!Hide
    <2>6. (dies <=> c = "destroyed") /\ ~(dies /\ stays)
      <3>1. "hidden" # "destroyed"
            OBVIOUS
      <3> QED  BY <3>1, Zenon
    <2> HIDE DEF stays, dies
    <2>3. u \in Tips /\ u.pending = t.pending
          BY <2>1, <2>2 DEF Tips
    <2>4. /\ u.seen = FALSE /\ u.timeout = t.timeout /\ u.hoverState = "null"
          /\ u.attached = stays /\ u.gone = dies
          BY <2>2 DEF Tips
    <2>5. stays => t.hoverState = "in" /\ c = "hidden"
          BY Zenon DEF stays
    <2>7. Awaited(u) = Awaited(t)
          BY <2>3, AwaitedSame
    <2> QED  BY <2>3, <2>4, <2>5, <2>6, <2>7
  <1> QED  BY <1>1, <1>2

\* Of a tip that is not wanted, and of one that is destroyed.
LEMMA HiddenIs ==
  ASSUME NEW t \in Tips, ~t.gone, NEW u, u = Tip!Hide(t, "hidden")
  PROVE  /\ u \in Tips /\ u.seen = FALSE /\ u.hoverState = "null" /\ u.timeout = t.timeout
         /\ u.attached => "hidden" \in Awaited(u) \/ t.hoverState = "in"
         /\ ~u.gone /\ Awaited(t) \subseteq Awaited(u)
  <1>1. u \in Tips /\ u.seen = FALSE /\ u.hoverState = "null" /\ u.timeout = t.timeout
        BY HideIs, Zenon
  <1>2. ASSUME u.attached, t.hoverState # "in" PROVE "hidden" \in Awaited(u)
        BY <1>2, HideIs, Zenon
  <1>3. ~u.gone
        BY HideIs, Zenon
  <1>4. Awaited(t) \subseteq Awaited(u)
        BY HideIs, Zenon
  <1> QED  BY <1>1, <1>2, <1>3, <1>4

LEMMA DestroyedIs ==
  ASSUME NEW t \in Tips, ~t.gone, NEW u, u = Tip!Hide(t, "destroyed")
  PROVE  /\ u \in Tips /\ u.seen = FALSE /\ u.hoverState = "null" /\ u.timeout = t.timeout
         /\ "destroyed" \in Awaited(u) \/ (u.gone /\ ~u.attached)
         /\ u.gone => ~u.attached
  <1>1. u \in Tips /\ u.seen = FALSE /\ u.hoverState = "null" /\ u.timeout = t.timeout
        BY HideIs, Zenon
  <1>2. "destroyed" \in Awaited(u) \/ (u.gone /\ ~u.attached)
        BY HideIs, Zenon
  <1>3. u.gone => ~u.attached
        BY HideIs, Zenon
  <1> QED  BY <1>1, <1>2, <1>3

\* leave() without a reason: a timer to hide is started, or hide() is called.
LEMMA LeaveIs ==
  ASSUME delay \in Delays, NEW t \in Tips, ~t.gone, NEW u, u = Tip!Leave(t, {})
  PROVE  /\ u \in Tips /\ u.hoverState # "in" /\ u.timeout # "show"
         /\ ~u.gone /\ Awaited(t) \subseteq Awaited(u)
         /\ \/ /\ u.timeout = "hide" /\ u.hoverState = "out" /\ u.attached = t.attached
               /\ u.seen = t.seen /\ Awaited(u) = Awaited(t)
            \/ u.seen = FALSE /\ (u.attached => "hidden" \in Awaited(u))
  <1>1. CASE delay.hide
    <2>1. u = [t EXCEPT !.hoverState = "out", !.timeout = "hide"]
          BY <1>1, Zenon DEF Tip!Leave
    <2>2. /\ u \in Tips /\ u.pending = t.pending /\ u.hoverState = "out"
          /\ u.timeout = "hide" /\ u.attached = t.attached /\ u.seen = t.seen /\ ~u.gone
          BY <2>1 DEF Tips
    <2> QED  BY <2>2, AwaitedSame
  <1>2. CASE ~delay.hide
    <2> DEFINE out == [t EXCEPT !.hoverState = "out", !.timeout = "none"]
    <2>1. u = Tip!Hide(out, "hidden")
          BY <1>2, Zenon DEF Tip!Leave
    <2>2. /\ out \in Tips /\ out.pending = t.pending /\ out.hoverState = "out"
          /\ out.timeout = "none" /\ ~out.gone
          BY DEF Tips
    <2> HIDE DEF out
    <2>3. Awaited(out) = Awaited(t)
          BY <2>2, AwaitedSame
    <2>4. /\ u \in Tips /\ u.seen = FALSE /\ u.hoverState = "null" /\ u.timeout = "none"
          /\ u.attached => "hidden" \in Awaited(u)
          /\ ~u.gone /\ Awaited(out) \subseteq Awaited(u)
          BY <2>1, <2>2, HiddenIs
    <2> QED  BY <2>3, <2>4
  <1> QED  BY <1>1, <1>2

\* enter(): a tip that is seen or wanted stays as it is, or a timer to show it is started, or
\* show() is called.
LEMMA EnterIs ==
  ASSUME fades \in BOOLEAN, NEW t \in Tips, NEW u, u = Tip!Enter(t)
  PROVE  /\ u \in Tips /\ u.gone = t.gone /\ Awaited(u) \subseteq Awaited(t) \union {"shown"}
         /\ \/ /\ t.seen \/ t.hoverState = "in"
               /\ u.hoverState = "in" /\ u.timeout = t.timeout /\ u.seen = t.seen
               /\ u.attached = t.attached /\ Awaited(u) = Awaited(t)
            \/ /\ ~t.seen /\ u.hoverState = "in" /\ u.timeout = "show" /\ u.seen = t.seen
               /\ Awaited(u) = Awaited(t)
            \/ ~enabled
            \/ /\ u.timeout = "none" /\ u.seen = TRUE /\ u.attached = TRUE
               /\ u.hoverState # "out"
  <1> DEFINE wanted == [t EXCEPT !.hoverState = "in"]
             off    == [t EXCEPT !.hoverState = "in", !.timeout = "none"]
  <1>1. /\ wanted \in Tips /\ wanted.pending = t.pending /\ wanted.hoverState = "in"
        /\ wanted.timeout = t.timeout /\ wanted.seen = t.seen /\ wanted.attached = t.attached
        /\ wanted.gone = t.gone
        BY DEF Tips
  <1>2. /\ off \in Tips /\ off.pending = t.pending /\ off.hoverState = "in"
        /\ off.timeout = "none" /\ off.gone = t.gone
        BY DEF Tips
  <1>3. CASE t.seen \/ t.hoverState = "in"
    <2>1. u = wanted
          BY <1>3, Zenon DEF Tip!Enter
    <2> QED  BY <1>1, <1>3, <2>1, AwaitedSame
  <1>4. CASE ~(t.seen \/ t.hoverState = "in") /\ delay.show
    <2>1. u = [wanted EXCEPT !.timeout = "show"]
          BY <1>4, Zenon DEF Tip!Enter
    <2>2. /\ u \in Tips /\ u.pending = t.pending /\ u.hoverState = "in"
          /\ u.timeout = "show" /\ u.seen = t.seen /\ u.gone = t.gone
          BY <2>1 DEF Tips
    <2> QED  BY <1>4, <2>2, AwaitedSame
  <1>5. CASE ~(t.seen \/ t.hoverState = "in") /\ ~delay.show
    <2>1. u = Tip!Show([wanted EXCEPT !.timeout = "none"])
          BY <1>5, Zenon DEF Tip!Enter
    <2>2. [wanted EXCEPT !.timeout = "none"] = off
          BY DEF Tips
    <2>3. u = Tip!Show(off)
          BY <2>1, <2>2
    <2> HIDE DEF off
    <2>4. Awaited(off) = Awaited(t)
          BY <1>2, AwaitedSame
    <2>5. /\ u \in Tips /\ u.gone = off.gone
          /\ enabled => /\ u.attached = TRUE /\ u.seen = TRUE /\ u.timeout = off.timeout
                        /\ u.hoverState \in {off.hoverState, "null"}
      <3>1. off \in Tips
            BY <1>2
      <3> QED  BY <2>3, <3>1, ShowIs
    <2>6. Awaited(u) \subseteq Awaited(off) \union {"shown"}
      <3>1. off \in Tips
            BY <1>2
      <3>2. CASE ~enabled
        <4>1. u = off
              BY <2>3, <3>1, <3>2, ShowIs
        <4> QED  BY <4>1
      <3>3. CASE enabled
            BY <2>3, <3>1, <3>3, ShowIs
      <3> QED  BY <3>2, <3>3
    <2>7. CASE ~enabled
          BY <1>2, <2>4, <2>5, <2>6, <2>7
    <2>8. CASE enabled
      <3>1. u.timeout = "none" /\ u.seen = TRUE /\ u.attached = TRUE /\ u.hoverState # "out"
            BY <1>2, <2>5, <2>8
      <3> QED  BY <1>2, <2>4, <2>5, <2>6, <3>1
    <2> QED  BY <2>7, <2>8
  <1> QED  BY <1>3, <1>4, <1>5

\* What holds of a tip holds when one of the callbacks has run.
LEMMA CompleteFits ==
  ASSUME TipTypes, NEW t \in Tips, NEW c \in Callbacks, NEW rest \in SUBSET Callbacks,
         TipFits(t, rest \union {c} \union Awaited(t))
  PROVE  /\ Tip!Complete(t, c) \in Tips
         /\ TipFits(Tip!Complete(t, c), rest \union Awaited(Tip!Complete(t, c)))
  <1> DEFINE u == Tip!Complete(t, c)
             null == [t EXCEPT !.hoverState = "null"]
  <1>0. Awaited(t) \subseteq Callbacks
    <2>1. t.pending \in Seq(Callbacks)
          BY DEF Tips
    <2> QED  BY <2>1, ElementOfSeq DEF Awaited
  <1>1. /\ null \in Tips /\ null.pending = t.pending /\ null.hoverState = "null"
        /\ null.timeout = t.timeout /\ null.seen = t.seen /\ null.attached = t.attached
        /\ null.gone = t.gone /\ Awaited(null) = Awaited(t)
        BY AwaitedSame DEF Tips
  <1>5. CASE t.gone
    <2>1. u = t
          BY <1>5, Zenon DEF Tip!Complete
    <2> QED  BY <1>5, <2>1 DEF TipFits
  <1>2. CASE ~t.gone /\ c = "shown" /\ t.hoverState = "out" /\ inState = {}
    <2>1. u = Tip!CompleteShow(t)
          BY <1>2, Zenon DEF Tip!Complete
    <2>2. u = Tip!Leave(null, inState)
          BY <1>2, <2>1, Zenon DEF Tip!CompleteShow
    <2> HIDE DEF u, null
    <2>3. u = Tip!Leave(null, {})
          BY <1>2, <2>2
    <2>4. /\ u \in Tips /\ u.hoverState # "in" /\ u.timeout # "show"
          /\ \/ /\ u.timeout = "hide" /\ u.hoverState = "out" /\ u.attached = t.attached
                /\ u.seen = t.seen /\ Awaited(u) = Awaited(t)
             \/ u.seen = FALSE /\ (u.attached => "hidden" \in Awaited(u))
          /\ ~u.gone /\ Awaited(t) \subseteq Awaited(u)
          BY <1>1, <1>2, <2>3, LeaveIs DEF TipTypes
    <2>6. Leaving(u, rest \union Awaited(u))
          BY <2>4 DEF Leaving
    <2>7. ASSUME ~disturbed, "destroyed" \notin rest \union Awaited(u)
          PROVE  enabled /\ Seen(u, rest \union Awaited(u))
          BY <2>4, <2>7, <1>2 DEF TipFits, Seen
    <2> QED  BY <1>2, <2>4, <2>6, <2>7 DEF TipFits, u
  <1>3. CASE ~t.gone /\ c = "shown" /\ ~(t.hoverState = "out" /\ inState = {})
    <2>1. u = null
          BY <1>3, Zenon DEF Tip!Complete, Tip!CompleteShow, Tip!Leave
    <2> HIDE DEF u, null
    <2>2. Leaving(t, rest \union {c} \union Awaited(t)) /\ t.hoverState # "out"
            => Leaving(u, rest \union Awaited(u))
          BY <1>1, <1>3, <2>1 DEF Leaving
    <2>3. Seen(t, rest \union {c} \union Awaited(t)) => Seen(u, rest \union Awaited(u))
          BY <1>1, <2>1 DEF Seen
    <2>4. Coming(t, rest \union {c} \union Awaited(t)) => Coming(u, rest \union Awaited(u))
          BY <1>1, <2>1 DEF Coming
    <2> QED  BY <1>1, <1>3, <2>1, <2>2, <2>3, <2>4 DEF TipFits, u
  <1>4. CASE ~t.gone /\ c # "shown"
    <2> DEFINE stays == t.attached /\ t.hoverState = "in" /\ c = "hidden"
               dies  == c = "destroyed"
    <2>1. stays \in BOOLEAN /\ dies \in BOOLEAN
          BY Zenon
    <2>2. u = [t EXCEPT !.attached = stays, !.gone = dies]
          BY <1>4, Zenon DEF Tip!Complete, Tip!CompleteHide
    <2>9. (dies <=> c = "destroyed") /\ ~(dies /\ stays)
      <3>1. "hidden" # "destroyed"
            OBVIOUS
      <3> QED  BY <3>1, Zenon
    <2>3. t.hoverState # "in" => ~stays
          BY Zenon
    <2> HIDE DEF stays, dies
    <2>4. /\ u \in Tips /\ u.pending = t.pending /\ u.hoverState = t.hoverState
          /\ u.timeout = t.timeout /\ u.seen = t.seen /\ u.attached = stays /\ u.gone = dies
          BY <2>1, <2>2 DEF Tips
    <2> HIDE DEF u
    <2>5. Awaited(u) = Awaited(t)
          BY <2>4, AwaitedSame
    <2>6. Leaving(t, rest \union {c} \union Awaited(t)) => Leaving(u, rest \union Awaited(u))
          BY <2>3, <2>4, <2>5 DEF Leaving
    <2>7. Seen(t, rest \union {c} \union Awaited(t)) => Seen(u, rest \union Awaited(u))
          BY <1>4, <2>4, <2>5 DEF Seen
    <2>8. Coming(t, rest \union {c} \union Awaited(t)) => Coming(u, rest \union Awaited(u))
          BY <2>4, <2>5 DEF Coming
    <2>10. dies \/ ("destroyed" \in rest \union {c} \union Awaited(t)
                      => "destroyed" \in rest \union Awaited(u))
          BY <2>5, <2>9
    <2> QED  BY <1>4, <2>4, <2>6, <2>7, <2>8, <2>9, <2>10 DEF TipFits, u
  <1> QED  BY <1>2, <1>3, <1>4, <1>5

\* f[k] is the tip when k of its callbacks have run.
Runs(t, n, f) ==
  f = [k \in 0 .. n |-> IF k = 0 THEN [t EXCEPT !.pending = <<>>]
                                 ELSE Tip!Complete(f[k - 1], t.pending[k])]

\* There is such a function for any number of callbacks: the first n for which there is none
\* would follow one for which there is.
LEMMA RunsExist == ASSUME NEW t, NEW n \in Nat PROVE \E f : Runs(t, n, f)
  <1> DEFINE without == {m \in Nat : ~\E f : Runs(t, m, f)}
  <1> SUFFICES ASSUME without # {} PROVE FALSE
      OBVIOUS
  <1>1. PICK m \in without : \A j \in without : m <= j
    <2>1. without \in SUBSET Nat
          OBVIOUS
    <2> HIDE DEF without
    <2> QED  BY <2>1, LeastIsIn
  <1>2. CASE m = 0
    <2> DEFINE f == [k \in 0 .. 0 |-> [t EXCEPT !.pending = <<>>]]
    <2>1. Runs(t, 0, f)
          BY DEF Runs
    <2> QED  BY <1>2, <2>1
  <1>3. CASE m # 0
    <2>1. m \in Nat /\ m - 1 \in Nat /\ m - 1 \notin without
          BY <1>1, <1>3
    <2>2. PICK g : Runs(t, m - 1, g)
          BY <2>1
    <2> DEFINE f == [k \in 0 .. m |-> IF k = m THEN Tip!Complete(g[m - 1], t.pending[m])
                                               ELSE g[k]]
    <2>3. ASSUME NEW k \in 0 .. m
          PROVE  f[k] = IF k = 0 THEN [t EXCEPT !.pending = <<>>]
                                 ELSE Tip!Complete(f[k - 1], t.pending[k])
      <3>1. CASE k = m
        <4>1. f[m - 1] = g[m - 1] /\ f[m] = Tip!Complete(g[m - 1], t.pending[m])
              BY <2>1
        <4> HIDE DEF f
        <4> QED  BY <1>3, <3>1, <4>1
      <3>2. CASE k # m
        <4>1. k \in 0 .. m - 1 /\ f[k] = g[k] /\ (k # 0 => f[k - 1] = g[k - 1])
              BY <2>1, <3>2
        <4>2. g[k] = IF k = 0 THEN [t EXCEPT !.pending = <<>>]
                              ELSE Tip!Complete(g[k - 1], t.pending[k])
              BY <2>2, <4>1 DEF Runs
        <4> HIDE DEF f
        <4> QED  BY <4>1, <4>2
      <3> QED  BY <3>1, <3>2
    <2>4. f = [k \in 0 .. m |-> f[k]]
          OBVIOUS
    <2> HIDE DEF f
    <2>5. Runs(t, m, f)
          BY <2>3, <2>4, Zenon DEF Runs
    <2> QED  BY <1>1, <2>5
  <1> QED  BY <1>2, <1>3

LEMMA CompletedIs ==
  ASSUME NEW t, Len(t.pending) \in Nat
  PROVE  \E f : Runs(t, Len(t.pending), f) /\ Tip!Completed(t) = f[Len(t.pending)]
  <1> DEFINE f == CHOOSE f : Runs(t, Len(t.pending), f)
  <1>1. Runs(t, Len(t.pending), f)
        BY RunsExist
  <1>2. Tip!Completed(t) = f[Len(t.pending)]
        BY DEF Tip!Completed, Runs
  <1> QED  BY <1>1, <1>2

\* All of them together keep what holds of a tip.
LEMMA CompletedFits ==
  ASSUME TipTypes, NEW t \in Tips, TipFits(t, Awaited(t)), NEW u, u = Tip!Completed(t)
  PROVE  u \in Tips /\ TipFits(u, Awaited(u))
  <1> DEFINE n       == Len(t.pending)
             rest(k) == {t.pending[j] : j \in k + 1 .. n}
  <1>1. t.pending \in Seq(Callbacks) /\ n \in Nat /\ \A k \in 1 .. n : t.pending[k] \in Callbacks
    <2>1. t.pending \in Seq(Callbacks)
          BY DEF Tips
    <2> QED  BY <2>1, ElementOfSeq
  <1>2. PICK f : Runs(t, n, f) /\ u = f[n]
        BY <1>1, CompletedIs
  <1>3. \A k \in 0 .. n : f[k] = IF k = 0 THEN [t EXCEPT !.pending = <<>>]
                                         ELSE Tip!Complete(f[k - 1], t.pending[k])
        BY <1>2, Zenon DEF Runs
  <1> DEFINE Fits(k) == f[k] \in Tips /\ TipFits(f[k], rest(k) \union Awaited(f[k]))
             bad     == {k \in 0 .. n : ~Fits(k)}
  <1>4. Fits(0)
    <2>1. f[0] = [t EXCEPT !.pending = <<>>]
          BY <1>1, <1>3
    <2>2. <<>> \in Seq(Callbacks)
          OBVIOUS
    <2>3. /\ f[0] \in Tips /\ f[0].pending = <<>> /\ f[0].hoverState = t.hoverState
          /\ f[0].timeout = t.timeout /\ f[0].attached = t.attached /\ f[0].seen = t.seen
          /\ f[0].gone = t.gone
          BY <2>1, <2>2 DEF Tips
    <2>4. rest(0) \union Awaited(f[0]) = Awaited(t)
      <3>1. Awaited(f[0]) = {}
            BY <2>3, AwaitedNone
      <3>2. 0 + 1 .. n = 1 .. n
            BY <1>1
      <3>3. rest(0) = Awaited(t)
            BY <3>2 DEF Awaited
      <3> HIDE DEF rest
      <3> QED  BY <3>1, <3>3
    <2> HIDE DEF rest
    <2>5. TipFits(f[0], Awaited(t))
          BY <2>3 DEF TipFits, Leaving, Seen, Coming
    <2> QED  BY <2>3, <2>4, <2>5
  <1>5. ASSUME NEW k \in 1 .. n, Fits(k - 1) PROVE Fits(k)
    <2>1. f[k] = Tip!Complete(f[k - 1], t.pending[k]) /\ k \in Nat
          BY <1>1, <1>3
    <2>2. rest(k - 1) = rest(k) \union {t.pending[k]} /\ rest(k) \in SUBSET Callbacks
          BY <1>1, <2>1
    <2>3. t.pending[k] \in Callbacks
          BY <1>1
    <2> HIDE DEF rest
    <2> QED  BY <1>5, <2>1, <2>2, <2>3, CompleteFits
  <1>6. bad = {}
    <2> SUFFICES ASSUME bad # {} PROVE FALSE
        OBVIOUS
    <2>1. bad \in SUBSET Nat
          BY <1>1
    <2>2. PICK k \in bad : \A j \in bad : k <= j
      <3> HIDE DEF bad
      <3> QED  BY <2>1, LeastIsIn
    <2>3. k \in 0 .. n /\ ~Fits(k)
          OBVIOUS
    <2>4. k # 0
          BY <1>4, <2>3
    <2>5. k - 1 \in 0 .. n /\ k \in 1 .. n /\ ~(k <= k - 1)
          BY <1>1, <2>3, <2>4
    <2> HIDE DEF Fits
    <2>6. Fits(k - 1)
          BY <2>2, <2>5
    <2> QED  BY <1>5, <2>3, <2>5, <2>6
  <1>7. Fits(n)
    <2>1. n \in 0 .. n
          BY <1>1
    <2> HIDE DEF Fits
    <2> QED  BY <1>6, <2>1
  <1>8. rest(n) = {}
        BY <1>1
  <1> QED  BY <1>2, <1>7, <1>8

TipOthers == UNCHANGED <<fades, delay>>

\* A reason comes, or one that is there comes again.
LEMMA EnterKeeps ==
  ASSUME TipInv, TipOthers, UNCHANGED enabled, ~tip.gone, inState' \subseteq Reasons, inState' # {},
         disturbed' = (disturbed \/ tip.pending # <<>>), tip' = Tip!Enter(tip)
  PROVE  TipInv'
  <1> USE DEF TipInv, TipTypes, TipOthers
  <1>1. /\ tip' \in Tips /\ tip'.gone = tip.gone /\ Awaited(tip') \subseteq Awaited(tip) \union {"shown"}
        /\ \/ /\ tip.seen \/ tip.hoverState = "in"
              /\ tip'.hoverState = "in" /\ tip'.timeout = tip.timeout /\ tip'.seen = tip.seen
              /\ tip'.attached = tip.attached /\ Awaited(tip') = Awaited(tip)
           \/ /\ ~tip.seen /\ tip'.hoverState = "in" /\ tip'.timeout = "show"
              /\ tip'.seen = tip.seen /\ Awaited(tip') = Awaited(tip)
           \/ ~enabled
           \/ /\ tip'.timeout = "none" /\ tip'.seen = TRUE /\ tip'.attached = TRUE
              /\ tip'.hoverState # "out"
        BY EnterIs
  <1>2. disturbed' \in BOOLEAN
        BY Zenon
  <1>3. ASSUME ~disturbed'
        PROVE  enabled /\ Seen(tip', Awaited(tip')) /\ Coming(tip', Awaited(tip'))
    <2>1. ~disturbed /\ Awaited(tip) = {}
          BY <1>3, AwaitedNone
    <2>2. enabled /\ Seen(tip, {}) /\ (inState = {} => Leaving(tip, {}))
          /\ (inState # {} => Coming(tip, {}))
          BY <2>1 DEF TipFits
    <2> QED  BY <1>1, <2>1, <2>2 DEF Seen, Coming, Leaving
  <1> QED  BY <1>1, <1>2, <1>3 DEF TipFits, Leaving, Seen, Coming, Awaited

\* The last reason goes.
LEMMA LeaveKeeps ==
  ASSUME TipInv, TipOthers, UNCHANGED enabled, ~tip.gone, inState' = {},
         disturbed' = (disturbed \/ tip.pending # <<>>), tip' = Tip!Leave(tip, {})
  PROVE  TipInv'
  <1> USE DEF TipInv, TipTypes, TipOthers
  <1>1. /\ tip' \in Tips /\ tip'.hoverState # "in" /\ tip'.timeout # "show"
        /\ ~tip'.gone /\ Awaited(tip) \subseteq Awaited(tip')
        /\ \/ /\ tip'.timeout = "hide" /\ tip'.hoverState = "out"
              /\ tip'.attached = tip.attached /\ tip'.seen = tip.seen
              /\ Awaited(tip') = Awaited(tip)
           \/ tip'.seen = FALSE /\ (tip'.attached => "hidden" \in Awaited(tip'))
        BY LeaveIs
  <1>2. disturbed' \in BOOLEAN
        BY Zenon
  <1>3. Leaving(tip', Awaited(tip'))
        BY <1>1 DEF Leaving
  <1>4. ASSUME ~disturbed', "destroyed" \notin Awaited(tip')
        PROVE  enabled /\ Seen(tip', Awaited(tip'))
        BY <1>1, <1>4 DEF TipFits, Seen
  <1> QED  BY <1>1, <1>2, <1>3, <1>4 DEF TipFits, Leaving, Seen, Awaited

LEMMA EventOutKeeps == ASSUME TipInv, Tip!EventOut PROVE TipInv'
  <1>1. /\ TipOthers /\ UNCHANGED enabled /\ ~tip.gone /\ inState' \subseteq inState
        /\ disturbed' = (disturbed \/ tip.pending # <<>>) /\ tip' = Tip!Leave(tip, inState')
        BY DEF Tip!EventOut, Tip!Event, TipOthers
  <1>2. CASE inState' = {}
        BY <1>1, <1>2, LeaveKeeps
  <1>3. CASE inState' # {}
    <2>1. tip' = tip
          BY <1>1, <1>3, Zenon DEF Tip!Leave
    <2>2. disturbed' \in BOOLEAN
          BY <1>1, Zenon
    <2> QED  BY <1>1, <1>3, <2>1, <2>2
             DEF TipInv, TipTypes, TipOthers, TipFits, Leaving, Seen, Coming, Awaited
  <1> QED  BY <1>2, <1>3

LEMMA ClickKeeps == ASSUME TipInv, Tip!Click PROVE TipInv'
  <1>1. /\ TipOthers /\ UNCHANGED enabled /\ ~tip.gone /\ inState' \subseteq Reasons
        /\ disturbed' = (disturbed \/ tip.pending # <<>>)
        BY DEF Tip!Click, Tip!Event, TipOthers, TipInv, TipTypes
  <1>2. tip' = IF inState' # {} THEN Tip!Enter(tip) ELSE Tip!Leave(tip, {})
        BY DEF Tip!Click
  <1>3. CASE inState' # {}
        BY <1>1, <1>2, <1>3, EnterKeeps
  <1>4. CASE inState' = {}
        BY <1>1, <1>2, <1>4, LeaveKeeps
  <1> QED  BY <1>3, <1>4

\* hide() by a script, or by destroy().
LEMMA CallHideKeeps == ASSUME TipInv, Tip!CallHide PROVE TipInv'
  <1>1. /\ UNCHANGED <<fades, delay, enabled, inState>> /\ ~tip.gone /\ disturbed' = TRUE
        /\ tip' = Tip!Hide(tip, "hidden")
        BY DEF Tip!CallHide
  <1>2. tip \in Tips
        BY DEF TipInv, TipTypes
  <1>3. /\ tip' \in Tips /\ tip'.hoverState = "null" /\ tip'.timeout = tip.timeout
        /\ ~tip'.gone
        BY <1>1, <1>2, HiddenIs
  <1>4. tip'.attached => "hidden" \in Awaited(tip') \/ tip.hoverState = "in"
        BY <1>1, <1>2, HiddenIs
  <1>5. ASSUME inState = {} PROVE Leaving(tip', Awaited(tip'))
        BY <1>1, <1>3, <1>4, <1>5 DEF TipInv, TipFits, Leaving
  <1> QED  BY <1>1, <1>3, <1>4, <1>5 DEF TipInv, TipTypes, TipFits, Leaving, Awaited

LEMMA DestroyKeeps == ASSUME TipInv, Tip!Destroy PROVE TipInv'
  <1> DEFINE off == [tip EXCEPT !.timeout = "none"]
  <1>1. /\ UNCHANGED <<fades, delay, enabled, inState>> /\ ~tip.gone
        /\ disturbed' = (disturbed \/ tip.pending # <<>>)
        /\ tip' = Tip!Hide(off, "destroyed")
        BY DEF Tip!Destroy, Tip!Event
  <1>2. off \in Tips /\ off.timeout = "none" /\ ~off.gone
        BY <1>1 DEF Tips, TipInv, TipTypes
  <1> HIDE DEF off
  <1>3. tip' \in Tips /\ tip'.hoverState = "null" /\ tip'.timeout = "none"
        BY <1>1, <1>2, DestroyedIs
  <1>4. "destroyed" \in Awaited(tip') \/ (tip'.gone /\ ~tip'.attached)
        BY <1>1, <1>2, DestroyedIs
  <1>5. tip'.gone => ~tip'.attached
        BY <1>1, <1>2, DestroyedIs
  <1>6. disturbed' \in BOOLEAN
        BY <1>1, Zenon
  <1> QED  BY <1>1, <1>3, <1>4, <1>5, <1>6 DEF TipInv, TipTypes, TipFits, Leaving, Awaited

\* A timer that fires shows the tip only if it is wanted, and hides it only if it is not.
LEMMA TimerFits ==
  ASSUME TipTypes, NEW t \in Tips, t.timeout # "none", TipFits(t, Awaited(t)),
         NEW u, u = Tip!Fired(t)
  PROVE  u \in Tips /\ TipFits(u, Awaited(u))
  <1> USE DEF TipTypes
  <1> DEFINE off == [t EXCEPT !.timeout = "none"]
  <1>1. /\ off \in Tips /\ off.pending = t.pending /\ off.hoverState = t.hoverState
        /\ off.timeout = "none" /\ off.seen = t.seen /\ off.attached = t.attached
        /\ off.gone = t.gone /\ Awaited(off) = Awaited(t)
        BY AwaitedSame DEF Tips
  <1>3. CASE t.timeout = "show" /\ t.hoverState = "in" /\ ~t.gone
    <2>1. u = Tip!Show(off)
          BY <1>3, Zenon DEF Tip!Fired
    <2>2. inState # {}
          BY <1>3 DEF TipFits, Leaving
    <2> HIDE DEF off
    <2>5. /\ u \in Tips /\ u.gone = off.gone
          /\ ~enabled => u = off
          /\ enabled => /\ u.attached = TRUE /\ u.seen = TRUE /\ u.timeout = off.timeout
                        /\ u.hoverState \in {off.hoverState, "null"}
                        /\ Awaited(off) \subseteq Awaited(u)
                        /\ Awaited(u) \subseteq Awaited(off) \union {"shown"}
      <3>1. fades \in BOOLEAN /\ off \in Tips
            BY <1>1
      <3> HIDE DEF TipTypes
      <3> QED  BY <2>1, <3>1, ShowIs, ZenonT(60)
    <2>3. CASE enabled
      <3>1. /\ u \in Tips /\ u.attached = TRUE /\ u.seen = TRUE /\ u.timeout = "none"
            /\ u.hoverState # "out" /\ Awaited(u) \subseteq Awaited(t) \union {"shown"}
            /\ Awaited(t) \subseteq Awaited(u) /\ ~u.gone
            BY <1>1, <1>3, <2>3, <2>5
      <3>2. ASSUME ~disturbed, "destroyed" \notin Awaited(t) PROVE enabled /\ Awaited(t) = {}
            BY <1>3, <2>2, <3>2 DEF TipFits, Coming
      <3> QED  BY <2>2, <2>3, <3>1, <3>2 DEF TipFits, Seen, Coming
    <2>4. CASE ~enabled
      <3>1. u = off
            BY <2>4, <2>5
      <3> QED  BY <1>1, <1>3, <2>2, <2>4, <3>1 DEF TipFits
    <2> QED  BY <2>3, <2>4
  <1>4. CASE t.timeout = "hide" /\ t.hoverState = "out" /\ ~t.gone
    <2>1. u = Tip!Hide(off, "hidden")
          BY <1>4, Zenon DEF Tip!Fired
    <2> HIDE DEF off
    <2>2. off \in Tips /\ ~off.gone /\ off.hoverState # "in"
          BY <1>1, <1>4
    <2>3. /\ u \in Tips /\ u.seen = FALSE /\ u.hoverState = "null" /\ u.timeout = off.timeout
          /\ u.attached => "hidden" \in Awaited(u) \/ off.hoverState = "in"
          /\ ~u.gone /\ Awaited(off) \subseteq Awaited(u)
      <3> HIDE DEF TipTypes
      <3> QED  BY <2>1, <2>2, HiddenIs, ZenonT(60)
    <2>5. ~u.gone /\ Awaited(t) \subseteq Awaited(u)
          BY <1>1, <2>3
    <2>4. ASSUME ~disturbed, "destroyed" \notin Awaited(u) PROVE enabled /\ inState = {}
          BY <1>4, <2>4, <2>5 DEF TipFits, Coming
    <2> QED  BY <1>1, <2>2, <2>3, <2>4, <2>5 DEF TipFits, Leaving, Seen
  <1>5. CASE /\ ~(t.timeout = "show" /\ t.hoverState = "in" /\ ~t.gone)
             /\ ~(t.timeout = "hide" /\ t.hoverState = "out" /\ ~t.gone)
    <2>1. u = off
          BY <1>5, Zenon DEF Tip!Fired
    <2> HIDE DEF off
    <2> QED  BY <1>1, <1>5, <2>1 DEF TipFits, Leaving, Seen, Coming
  <1> QED  BY <1>3, <1>4, <1>5

LEMMA TipNext == ASSUME TipInv, [Tip!Next]_(Tip!vars) PROVE TipInv'
  <1>1. CASE Tip!EventIn
    <2>1. /\ TipOthers /\ UNCHANGED enabled /\ ~tip.gone
          /\ disturbed' = (disturbed \/ tip.pending # <<>>) /\ tip' = Tip!Enter(tip)
          BY <1>1 DEF Tip!EventIn, Tip!Event, TipOthers
    <2>2. inState' \subseteq Reasons /\ inState' # {}
          BY <1>1 DEF Tip!EventIn, TipInv, TipTypes
    <2> QED  BY <2>1, <2>2, EnterKeeps
  <1>2. CASE Tip!EventOut  BY <1>2, EventOutKeeps
  <1>3. CASE Tip!Click     BY <1>3, ClickKeeps
  <1>4. CASE Tip!Enable
        BY <1>4 DEF Tip!Enable, TipInv, TipTypes, TipFits, Leaving, Awaited
  <1>5. CASE Tip!CallHide  BY <1>5, CallHideKeeps
  <1>6. CASE Tip!Destroy   BY <1>6, DestroyKeeps
  <1>7. CASE Tip!TimerFires
    <2>1. /\ UNCHANGED <<fades, delay, enabled, inState, disturbed>>
          /\ tip.timeout # "none" /\ tip' = Tip!Fired(tip)
          BY <1>7 DEF Tip!TimerFires
    <2>2. tip' \in Tips /\ TipFits(tip', Awaited(tip'))
          BY <2>1, TimerFits DEF TipInv, TipTypes
    <2> QED  BY <2>1, <2>2
             DEF TipInv, TipTypes, TipFits, Leaving, Seen, Coming, Awaited
  <1>8. CASE Tip!End
    <2>1. /\ UNCHANGED <<fades, delay, enabled, inState, disturbed>>
          /\ tip' = Tip!Completed(tip)
          BY <1>8 DEF Tip!End
    <2>2. tip' \in Tips /\ TipFits(tip', Awaited(tip'))
          BY <2>1, CompletedFits DEF TipInv, TipTypes
    <2> QED  BY <2>1, <2>2
             DEF TipInv, TipTypes, TipFits, Leaving, Seen, Coming, Awaited
  <1>9. CASE UNCHANGED Tip!vars
        BY <1>9 DEF Tip!vars, TipInv, TipTypes, TipFits, Leaving, Seen, Coming, Awaited
  <1> QED  BY <1>1, <1>2, <1>3, <1>4, <1>5, <1>6, <1>7, <1>8, <1>9 DEF Tip!Next

\* Every step is one of Tooltip, or none.
LEMMA TipSteps == [Next]_vars => [Tip!Next]_(Tip!vars)
  <1> SUFFICES ASSUME [Next]_vars PROVE [Tip!Next]_(Tip!vars)
      OBVIOUS
  <1>1. CASE UNCHANGED tipVars
        BY <1>1 DEF tipVars, Tip!vars
  <1>2. CASE TipEvent \/ TipTimer \/ TipEnds
        BY <1>2 DEF TipEvent, TipTimer, TipEnds, Tip!Next
  <1> QED  BY <1>1, <1>2 DEF Next, ShowStep, vars

LEMMA InitTipInv == Init => TipInv
  <1> SUFFICES ASSUME Init PROVE TipInv
      OBVIOUS
  <1>1. /\ tip = [hoverState |-> "null", timeout |-> "none", attached |-> FALSE,
                  seen |-> FALSE, fading |-> FALSE, pending |-> <<>>,
                  gone |-> FALSE]
        /\ fades \in BOOLEAN /\ delay \in Delays
        /\ enabled = TRUE /\ inState = {} /\ disturbed = FALSE
        BY DEF Init, Tip!Init
  <1>2. <<>> \in Seq(Callbacks)
        OBVIOUS
  <1>3. TipTypes
        BY <1>1, <1>2 DEF TipTypes, Tips
  <1>4. TipFits(tip, Awaited(tip))
        BY <1>1 DEF TipFits, Leaving, Seen
  <1> QED  BY <1>3, <1>4 DEF TipInv

LEMMA StepTipInv == TipInv /\ [Next]_vars => TipInv'
  BY TipSteps, TipNext

\* Every state is of the declared types, for any slides, triggers, delays and bounds.
THEOREM TypeCorrect == Spec => []TypeOK
  <1>1. SInv => Show!TypeOK
        BY DEF SInv, Slides, SlideTypes, OtherTypes, Quiet, Sound, Timers, Show!TypeOK
  <1>2. TipInv => Tip!TypeOK
        BY DEF TipInv, TipTypes, Tips, Callbacks, Tip!TypeOK
  <1> QED  BY InitSInv, StepSInv, InitTipInv, StepTipInv, <1>1, <1>2, PTL DEF Spec, TypeOK

\* However quickly reasons come and go while the tip fades and its timers run, no tip stays
\* without a reason or after destroy(); for any triggers and delays.
THEOREM TipsGo == Spec => []NeverStuck
  <1>1. TipInv => NeverStuck
    <2> SUFFICES ASSUME TipInv, Tip!AtRest, inState = {} \/ tip.gone PROVE ~tip.attached
        BY DEF NeverStuck, Tip!NeverStuck
    <2>1. Awaited(tip) = {} /\ tip.timeout = "none"
          BY AwaitedNone DEF TipInv, TipTypes, Tip!AtRest
    <2> QED  BY <2>1 DEF TipInv, TipFits, Leaving
  <1> QED  BY InitTipInv, StepTipInv, <1>1, PTL DEF Spec

\* If nothing came in the middle of a fade, a tip is to be seen as long as there is a reason.
THEOREM TipsStay == Spec => []SeenWhenWanted
  <1>1. TipInv => SeenWhenWanted
    <2> SUFFICES ASSUME TipInv, Tip!AtRest, inState # {}, ~tip.gone, ~disturbed
                 PROVE  tip.attached /\ tip.seen
        BY DEF SeenWhenWanted, Tip!SeenWhenWanted
    <2>1. tip.timeout = "none" /\ Awaited(tip) = {}
          BY AwaitedNone DEF TipInv, TipTypes, Tip!AtRest
    <2> QED  BY <2>1 DEF TipInv, TipFits, Seen, Coming
  <1> QED  BY InitTipInv, StepTipInv, <1>1, PTL DEF Spec
-----------------------------------------------------------------------------
(* The parts                                                                 *)

\* Neither part notices the other, though the tip fades inside an item that may be sliding
\* and its end events bubble to that item: the page is a Carousel, and it is a Tooltip.
THEOREM PartsImplemented == Spec => Show!Spec /\ Tip!Spec
  <1>1. Init => Show!Init /\ Tip!Init
        BY DEF Init
  <1>2. SInv /\ [Next]_vars => [Show!Next]_(Show!vars)
        BY ShowSteps
  <1>3. [Next]_vars => [Tip!Next]_(Tip!vars)
        BY TipSteps
  <1> QED  BY <1>1, <1>2, <1>3, InitSInv, StepSInv, PTL DEF Spec, Show!Spec, Tip!Spec
=============================================================================
