------------------------------- MODULE Accordion -------------------------------
(***************************************************************************)
(* A group of collapsible panels with a common parent: Collapse of           *)
(* bootstrap.js.  A panel may have a Collapse instance in its data            *)
(* ('bs.collapse'); it is created by the first call, knows the group only if   *)
(* a click or the page told it the parent, and may be dropped again by a call  *)
(* that opens another panel.  The callbacks of a transition wait on the        *)
(* panel's element: an end event there, of the browser or of the timer of      *)
(* emulateTransitionEnd, runs all that wait.                                   *)
(***************************************************************************)
EXTENDS Integers

CONSTANTS N,       \* number of panels, in the order of the document
          Vetoes   \* the events "show" and "hide" that a listener may prevent

\* What the constants are; the modules that instantiate this one assume it.
Assumptions == N \in Nat \ {0} /\ Vetoes \subseteq {"show", "hide"}

Panels == 1 .. N

VARIABLES
  support,   \* $.support.transition
  open,      \* the panel's class "in"
  expanded,  \* aria-expanded of its trigger, and its class "collapsed" negated
  instance,  \* in its data: "none", one that is "grouped", or one without $parent, "alone"
  busy,      \* transitioning, of that instance
  pending,   \* callbacks waiting on the panel; it has the class "collapsing" then
  rushed     \* history: what was done too fast for the code, no part of it

vars == <<support, open, expanded, instance, busy, pending, rushed>>

Init ==
  /\ support \in BOOLEAN
  /\ \E first \in Panels \union {0} : open = [p \in Panels |-> p = first]
  /\ expanded = open
  /\ instance \in [Panels -> {"none", "grouped"}]
  /\ busy = [p \in Panels |-> FALSE]
  /\ pending = [p \in Panels |-> {}]
  /\ rushed = {}

-----------------------------------------------------------------------------
(* What show and hide look at                                                *)

\* children('.in, .collapsing') of the parent's panels.
Actives == {q \in Panels : open[q] \/ pending[q] # {}}

First(S) == CHOOSE q \in S : \A r \in S : q <= r

\* Defect: the panel that moves is not asked.
BlockedNever(actives, insts) == FALSE

\* activesData is that of the first active panel only.
Blocked(actives, insts) ==
  /\ actives # {}
  /\ insts[First(actives)] # "none" /\ busy[First(actives)]

\* Defect: transitioning is not looked at.
MayShowAnyTime(p) == ~open[p]

\* The early returns of show and hide.
MayShow(p) == ~busy[p] /\ ~open[p]
MayHide(p) == ~busy[p] /\ open[p]

\* Which of the panels a listener keeps from doing so.
Prevented(event, ps) == IF event \in Vetoes THEN SUBSET ps ELSE {{}}

-----------------------------------------------------------------------------
(* Their effects                                                             *)

\* Defect: a panel that is closed for another keeps its attribute.
ExpandedUncleared(showing, hiding, built) ==
  [q \in Panels |-> (q = showing) \/ (IF q \in built THEN open[q] ELSE expanded[q])]

\* show and hide set the attribute of their panel, a constructor before them that of the
\* panels in built from the class.
Expanded(showing, hiding, built) ==
  [q \in Panels |-> (q = showing)
     \/ (q \notin hiding /\ IF q \in built THEN open[q] ELSE expanded[q])]

\* Transitions begin: without support the callbacks run at once.
Move(showing, hiding) ==
  /\ open' = [q \in Panels |-> (open[q] /\ q \notin hiding) \/ (q = showing /\ ~support)]
  /\ pending' = [q \in Panels |-> pending[q]
                   \union (IF support /\ q = showing THEN {"shown"} ELSE {})
                   \union (IF support /\ q \in hiding THEN {"hidden"} ELSE {})]
  /\ UNCHANGED support

\* The instances after a call, and which of them are transitioning.
Instances(insts, moving) ==
  /\ instance' = insts
  /\ busy' = [q \in Panels |->
                 insts[q] # "none" /\ (busy[q] \/ (support /\ q \in moving))]

\* A constructor without a call.
Build(built, insts) ==
  /\ expanded' = Expanded(0, {}, built)
  /\ Instances(insts, {})
  /\ UNCHANGED <<support, open, pending>>

\* show() of p by an instance of the given kind: the active panels of its group are hidden,
\* for which those without an instance get one that knows no group; if the first had none
\* they all lose theirs.  stored is the instance of p when the call returns.
Show(p, kind, insts, built, stored) ==
  LET actives == IF kind = "grouped" THEN Actives ELSE {}
      dropped == IF actives = {} \/ insts[First(actives)] # "none" THEN {} ELSE actives
      made    == {q \in actives : insts[q] = "none"}
      hidable == {q \in actives : MayHide(q)}
  IN  /\ MayShow(p) /\ ~Blocked(actives, insts)
      /\ \E spared \in Prevented("hide", hidable) :
           LET hiding == hidable \ spared
           IN  /\ expanded' = Expanded(p, hiding, built \union made)
               /\ Instances([q \in Panels |->
                                CASE q = p /\ stored # "none" -> stored
                                  [] q \in dropped           -> "none"
                                  [] q \in made \ dropped    -> "alone"
                                  [] OTHER                   -> insts[q]],
                             {p} \union hiding)
               /\ Move(p, hiding)

\* hide() of p.
Hide(p, insts, built) ==
  /\ MayHide(p)
  /\ expanded' = Expanded(0, {p}, built)
  /\ Instances(insts, {p})
  /\ Move(0, {p})

-----------------------------------------------------------------------------
(* The calls                                                                 *)

\* A panel moves whose instance another call has dropped: who opens a panel, or makes an
\* instance, cannot ask it.
Unasked == {why \in {"unasked"} : \E q \in Panels : pending[q] # {} /\ instance[q] = "none"}

\* A constructor runs while a panel opens, which has no class "in" yet.
Rebuilt == {why \in {"rebuilt"} : \E q \in Panels : "shown" \in pending[q]}

Rush(whys) == rushed' = rushed \union whys

With(p, kind) == [instance EXCEPT ![p] = kind]

\* A click on the trigger of p: toggle() of its instance.
ClickAgain(p) ==
  /\ instance[p] # "none"
  /\ \/ Show(p, instance[p], instance, {}, "none") /\ Rush(Unasked)
     \/ Hide(p, instance, {}) /\ UNCHANGED rushed

\* The first click: a constructor, which calls toggle() and is stored when it returns,
\* even if a listener or a moving panel kept toggle() from doing anything.
ClickFirst(p) ==
  /\ instance[p] = "none"
  /\ Rush(Unasked \union Rebuilt)
  /\ \/ Show(p, "grouped", instance, Panels, "grouped")
     \/ Hide(p, With(p, "grouped"), Panels)
     \/ /\ IF open[p] THEN "hide" \in Vetoes
                      ELSE "show" \in Vetoes \/ Blocked(Actives, instance)
        /\ Build(Panels, With(p, "grouped"))

\* $(p).collapse({parent: ..., toggle: false}), by which a page prepares its panels.
Setup(p) ==
  /\ instance[p] = "none"
  /\ Rush(Unasked \union Rebuilt)
  /\ Build(Panels, With(p, "grouped"))

\* The end of a transition of p, by the browser or the timer: complete(), once for each
\* callback.  No hide begins while one waits, so that "shown", if there, has its way.
End(p) ==
  /\ pending[p] # {}
  /\ open' = [open EXCEPT ![p] = @ \/ "shown" \in pending[p]]
  /\ pending' = [pending EXCEPT ![p] = {}]
  /\ busy' = [busy EXCEPT ![p] = FALSE]
  /\ UNCHANGED <<support, expanded, instance, rushed>>

Next == \E p \in Panels : ClickAgain(p) \/ ClickFirst(p) \/ Setup(p) \/ End(p)

Spec == Init /\ [][Next]_vars

\* The timer of emulateTransitionEnd fires.
Fairness == \A p \in Panels : WF_vars(End(p))

FairSpec == Spec /\ Fairness

-----------------------------------------------------------------------------
(* Properties *)

TypeOK ==
  /\ support \in BOOLEAN
  /\ open \in [Panels -> BOOLEAN] /\ expanded \in [Panels -> BOOLEAN]
  /\ instance \in [Panels -> {"none", "alone", "grouped"}] /\ busy \in [Panels -> BOOLEAN]
  /\ pending \in [Panels -> SUBSET {"shown", "hidden"}]
  /\ rushed \subseteq {"unasked", "rebuilt"}

Opening(p) == open[p] \/ "shown" \in pending[p]

\* At most one panel of the group is open or on its way there, in whatever order the
\* triggers are clicked and the transitions end, although show() asks only the first active
\* panel whether it moves.  It holds until a panel is opened, or an instance made, while one
\* moves that cannot be asked; a second click within 350 ms is enough for that where the
\* page has not prepared its panels, and then two may stay open.
OneOpen ==
  "unasked" \notin rushed => \A p, q \in Panels : Opening(p) /\ Opening(q) => p = q

\* A trigger never announces a panel that is closed or closing.  One that is open or opening
\* it announces too, unless a constructor ran while a panel was opening: it resets the
\* attributes of all panels from a class that comes with the end of the motion.
AriaTruthful ==
  \A p \in Panels : /\ expanded[p] => Opening(p)
                    /\ rushed = {} => (Opening(p) => expanded[p])

Phase(p) ==
  CASE "shown" \in pending[p] -> "opening"
    [] pending[p] = {"hidden"} -> "closing"
    [] OTHER -> IF open[p] THEN "open" ELSE "closed"
=============================================================================
