----------------------------- MODULE Transitions -----------------------------
(***************************************************************************)
(* The end of a CSS transition, as the widgets of bootstrap.js wait for it:  *)
(* emulateTransitionEnd triggers the event itself after the duration, in case *)
(* the browser does not, and the special event bsTransitionEnd passes on only *)
(* the events of the element itself.  Durations are in units of 150 ms.       *)
(***************************************************************************)
EXTENDS Integers

\* A callback that is not waiting for the end of a transition.
None == -1

\* Defect: an event of whatever is inside the element is taken for its own.
HearsAll(target, element) == TRUE

\* Whether the handlers of the element see an end event at target, which bubbles to it.
Hears(target, element) == target = element

\* A unit of time for callbacks that wait.
Elapse(wait) == [c \in DOMAIN wait |-> IF wait[c] > 0 THEN wait[c] - 1 ELSE wait[c]]

\* Time passes only when no timer is due.
NothingDue(wait) == \A c \in DOMAIN wait : wait[c] # 0

Waits(wait) == \E c \in DOMAIN wait : wait[c] # None
=============================================================================
