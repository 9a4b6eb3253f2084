--------------------------------- MODULE Modal ---------------------------------
(***************************************************************************)
(* A modal dialog, Modal of bootstrap.js, with what it does to the page: the  *)
(* backdrop, the class "modal-open" and the padding of the body.  show() and  *)
(* hide() go on in callbacks that wait for transitions:                       *)
(*   "appear"     of show(), for the backdrop: the element is displayed       *)
(*   "shown"      of show(), for the dialog to slide in                       *)
(*   "hideModal"  of hide(), for the element: it is no longer displayed       *)
(*   "remove"     of hideModal(), for the backdrop: the page is restored      *)
(* The timer of emulateTransitionEnd decides when, except that the browser    *)
(* may report the end of the element's own transition earlier, after 150 ms.  *)
(***************************************************************************)
EXTENDS Transitions

CONSTANT Options  \* of the dialogs: does it fade (and the browser too), has it a backdrop,
                  \* does the keyboard close it

\* What the constants are; the modules that instantiate this one assume it.
Assumptions ==
  Options \subseteq [fade : BOOLEAN, backdrop : {"none", "true", "static"}, keyboard : BOOLEAN]

VARIABLES
  options,    \* this dialog's
  isShown,
  wait,       \* for each callback, the time left, or None
  displayed,  \* the element, with the class "in"
  adjusted,   \* it has a padding of its own, for it or the page overflows
  trapped,    \* the focus handler is bound to the document
  modalOpen,  \* the body's class
  padding,    \* the body's padding, in widths of the scrollbar
  savedPad,   \* originalBodyPad
  backdrops,  \* backdrops in the document
  current,    \* $backdrop is one
  press,      \* where the mouse was pressed
  watching,   \* a mouseup handler waits for the end of a press on the dialog
  ignoring    \* ignoreBackdropClick

pageVars  == <<displayed, adjusted, trapped, modalOpen, padding, savedPad, backdrops, current>>
mouseVars == <<press, watching, ignoring>>
vars == <<options, isShown, wait, pageVars, mouseVars>>

Callbacks == {"appear", "shown", "hideModal", "remove"}

TRANSITION_DURATION          == 2
BACKDROP_TRANSITION_DURATION == 1

Init ==
  /\ options \in Options
  /\ isShown = FALSE /\ wait = [c \in Callbacks |-> None]
  /\ displayed = FALSE /\ adjusted = FALSE /\ trapped = FALSE
  /\ modalOpen = FALSE /\ padding = 0 /\ savedPad = 0
  /\ backdrops = 0 /\ current = FALSE
  /\ press = "none" /\ watching = FALSE /\ ignoring = FALSE

-----------------------------------------------------------------------------
(* show                                                                      *)

HasBackdrop == options.backdrop # "none"

\* What "appear" does; adjustDialog decides for itself.  The callback of a dialog that
\* already slides runs with the one that waits there.
Appears(waiting) ==
  /\ displayed' = TRUE /\ trapped' = TRUE /\ adjusted' \in BOOLEAN
  /\ wait' = [waiting EXCEPT !["shown"] = IF ~options.fade \/ @ # None THEN @
                                                          ELSE TRANSITION_DURATION]

\* A hide() that is going on covers the page until its end; and nobody holds the mouse
\* down while a script shows a dialog.
MayShow == press = "none" /\ wait["hideModal"] = None /\ wait["remove"] = None

\* Defect: a dialog that is shown already is shown once more.
ShowAgain ==
  /\ MayShow
  /\ isShown' = TRUE
  /\ savedPad' = padding /\ padding' = padding
  /\ modalOpen' = TRUE
  /\ IF HasBackdrop THEN backdrops' = backdrops + 1 /\ current' = TRUE
                    ELSE UNCHANGED <<backdrops, current>>
  /\ Appears(wait)
  /\ UNCHANGED <<options, mouseVars>>

\* The page may overflow: then the body gets the width of the scrollbar as padding.
Show ==
  /\ ~isShown /\ MayShow
  /\ isShown' = TRUE
  /\ savedPad' = padding /\ padding' \in {padding, padding + 1}
  /\ modalOpen' = TRUE
  /\ IF HasBackdrop THEN backdrops' = backdrops + 1 /\ current' = TRUE
                    ELSE UNCHANGED <<backdrops, current>>
  /\ IF HasBackdrop /\ options.fade
       THEN /\ wait' = [wait EXCEPT !["appear"] = BACKDROP_TRANSITION_DURATION]
            /\ UNCHANGED <<displayed, adjusted, trapped>>
       ELSE Appears(wait)
  /\ UNCHANGED <<options, mouseVars>>

Appear ==
  /\ wait["appear"] = 0
  /\ Appears([wait EXCEPT !["appear"] = None])
  /\ UNCHANGED <<options, isShown, modalOpen, padding, savedPad, backdrops, current, mouseVars>>

-----------------------------------------------------------------------------
(* hide                                                                      *)

\* Defect: only the class of the body is restored.
RestoredClassOnly ==
  /\ modalOpen' = FALSE /\ adjusted' = FALSE
  /\ UNCHANGED padding

\* The end of a hide(): resetAdjustments, resetScrollbar.
Restored ==
  /\ modalOpen' = FALSE /\ adjusted' = FALSE
  /\ padding' = savedPad

\* Defect: the backdrop is forgotten but stays in the document.
RemovedFromData ==
  /\ current' = FALSE
  /\ Restored
  /\ UNCHANGED backdrops

\* removeBackdrop, then the callback of hideModal.
Removed ==
  /\ backdrops' = IF current THEN backdrops - 1 ELSE backdrops
  /\ current' = FALSE
  /\ Restored

\* hideModal.
Hidden(waiting) ==
  /\ displayed' = FALSE
  /\ IF current /\ options.fade
       THEN /\ wait' = [waiting EXCEPT !["remove"] = BACKDROP_TRANSITION_DURATION]
            /\ UNCHANGED <<adjusted, modalOpen, padding, backdrops, current>>
       ELSE Removed /\ wait' = waiting

\* hide() as a script or a button calls it: it also takes the handlers off.
Hide ==
  /\ isShown
  /\ isShown' = FALSE /\ trapped' = FALSE /\ watching' = FALSE
  /\ IF options.fade
       THEN /\ wait' = [wait EXCEPT !["hideModal"] = TRANSITION_DURATION]
            /\ UNCHANGED <<displayed, adjusted, modalOpen, padding, backdrops, current>>
       ELSE Hidden(wait)
  /\ UNCHANGED <<options, savedPad, ignoring>>

Dismiss == Hide /\ UNCHANGED press

\* The Escape key, once the focus is in the dialog.
Escape == options.keyboard /\ displayed /\ Dismiss

\* The element's transition ends: by the timer, or by the browser if it is displayed.
HideModal ==
  /\ wait["hideModal"] = 0 \/ (wait["hideModal"] = 1 /\ displayed)
  /\ Hidden([wait EXCEPT !["hideModal"] = None])
  /\ UNCHANGED <<options, isShown, trapped, savedPad, mouseVars>>

Remove ==
  /\ wait["remove"] = 0
  /\ wait' = [wait EXCEPT !["remove"] = None]
  /\ Removed
  /\ UNCHANGED <<options, isShown, displayed, trapped, savedPad, mouseVars>>

\* Which callbacks of element and dialog an end event at target runs.
Heard(target) ==
  {c \in {"shown", "hideModal"} :
     wait[c] # None /\ Hears(target, IF c = "shown" THEN "dialog" ELSE "element")}

\* The end event of something inside the dialog, which bubbles to its elements: focus and
\* the event "shown" change nothing here, hideModal does.
EndsInside(target) ==
  LET waiting == [c \in Callbacks |-> IF c \in Heard(target) THEN None ELSE wait[c]]
  IN  IF "hideModal" \in Heard(target)
        THEN Hidden(waiting) /\ UNCHANGED <<options, isShown, trapped, savedPad, mouseVars>>
        ELSE wait' = waiting /\ UNCHANGED <<options, isShown, pageVars, mouseVars>>

\* The dialog has slid in.
Shown == wait["shown"] = 0 /\ EndsInside("dialog")

-----------------------------------------------------------------------------
(* The window and the mouse                                                  *)

\* handleUpdate, while the handler of resize() is bound.
Resize ==
  /\ isShown
  /\ adjusted' \in BOOLEAN
  /\ UNCHANGED <<options, isShown, wait, displayed, trapped, modalOpen, padding, savedPad,
                 backdrops, current, mouseVars>>

\* On the dialog a press registers the mouseup handler, outside it does not.
Press(where) ==
  /\ isShown /\ displayed /\ press = "none"
  /\ press' = where
  /\ watching' = (watching \/ where = "dialog")
  /\ UNCHANGED <<options, isShown, wait, pageVars, ignoring>>

\* The mouse is released outside of the window, or a hidden dialog no longer listens.
ReleaseUnheard ==
  /\ press # "none" /\ press' = "none"
  /\ UNCHANGED <<options, isShown, wait, pageVars, watching, ignoring>>

\* Defect: where the mouse was released is not looked at.
IgnoresNever(where) == ignoring

\* ignoreBackdropClick when the click comes: the mouseup came before it.
Ignores(where) == ignoring \/ (watching /\ where = "outside")

\* Released while shown.  A click follows: where both happened, or, if they were at
\* different places, outside in some browsers and not at all in others.
Release(where) ==
  /\ isShown /\ displayed /\ press # "none"
  /\ press' = "none"
  /\ \E click \in IF press = where THEN {where} ELSE {"outside", "none"} :
       IF click = "outside" /\ ~Ignores(where) /\ options.backdrop = "true"
         THEN Hide
         ELSE /\ ignoring' = (Ignores(where) /\ (click = "none" \/ ~HasBackdrop))
              /\ watching' = FALSE
              /\ UNCHANGED <<options, isShown, wait, pageVars>>

Mouse == ReleaseUnheard \/ \E where \in {"dialog", "outside"} : Press(where) \/ Release(where)

Tick ==
  /\ NothingDue(wait) /\ Waits(wait)
  /\ wait' = Elapse(wait)
  /\ UNCHANGED <<options, isShown, pageVars, mouseVars>>

Callback == Appear \/ Shown \/ HideModal \/ Remove

Next == Show \/ Dismiss \/ Escape \/ Callback \/ Resize \/ Mouse \/ Tick

Spec == Init /\ [][Next]_vars

\* Timers fire.
Fairness == WF_vars(Callback) /\ WF_vars(Tick)

FairSpec == Spec /\ Fairness

-----------------------------------------------------------------------------
(* Properties *)

TypeOK ==
  /\ options \in Options /\ isShown \in BOOLEAN
  /\ wait \in [Callbacks -> None .. TRANSITION_DURATION]
  /\ displayed \in BOOLEAN /\ adjusted \in BOOLEAN /\ trapped \in BOOLEAN
  /\ modalOpen \in BOOLEAN /\ padding \in Nat /\ savedPad \in Nat
  /\ backdrops \in Int /\ current \in BOOLEAN
  /\ press \in {"none", "dialog", "outside"}
  /\ watching \in BOOLEAN /\ ignoring \in BOOLEAN

Phase ==
  IF isShown THEN IF wait["appear"] # None \/ wait["shown"] # None THEN "opening" ELSE "open"
             ELSE IF wait["hideModal"] # None \/ wait["remove"] # None THEN "closing" ELSE "closed"

\* A dialog that has been closed, even one that was hidden while it was still being shown,
\* leaves the page as it was: no backdrop over it, no padding, scrolling.
PageRestored ==
  Phase = "closed" => /\ backdrops = 0 /\ ~displayed /\ ~adjusted
                      /\ ~modalOpen /\ padding = 0

\* A dialog that says it is open can be seen, holds the focus and has one backdrop, if any.
OpenIsWhole ==
  Phase = "open" => /\ displayed /\ trapped /\ modalOpen
                    /\ backdrops = IF HasBackdrop THEN 1 ELSE 0

\* A press that begins on the dialog never closes it, wherever the mouse is let go.
DragKeeps == [][press = "dialog" /\ press' = "none" => isShown' = isShown]_vars

\* No transition of anything else cuts that of the dialog or its element short.
NotCutShort ==
  [][/\ wait["shown"] # None /\ wait'["shown"] = None => wait["shown"] = 0
     /\ wait["hideModal"] # None /\ wait'["hideModal"] = None => wait["hideModal"] < 2]_vars
=============================================================================
