------------------------------- MODULE MCDialog -------------------------------
\* An instance of Dialog for TLC: three kinds of dialogs around two panels.
EXTENDS Dialog

Kinds == {[fade |-> TRUE, backdrop |-> "true", keyboard |-> TRUE],
          [fade |-> TRUE, backdrop |-> "none", keyboard |-> FALSE],
          [fade |-> FALSE, backdrop |-> "static", keyboard |-> TRUE]}

ShowVetoes == {"show"}

Panel1 == INSTANCE Disclosure WITH phase <- Body!Phase(1), Interruptible <- FALSE
Panel2 == INSTANCE Disclosure WITH phase <- Body!Phase(2), Interruptible <- FALSE

\* Each panel implements Disclosure: it is not turned round in a motion until one is opened,
\* or an instance made, while a panel moves that has lost its instance (Accordion), and
\* whatever was clicked when, it comes to rest, in sight or not.
PanelsDisclose ==
  /\ Panel1!Init /\ Panel2!Init
  /\ []["unasked" \in rushed' \/ Panel1!Next]_(Body!Phase(1))
  /\ []["unasked" \in rushed' \/ Panel2!Next]_(Body!Phase(2))
  /\ Panel1!Liveness /\ Panel2!Liveness
=============================================================================
