------------------------------ MODULE Generations ------------------------------
(***************************************************************************)
(* What Envoy's hot restart needs of whoever starts the Envoys: generations      *)
(* are numbered from 0 without gap or repetition, each is started once, and       *)
(* none outlives the one who started them.                                        *)
(***************************************************************************)
EXTENDS Naturals

VARIABLES
  next,    \* the generation to be started next
  live,    \* the generations that run
  stopped  \* whoever starts them has finished

vars == <<next, live, stopped>>

Init == next = 0 /\ live = {} /\ stopped = FALSE

Start ==
  /\ ~stopped
  /\ live' = live \union {next} /\ next' = next + 1
  /\ UNCHANGED stopped

\* One of them ends, or several at a time.
End == live' \subseteq live /\ UNCHANGED <<next, stopped>>

Stop == stopped' = TRUE /\ live' = {} /\ UNCHANGED next

Next == Start \/ End \/ Stop

Spec == Init /\ [][Next]_vars
=============================================================================
