-------------------------------- MODULE Rotation --------------------------------
(***************************************************************************)
(* What somebody who keeps a renewed certificate promises its readers.  A       *)
(* renewal takes effect whole or not at all; what is held is never taken away   *)
(* and never older than it was; and a reader is given, once, what is held at     *)
(* that moment, which is not nothing.                                            *)
(***************************************************************************)
EXTENDS Naturals

CONSTANT Readers

VARIABLES
  newest,  \* certificates issued so far; the certificates are their numbers
  held,    \* the one in force, 0 before the first
  given    \* what each reader was given, 0 before that

vars == <<newest, held, given>>

Init == newest = 0 /\ held = 0 /\ given = [r \in Readers |-> 0]

Renew ==
  /\ newest' = newest + 1
  /\ held' \in {held, newest'}
  /\ UNCHANGED given

Give(r) ==
  /\ held # 0 /\ given[r] = 0
  /\ given' = [given EXCEPT ![r] = held]
  /\ UNCHANGED <<newest, held>>

Next == Renew \/ \E r \in Readers : Give(r)

Spec == Init /\ [][Next]_vars
=============================================================================
