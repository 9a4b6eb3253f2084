-------------------------- MODULE HotRestarterProof --------------------------
(***************************************************************************)
(* Proofs about HotRestarter, for any set of pids, any number of forks and   *)
(* any TERM_WAIT_SECONDS.                                                    *)
(***************************************************************************)
EXTENDS HotRestarter, TLAPS

-----------------------------------------------------------------------------
(* Types.                                                                    *)

LEMMA TypesAtStart == Init => TypeOK
<1>1. Init => badExit \in BOOLEAN
  BY DEF Init
<1>2. Init => DataTypeOK
  BY BoundsAssumption DEF Init, DataTypeOK, ChildStates
<1> QED
  BY <1>1, <1>2 DEF TypeOK

LEMMA BadExitTypeKept ==
  ASSUME badExit \in BOOLEAN, [Next]_vars PROVE badExit' \in BOOLEAN
<1>1. CASE \E p \in Pids : Exit(p)
  BY <1>1 DEF Exit, Ends
<1>2. CASE Sigusr1Handler
  BY <1>2 DEF Sigusr1Handler
<1>3. CASE UNCHANGED badExit
  BY <1>3
<1> QED
  BY <1>1, <1>2, <1>3 DEF Next, vars, MainStep, SetEnviron, ReadEpoch, StoreEpoch,
     ForkFirst, AppendFirst, Fork, ForkFails, SighupHandler, SigchldHandler,
     SigtermHandler, ForceTerm, TermStep, TermPoll, SleepOver, TermGivesUp,
     SleepInterrupted, Exec, Up, Send, Killed, childVars

LEMMA DataTypesKept == ASSUME DataTypeOK, [Next]_vars PROVE DataTypeOK'
<1> USE BoundsAssumption DEF DataTypeOK
<1>1. CASE SetEnviron \/ ReadEpoch \/ StoreEpoch \/ AppendFirst
  BY <1>1 DEF SetEnviron, ReadEpoch, StoreEpoch, AppendFirst, epochVars, termVars, childVars
<1>2. CASE ForkFirst
  BY <1>2 DEF ForkFirst, Fork, FreePids, ChildStates, epochVars, termVars
<1>3. CASE ForkFails \/ Killed
  BY <1>3 DEF ForkFails, Killed, epochVars, termVars, childVars
<1>4. CASE SighupHandler
  BY <1>4 DEF SighupHandler, Handled, Fork, FreePids, ChildStates, termVars
<1>5. CASE Sigusr1Handler
  BY <1>5 DEF Sigusr1Handler, ChildStates, Signals, epochVars, termVars
<1>6. CASE SigchldHandler
  <2>1. /\ child' \in [Pids -> ChildStates] /\ pidList' \subseteq Pids
        /\ status' \in {"running", "ok", "error"} /\ pending' \subseteq Signals
    BY <1>6 DEF SigchldHandler, Handled, ExitStatus, Collected, ForceKill, Reap, ChildStates
  <2> QED
    BY <1>6, <2>1 DEF SigchldHandler, epochVars, termVars
<1>7. CASE SigtermHandler
  BY <1>7 DEF SigtermHandler, Handled, Terminated, ChildStates, epochVars
<1>8. CASE TermPoll
  BY <1>8 DEF TermPoll, Reap, ChildStates, epochVars
<1>9. CASE SleepOver \/ SleepInterrupted
  <2>1. CASE SleepOver
    BY <2>1 DEF SleepOver, epochVars, childVars
  <2>2. CASE SleepInterrupted
    BY <2>2 DEF SleepInterrupted, Signals, epochVars, childVars
  <2> QED BY <1>9, <2>1, <2>2
<1>10. CASE TermGivesUp \/ ForceTerm
  BY <1>10 DEF TermGivesUp, ForceTerm, Handled, ForceKill, ChildStates, epochVars, termVars
<1>11. CASE \E p \in Pids : Exec(p) \/ Up(p)
  BY <1>11 DEF Exec, Up, ChildStates, epochVars, termVars
<1>12. ASSUME NEW p \in Pids, NEW how \in {"exited", "failed"}, Ends(p, how) PROVE DataTypeOK'
  BY <1>12 DEF Ends, ChildStates, Signals, epochVars, termVars
<1>13. CASE \E p \in Pids : Exit(p)
  BY <1>12, <1>13 DEF Exit
<1>14. CASE \E sig \in {"HUP", "USR1", "TERM"} : Send(sig)
  BY <1>14 DEF Send, Signals, epochVars, termVars, childVars
<1>15. CASE UNCHANGED vars
  BY <1>15 DEF vars, epochVars, termVars, childVars
<1> QED
  BY <1>1, <1>2, <1>3, <1>4, <1>5, <1>6, <1>7, <1>8, <1>9, <1>10, <1>11, <1>13, <1>14,
     <1>15 DEF Next, MainStep, TermStep

LEMMA TypesKept == ASSUME TypeOK, [Next]_vars PROVE TypeOK'
  BY DataTypesKept, BadExitTypeKept DEF TypeOK

\* The variables keep their types through every signal, fork and exit.
THEOREM TypeCorrect == Spec => []TypeOK
  BY TypesAtStart, TypesKept, PTL DEF Spec

-----------------------------------------------------------------------------
(* The list of children.                                                     *)

\* pid_list names children that have not been waited for, and main's own child is
\* one of them before it is appended.
Listed ==
  Running =>
    /\ \A p \in pidList : child[p] # "none"
    /\ main = "append" => child[mainChild] # "none" /\ mainChild \notin pidList

LEMMA ListedKept == ASSUME TypeOK, Listed, [Next]_vars PROVE Listed'
<1> USE DEF TypeOK, DataTypeOK, Listed, Running
<1>1. CASE SetEnviron \/ ReadEpoch \/ StoreEpoch \/ AppendFirst
  BY <1>1 DEF SetEnviron, ReadEpoch, StoreEpoch, AppendFirst, InMain, childVars
<1>2. CASE ForkFirst
  BY <1>2 DEF ForkFirst, Fork, FreePids
<1>3. CASE ForkFails \/ Killed
  BY <1>3 DEF ForkFails, Killed
<1>4. CASE SighupHandler
  BY <1>4 DEF SighupHandler, Fork, FreePids
<1>5. CASE Sigusr1Handler
  BY <1>5 DEF Sigusr1Handler
<1>6. CASE SigchldHandler
  BY <1>6 DEF SigchldHandler, ExitStatus, Collected, Reap, Zombies, Handles, InMain
<1>7. CASE SigtermHandler
  BY <1>7 DEF SigtermHandler, Terminated
<1>8. CASE TermPoll
  BY <1>8 DEF TermPoll, Reap, Zombies
<1>9. CASE SleepOver \/ SleepInterrupted
  BY <1>9 DEF SleepOver, SleepInterrupted, childVars
<1>10. CASE TermGivesUp \/ ForceTerm
  BY <1>10 DEF TermGivesUp, ForceTerm
<1>11. CASE \E p \in Pids : Exec(p) \/ Up(p)
  BY <1>11 DEF Exec, Up
<1>12. CASE \E p \in Pids : Exit(p)
  BY <1>12 DEF Exit, Ends
<1>13. CASE \E sig \in {"HUP", "USR1", "TERM"} : Send(sig)
  BY <1>13 DEF Send, childVars
<1>14. CASE UNCHANGED vars
  BY <1>14 DEF vars, childVars
<1> QED
  BY <1>1, <1>2, <1>3, <1>4, <1>5, <1>6, <1>7, <1>8, <1>9, <1>10, <1>11, <1>12, <1>13,
     <1>14 DEF Next, MainStep, TermStep

\* Whatever handler interrupts main's fork_and_exec wherever, the restarter signals
\* and waits for its own unreaped children only.
THEOREM NoStrangers == Spec => []ListedAreChildren
<1>1. Init => Listed
  BY DEF Init, Listed
<1>2. TypeOK /\ Listed /\ [Next]_vars => Listed'
  BY ListedKept
<1>3. Listed => ListedAreChildren
  BY DEF Listed, ListedAreChildren
<1> QED
  BY <1>1, <1>2, <1>3, TypeCorrect, PTL DEF Spec

-----------------------------------------------------------------------------
(* A quiet start.                                                            *)

\* Each call of fork_and_exec runs as if alone: the epoch is the number of forks,
\* and every child is listed.
Tidy ==
  /\ main # "loop" => handler = "none"
  /\ main \in {"environ", "read", "store"} => restartEpoch = 0
  /\ main \in {"read", "store", "fork"} => environ = 0
  /\ main = "store" => oldEpoch = 0
  /\ main = "fork" => restartEpoch = 1
  /\ main \in {"append", "loop"} => restartEpoch = forks
  /\ main \notin {"append", "loop"} => forks = 0
  /\ main = "append" => forks = 1
  /\ Running => \A p \in Pids : child[p] # "none" =>
                  p \in pidList \/ (main = "append" /\ p = mainChild)
  /\ status \in {"ok", "error"} => Alive = {}
  /\ status = "ok" /\ handler # "none" => Zombies = {}

LEMMA TidyKept == ASSUME QuietStart, TypeOK, Tidy, [Next]_vars PROVE Tidy'
<1> USE DEF TypeOK, DataTypeOK, Tidy, Running, InMain, Alive, Zombies
<1>1. CASE SetEnviron \/ ReadEpoch \/ StoreEpoch \/ AppendFirst
  <2>1. CASE SetEnviron \/ ReadEpoch
    BY <2>1 DEF SetEnviron, ReadEpoch, termVars, childVars
  <2>2. CASE StoreEpoch
    BY <2>2 DEF StoreEpoch, termVars, childVars
  <2>3. CASE AppendFirst
    BY <2>3 DEF AppendFirst, epochVars, termVars, childVars
  <2> QED BY <1>1, <2>1, <2>2, <2>3
<1>2. CASE ForkFirst
  BY <1>2 DEF ForkFirst, Fork, FreePids, epochVars, termVars
<1>3. CASE ForkFails \/ Killed
  BY <1>3 DEF ForkFails, Killed, epochVars, termVars, childVars
<1>4. CASE SighupHandler
  BY <1>4 DEF SighupHandler, Handles, Fork, FreePids, termVars
<1>5. CASE Sigusr1Handler
  BY <1>5 DEF Sigusr1Handler, Handles, epochVars, termVars
<1>6. CASE SigchldHandler
  BY <1>6 DEF SigchldHandler, ExitStatus, Collected, Handles, Reap, ForceKill, epochVars, termVars
<1>7. CASE SigtermHandler
  BY <1>7 DEF SigtermHandler, Handles, Terminated, epochVars
<1>8. CASE TermPoll
  BY <1>8 DEF TermPoll, Reap, epochVars
<1>9. CASE SleepOver \/ SleepInterrupted
  BY <1>9 DEF SleepOver, SleepInterrupted, epochVars, childVars
<1>10. CASE TermGivesUp \/ ForceTerm
  BY <1>10 DEF TermGivesUp, ForceTerm, Handles, ForceKill, epochVars, termVars
<1>11. CASE \E p \in Pids : Exec(p) \/ Up(p)
  BY <1>11 DEF Exec, Up, epochVars, termVars
<1>12. CASE \E p \in Pids : Exit(p)
  BY <1>12 DEF Exit, Ends, epochVars, termVars
<1>13. CASE \E sig \in {"HUP", "USR1", "TERM"} : Send(sig)
  BY <1>13 DEF Send, epochVars, termVars, childVars
<1>14. CASE UNCHANGED vars
  BY <1>14 DEF vars, epochVars, termVars, childVars
<1> QED
  BY <1>1, <1>2, <1>3, <1>4, <1>5, <1>6, <1>7, <1>8, <1>9, <1>10, <1>11, <1>12, <1>13,
     <1>14 DEF Next, MainStep, TermStep

LEMMA TidyAlways == ASSUME QuietStart PROVE Spec => []Tidy
<1>1. Init => Tidy
  BY DEF Init, Tidy, Running, Alive, Zombies
<1>2. TypeOK /\ Tidy /\ [Next]_vars => Tidy'
  BY TidyKept, QuietStart
<1> QED
  BY <1>1, <1>2, TypeCorrect, PTL DEF Spec

\* No signal during the start: when the restarter exits, on SIGTERM or because a
\* child failed, none of its children lives on.
THEOREM NoOrphans == ASSUME QuietStart PROVE Spec => []NothingLeft
<1>1. Tidy => NothingLeft
  BY DEF Tidy, NothingLeft
<1> QED
  BY <1>1, TidyAlways, PTL

\* No signal during the start: after SIGTERM, status 0 means that every child has
\* ended and been waited for.
THEOREM CleanTerm == ASSUME QuietStart PROVE Spec => []CleanTermReaps
<1>1. Tidy => CleanTermReaps
  BY DEF Tidy, CleanTermReaps
<1> QED
  BY <1>1, TidyAlways, PTL

-----------------------------------------------------------------------------
(* The generations of Envoy.                                                 *)

LEMMA ForkStarts ==
  ASSUME TypeOK, NEW p \in FreePids, NEW as \in {"first", "forked"},
         Fork(p, as, forks), Running, status' = status
  PROVE  Envoys!Start
<1> USE DEF TypeOK, DataTypeOK, Fork, FreePids
<1>1. Alive' = Alive \union {p} /\ p \notin Alive
  BY DEF Alive
<1>2. {epochOf'[q] : q \in Alive'} = {epochOf[q] : q \in Alive} \union {forks}
  <2>1. \A q \in Alive : epochOf'[q] = epochOf[q]
    BY <1>1 DEF Alive
  <2>2. epochOf'[p] = forks
    OBVIOUS
  <2> HIDE DEF TypeOK, DataTypeOK, Fork
  <2> QED BY <1>1, <2>1, <2>2
<1> QED BY <1>2 DEF Envoys!Start, Running

\* Whatever else happens to the children only ends some.
LEMMA OthersEnd ==
  ASSUME TypeOK, Running, UNCHANGED <<epochOf, forks>>, Alive' \subseteq Alive,
         status' \in {"ok", "error"} => Alive' = {}
  PROVE  Envoys!Next
<1>1. {epochOf'[p] : p \in Alive'} \subseteq {epochOf[p] : p \in Alive}
  OBVIOUS
<1>2. CASE status' \in {"ok", "error"}
  BY <1>2 DEF Envoys!Next, Envoys!Stop
<1>3. CASE status' \notin {"ok", "error"}
  BY <1>1, <1>3 DEF Envoys!Next, Envoys!End, Running
<1> QED BY <1>2, <1>3

LEMMA EnvoySteps ==
  ASSUME TypeOK, Tidy, Tidy', [Next]_vars PROVE [Envoys!Next]_(Envoys!vars)
<1> USE DEF TypeOK, DataTypeOK
<1>1. status' \in {"ok", "error"} => Alive' = {}
  BY DEF Tidy
<1>2. CASE UNCHANGED <<forks, child, epochOf, status>>
  BY <1>2 DEF Envoys!vars, Alive
<1>3. CASE ForkFirst
  <2>1. Running /\ status' = status /\ environ = forks
    BY <1>3 DEF ForkFirst, InMain, Tidy
  <2> QED BY <1>3, <2>1, ForkStarts DEF ForkFirst, Envoys!Next
<1>4. CASE SighupHandler
  <2>1. Running /\ status' = status /\ restartEpoch = forks
    BY <1>4 DEF SighupHandler, Handles, InMain, Tidy
  <2> QED BY <1>4, <2>1, ForkStarts DEF SighupHandler, Envoys!Next
<1>5. CASE MainStep \/ ForkFails \/ Killed
  BY <1>1, <1>2, <1>3, <1>5, OthersEnd DEF MainStep, SetEnviron, ReadEpoch, StoreEpoch,
     AppendFirst, ForkFails, Killed, childVars, InMain, Alive
<1>6. CASE Sigusr1Handler
  BY <1>1, <1>6, OthersEnd DEF Sigusr1Handler, Handles, InMain, Alive
<1>7. CASE SigchldHandler
  BY <1>1, <1>7, OthersEnd DEF SigchldHandler, Handles, InMain, Reap, ForceKill, Alive, Zombies
<1>8. CASE SigtermHandler
  BY <1>1, <1>8, OthersEnd DEF SigtermHandler, Handles, InMain, Terminated, Alive
<1>9. CASE TermPoll
  BY <1>1, <1>9, OthersEnd DEF TermPoll, Reap, Alive, Zombies
<1>10. CASE TermGivesUp \/ ForceTerm
  BY <1>1, <1>10, OthersEnd DEF TermGivesUp, ForceTerm, Handles, InMain, ForceKill, Alive
<1>11. CASE SleepOver \/ SleepInterrupted
  BY <1>2, <1>11 DEF SleepOver, SleepInterrupted, childVars
<1>12. CASE \E p \in Pids : Exec(p) \/ Up(p)
  BY <1>1, <1>12, OthersEnd DEF Exec, Up, Alive
<1>13. CASE \E p \in Pids : Exit(p)
  BY <1>1, <1>13, OthersEnd DEF Exit, Ends, Alive
<1>14. CASE \E sig \in {"HUP", "USR1", "TERM"} : Send(sig)
  BY <1>2, <1>14 DEF Send, childVars
<1>15. CASE UNCHANGED vars
  BY <1>2, <1>15 DEF vars, childVars
<1> QED
  BY <1>4, <1>5, <1>6, <1>7, <1>8, <1>9, <1>10, <1>11, <1>12, <1>13, <1>14, <1>15
  DEF Next, TermStep

\* No signal during the start: the restarter numbers and starts its Envoys as Generations
\* demands, and takes them with it when it exits.
THEOREM Implementation == ASSUME QuietStart PROVE Spec => Generates
<1>1. Init => Envoys!Init
  BY DEF Init, Envoys!Init, Alive
<1>2. TypeOK /\ Tidy /\ Tidy' /\ [Next]_vars => [Envoys!Next]_(Envoys!vars)
  BY EnvoySteps
<1> QED
  BY <1>1, <1>2, TypeCorrect, TidyAlways, QuietStart, PTL DEF Spec, Generates, Envoys!Spec

-----------------------------------------------------------------------------
(* Failures.                                                                 *)

\* A failure that has not been dealt with is still there for waitpid to find.
Evidence == Running /\ handler = "none" /\ badExit => \E p \in Pids : child[p] = "failed"

LEMMA EvidenceKept ==
  ASSUME QuietStart, TypeOK, Tidy, Evidence, [Next]_vars
  PROVE  Evidence'
<1> USE DEF TypeOK, DataTypeOK, Evidence, Running, InMain
<1>1. CASE SetEnviron \/ ReadEpoch \/ StoreEpoch \/ AppendFirst
  BY <1>1 DEF SetEnviron, ReadEpoch, StoreEpoch, AppendFirst, termVars, childVars
<1>2. CASE ForkFirst
  BY <1>2 DEF ForkFirst, Fork, FreePids, termVars
<1>3. CASE ForkFails \/ Killed
  BY <1>3 DEF ForkFails, Killed
<1>4. CASE SighupHandler
  BY <1>4 DEF SighupHandler, Fork, FreePids, termVars
<1>5. CASE Sigusr1Handler
  <2> DEFINE killed == {p \in pidList : child[p] = "boot"}
  <2>1. /\ Running /\ Running' /\ handler = "none" /\ status' = status
        /\ child' = [p \in Pids |-> IF p \in killed THEN "failed" ELSE child[p]]
        /\ badExit' = (badExit \/ killed # {})
    BY <1>5 DEF Sigusr1Handler, Handles
  <2>2. CASE killed = {}
    <3>1. badExit' = badExit
      BY <2>1, <2>2
    <3>2. (\E p \in Pids : child[p] = "failed") => \E p \in Pids : child'[p] = "failed"
      BY <2>1
    <3> QED BY <2>1, <3>1, <3>2
  <2>3. CASE killed # {}
    <3>1. \E p \in Pids : child'[p] = "failed"
      BY <2>1, <2>3
    <3> QED BY <2>1, <3>1
  <2> QED BY <2>2, <2>3
<1>6. CASE SigchldHandler
  <2>1. Running /\ handler = "none" /\ main = "loop" /\ badExit' = badExit
    BY <1>6 DEF SigchldHandler, Handles
  <2>2. CASE \E p \in pidList \intersect Zombies : child[p] = "failed"
    <3>1. status' = "error"
      BY <1>6, <2>2 DEF SigchldHandler, ExitStatus, Collected
    <3> QED BY <3>1
  <2>3. CASE ~\E p \in pidList \intersect Zombies : child[p] = "failed"
    <3>1. ~\E p \in Pids : child[p] = "failed"
      BY <2>1, <2>3 DEF Tidy, Zombies
    <3>2. ~badExit /\ ~badExit'
      BY <2>1, <3>1
    <3> QED BY <3>2
  <2> QED BY <2>2, <2>3
<1>7. CASE SigtermHandler \/ TermStep \/ SleepInterrupted
  BY <1>7 DEF SigtermHandler, TermStep, TermPoll, SleepOver, TermGivesUp,
              SleepInterrupted, termVars
<1>8. CASE ForceTerm
  BY <1>8 DEF ForceTerm
<1>9. CASE \E p \in Pids : Exec(p) \/ Up(p)
  BY <1>9 DEF Exec, Up, termVars
<1>10. CASE \E p \in Pids : Exit(p)
  BY <1>10 DEF Exit, Ends, termVars
<1>11. CASE \E sig \in {"HUP", "USR1", "TERM"} : Send(sig)
  BY <1>11 DEF Send, termVars, childVars
<1>12. CASE UNCHANGED vars
  BY <1>12 DEF vars, termVars, childVars
<1> QED
  BY <1>1, <1>2, <1>3, <1>4, <1>5, <1>6, <1>7, <1>8, <1>9, <1>10, <1>11, <1>12
  DEF Next, MainStep

\* sigchld_handler ends the restarter with 0 only if it has found every failure before.
ChldSeesFailures == SigchldHandler /\ status' = "ok" => ~badExit

LEMMA ChldLooks == ASSUME QuietStart, TypeOK, Tidy, Evidence PROVE ChldSeesFailures
<1> SUFFICES ASSUME SigchldHandler, status' = "ok" PROVE ~badExit
  BY DEF ChldSeesFailures
<1>1. Running /\ handler = "none" /\ main = "loop"
  BY DEF SigchldHandler, Handles, InMain
<1>2. ~\E p \in pidList \intersect Zombies : child[p] = "failed"
  BY DEF SigchldHandler, ExitStatus, Collected
<1>3. ~\E p \in Pids : child[p] = "failed"
  BY <1>1, <1>2 DEF Tidy, Zombies
<1> QED BY <1>1, <1>3 DEF Evidence, TypeOK

\* No signal during the start: in either variant a SIGCHLD ends the restarter with status 0
\* only if no child has ever failed, however many were merged into it.
THEOREM ChldReportsFailures ==
  ASSUME QuietStart PROVE Spec => [][ChldSeesFailures]_vars
<1>1. Init => Evidence
  BY DEF Init, Evidence
<1>2. TypeOK /\ Tidy /\ Evidence /\ [Next]_vars => Evidence'
  BY EvidenceKept, QuietStart
<1>3. TypeOK /\ Tidy /\ Evidence => [ChldSeesFailures]_vars
  BY ChldLooks, QuietStart
<1> QED
  BY <1>1, <1>2, <1>3, TypeCorrect, TidyAlways, PTL DEF Spec

\* No signal during the start: without SIGTERM, status 0 means that no child has ever
\* failed.  (cadfael's handler of SIGTERM exits with 0 whatever has failed.)
THEOREM FailuresReported ==
  ASSUME QuietStart, GracefulTerm PROVE Spec => []FailureReported
<1>1. Init => FailureReported
  BY DEF Init, FailureReported
<1>2. ASSUME FailureReported, [ChldSeesFailures]_vars, [Next]_vars PROVE FailureReported'
  <2> USE <1>2 DEF FailureReported
  <2>1. CASE UNCHANGED <<status, handler, badExit>>
    BY <2>1
  <2>2. CASE status = "running" /\ status' # "ok"
    BY <2>2
  <2>3. CASE SigchldHandler
    BY <2>1, <2>3 DEF SigchldHandler, ChldSeesFailures, vars, termVars, childVars
  <2>4. CASE TermPoll
    BY <2>4 DEF TermPoll, Running
  <2>5. CASE ForceTerm
    BY <2>5, GracefulTerm DEF ForceTerm
  <2> QED
    BY <2>1, <2>2, <2>3, <2>4, <2>5 DEF Next, MainStep, SetEnviron, ReadEpoch, StoreEpoch,
       ForkFirst, AppendFirst, ForkFails, SighupHandler, Sigusr1Handler, SigtermHandler,
       TermStep, SleepOver, TermGivesUp, SleepInterrupted, Exec, Up, Exit, Ends, Send, Killed,
       Handles, InMain, Running, vars, termVars, childVars
<1> QED
  BY <1>1, <1>2, ChldReportsFailures, QuietStart, PTL DEF Spec

-----------------------------------------------------------------------------
(* The wait of term_all_children.                                            *)

\* Each second is one of the retries.
WaitCounted == waited <= retries /\ (handler = "sleep" => waited < retries)

\* Whenever signals arrive and whatever the children do, SIGTERM takes no longer than
\* TERM_WAIT_SECONDS.
THEOREM TermInTime == Spec => []TermBounded
<1>1. Init => WaitCounted
  BY DEF Init, WaitCounted
<1>2. ASSUME TypeOK, WaitCounted, [Next]_vars PROVE WaitCounted'
  <2> USE <1>2 DEF TypeOK, DataTypeOK, WaitCounted
  <2>1. CASE UNCHANGED termVars
    BY <2>1 DEF termVars
  <2>2. CASE SigtermHandler
    BY <2>2 DEF SigtermHandler
  <2>3. CASE TermPoll
    BY <2>3 DEF TermPoll
  <2>4. CASE SleepOver
    BY <2>4 DEF SleepOver
  <2>5. CASE SleepInterrupted
    BY <2>5 DEF SleepInterrupted
  <2> QED
    BY <2>1, <2>2, <2>3, <2>4, <2>5 DEF Next, MainStep, SetEnviron, ReadEpoch, StoreEpoch,
       ForkFirst, AppendFirst, ForkFails, SighupHandler, Sigusr1Handler, SigchldHandler,
       ForceTerm, TermStep, TermGivesUp, Exec, Up, Exit, Ends, Send, Killed, vars
<1>3. TypeOK /\ WaitCounted => TermBounded
  BY BoundsAssumption DEF TypeOK, DataTypeOK, WaitCounted, TermBounded
<1> QED
  BY <1>1, <1>2, <1>3, TypeCorrect, PTL DEF Spec
=============================================================================
