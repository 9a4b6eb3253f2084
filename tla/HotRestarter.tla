---------------------------- MODULE HotRestarter ----------------------------
(***************************************************************************)
(* hot-restarter.py of spiffe-envoy-sidecar, which spiffe-helper starts and  *)
(* signals, and its older variant in cadfael/remote (GracefulTerm = FALSE).  *)
(* Each Envoy is a child with a RESTART_EPOCH.                               *)
(*                                                                         *)
(* CPython 2.7 runs a signal handler between two bytecodes of the main       *)
(* thread and never inside another handler; a signal that arrives meanwhile  *)
(* is remembered once.  So a handler is one step, except that of SIGTERM,    *)
(* which sleeps; but main's own call of fork_and_exec can be interrupted     *)
(* anywhere, and is a step per statement.                                    *)
(***************************************************************************)
EXTENDS Integers, FiniteSets

CONSTANTS Pids,          \* pids the children can have
          NoPid,
          TermWait,      \* TERM_WAIT_SECONDS
          MaxForks,      \* bound: number of children started in one behaviour
          GracefulTerm,  \* TRUE: spiffe-envoy-sidecar; FALSE: cadfael
          QuietStart,    \* TRUE: no signal is handled before main is in its loop
          Faults         \* what may fail besides the children

ASSUME PidsAssumption   == IsFiniteSet(Pids) /\ NoPid \notin Pids
ASSUME BoundsAssumption == TermWait \in Nat \ {0} /\ MaxForks \in Nat \ {0}
ASSUME ModeAssumption   == /\ GracefulTerm \in BOOLEAN /\ QuietStart \in BOOLEAN
                           /\ Faults \subseteq {"fork", "kill"}

VARIABLES
  main,         \* next statement of main's fork_and_exec, or "loop"
  handler,      \* where sigterm_handler stands, "none" outside it
  status,       \* "running", or how the restarter ended
  pending,      \* signals that have arrived and not been handled
  environ,      \* os.environ['RESTART_EPOCH']
  restartEpoch, \* restart_epoch
  oldEpoch,     \* the value main read for restart_epoch += 1
  pidList,      \* pid_list
  mainChild,    \* child_pid in main's fork_and_exec
  retries,      \* retries in term_all_children
  waited,       \* seconds since SIGTERM was sent to the children
  child,        \* state of each pid
  epochOf,      \* RESTART_EPOCH each child was forked with
  forks,        \* children forked so far
  badExit       \* history: a child ended with a code other than 0 or by a signal

epochVars  == <<environ, restartEpoch, oldEpoch>>
termVars   == <<handler, retries, waited>>
childVars  == <<child, epochOf, forks, badExit>>
vars == <<main, status, pending, pidList, mainChild, epochVars, termVars, childVars>>

\* A child still runs the restarter's code ("first" if main forked it, "forked" if
\* the handler of SIGHUP did), runs its program without signal handlers of its own
\* ("boot") or with them ("up"), or has ended and awaits waitpid.
ChildStates == {"none", "first", "forked", "boot", "up", "exited", "failed"}

Signals  == {"HUP", "USR1", "TERM", "CHLD"}
Zombies  == {p \in Pids : child[p] \in {"exited", "failed"}}
Alive    == {p \in Pids : child[p] \in {"first", "forked", "boot", "up"}}
FreePids == {p \in Pids : child[p] = "none"}

Running == status = "running"

-----------------------------------------------------------------------------
\* Just after main has installed the four handlers.
Init ==
  /\ main = "environ" /\ handler = "none" /\ status = "running" /\ pending = {}
  /\ environ = 0 /\ restartEpoch = 0 /\ oldEpoch = 0
  /\ pidList = {} /\ mainChild = NoPid
  /\ retries = 0 /\ waited = 0
  /\ child = [p \in Pids |-> "none"]
  /\ epochOf = [p \in Pids |-> 0]
  /\ forks = 0
  /\ badExit = FALSE

-----------------------------------------------------------------------------
(* The first child: main calls fork_and_exec.                                *)

InMain == Running /\ handler = "none"

SetEnviron ==
  /\ InMain /\ main = "environ"
  /\ environ' = restartEpoch
  /\ main' = "read"
  /\ UNCHANGED <<status, pending, pidList, mainChild, restartEpoch, oldEpoch, termVars,
                 childVars>>

\* restart_epoch += 1 loads the global, adds, and stores it.
ReadEpoch ==
  /\ InMain /\ main = "read"
  /\ oldEpoch' = restartEpoch
  /\ main' = "store"
  /\ UNCHANGED <<status, pending, pidList, mainChild, environ, restartEpoch, termVars,
                 childVars>>

StoreEpoch ==
  /\ InMain /\ main = "store"
  /\ restartEpoch' = oldEpoch + 1
  /\ main' = "fork"
  /\ UNCHANGED <<status, pending, pidList, mainChild, environ, oldEpoch, termVars,
                 childVars>>

\* os.fork(): the child has the environment of this moment.
Fork(p, as, epoch) ==
  /\ child' = [child EXCEPT ![p] = as]
  /\ epochOf' = [epochOf EXCEPT ![p] = epoch]
  /\ forks' = forks + 1
  /\ UNCHANGED badExit

ForkFirst ==
  /\ InMain /\ main = "fork"
  /\ \E p \in FreePids : Fork(p, "first", environ) /\ mainChild' = p
  /\ main' = "append"
  /\ UNCHANGED <<status, pending, pidList, epochVars, termVars>>

AppendFirst ==
  /\ InMain /\ main = "append"
  /\ pidList' = pidList \union {mainChild}
  /\ main' = "loop"
  /\ UNCHANGED <<status, pending, mainChild, epochVars, termVars, childVars>>

\* os.fork() raises OSError: the traceback ends the restarter, in main or in the
\* handler of SIGHUP, and nothing is done about the children.
ForkFails ==
  /\ \/ InMain /\ main = "fork"
     \/ InMain /\ "HUP" \in pending /\ (QuietStart => main = "loop")
  /\ "fork" \in Faults \/ FreePids = {}
  /\ status' = "traceback"
  /\ UNCHANGED <<main, pending, pidList, mainChild, epochVars, termVars, childVars>>

-----------------------------------------------------------------------------
(* The handlers.                                                             *)

Handles(sig) == InMain /\ sig \in pending /\ (QuietStart => main = "loop")

Handled(sig) == pending' = pending \ {sig}

\* Defect: a reload is refused while an earlier child is not up.
SighupWhenSettled ==
  /\ Handles("HUP") /\ Handled("HUP")
  /\ IF \A p \in pidList : child[p] = "up"
       THEN /\ \E p \in FreePids : /\ Fork(p, "forked", restartEpoch)
                                    /\ pidList' = pidList \union {p}
            /\ environ' = restartEpoch
            /\ restartEpoch' = restartEpoch + 1
       ELSE UNCHANGED <<pidList, environ, restartEpoch, childVars>>
  /\ UNCHANGED <<main, status, mainChild, oldEpoch, termVars>>

\* fork_and_exec without interruption.
SighupHandler ==
  /\ Handles("HUP") /\ Handled("HUP")
  /\ \E p \in FreePids : Fork(p, "forked", restartEpoch) /\ pidList' = pidList \union {p}
  /\ environ' = restartEpoch
  /\ restartEpoch' = restartEpoch + 1
  /\ UNCHANGED <<main, status, mainChild, oldEpoch, termVars>>

\* A process that still runs the restarter's code keeps the signal to itself; one
\* that has not installed its own handler yet is killed by it.
Sigusr1Handler ==
  /\ Handles("USR1")
  /\ LET killed == {p \in pidList : child[p] = "boot"}
     IN  /\ child' = [p \in Pids |-> IF p \in killed THEN "failed" ELSE child[p]]
         /\ badExit' = (badExit \/ killed # {})
         /\ pending' = (pending \ {"USR1"}) \union (IF killed = {} THEN {} ELSE {"CHLD"})
  /\ UNCHANGED <<main, status, pidList, mainChild, epochVars, termVars, epochOf, forks>>

\* Defect: waitpid(-1) instead of the pids in pid_list.
ReapAny(pids) == [p \in Pids |-> IF p \in Zombies THEN "none" ELSE child[p]]

\* waitpid(pid, WNOHANG) for every pid in pids.
Reap(pids) == [p \in Pids |-> IF p \in pids /\ p \in Zombies THEN "none" ELSE child[p]]

\* Defect: the children are sent the wrong signal.
ForceKillNone(pids, c) == c

\* force_kill_all_children: SIGKILL, and nobody waits for the killed.
ForceKill(pids, c) ==
  [p \in Pids |-> IF p \in pids /\ c[p] # "none" THEN "failed" ELSE c[p]]

\* Defect: the handler returns after one child, as if SIGCHLDs were counted.
CollectedOne == IF pidList \intersect Zombies = {} THEN {}
                ELSE {CHOOSE p \in pidList \intersect Zombies : TRUE}

\* The children sigchld_handler finds ended.
Collected == pidList \intersect Zombies

\* Defect: an empty list is looked at before the exit codes.
ExitStatusListFirst(abnormal, list) ==
  IF list = {} THEN "ok" ELSE IF abnormal THEN "error" ELSE "running"

ExitStatus(abnormal, list) ==
  IF abnormal THEN "error" ELSE IF list = {} THEN "ok" ELSE "running"

\* An abnormal end takes the other children down; without children left the
\* restarter exits.
SigchldHandler ==
  /\ Handles("CHLD") /\ Handled("CHLD")
  /\ LET abnormal == \E p \in Collected : child[p] = "failed"
     IN  /\ pidList' = IF abnormal THEN {} ELSE pidList \ Collected
         /\ child' = IF abnormal THEN ForceKill(pidList, Reap(Collected))
                                 ELSE Reap(Collected)
         /\ status' = ExitStatus(abnormal, pidList')
  /\ UNCHANGED <<main, mainChild, epochVars, termVars, epochOf, forks, badExit>>

\* What SIGTERM does to a child at once.  Before its execl the first child runs
\* the Python handler, whose copy of pid_list may name processes that are not its
\* own, and exits; a child forked by a handler runs none, and loses the signal.
Terminated(p, first) == CASE child[p] = "first" -> first
                          [] child[p] = "boot"  -> "failed"
                          [] OTHER              -> child[p]

\* term_all_children up to its first waitpid.  SIGCHLD is at its default from here
\* on.
SigtermHandler ==
  /\ GracefulTerm
  /\ Handles("TERM") /\ Handled("TERM")
  /\ \E first \in {"exited", "failed"} :
       child' = [p \in Pids |-> IF p \in pidList THEN Terminated(p, first) ELSE child[p]]
  /\ handler' = "poll" /\ retries' = 0 /\ waited' = 0
  /\ UNCHANGED <<main, status, pidList, mainChild, epochVars, epochOf, forks,
                 badExit>>

\* Defect: retries is not incremented.
TermPollUncounted ==
  /\ Running /\ handler = "poll" /\ retries < TermWait
  /\ child' = Reap(pidList)
  /\ pidList' = pidList \ Zombies
  /\ IF pidList' = {}
       THEN status' = "ok" /\ UNCHANGED handler
       ELSE handler' = "sleep" /\ UNCHANGED status
  /\ UNCHANGED <<main, pending, mainChild, epochVars, retries, waited, epochOf, forks, badExit>>

\* Defect: "<=" in the condition of the loop.
TermPollOnceMore ==
  /\ Running /\ handler = "poll" /\ retries <= TermWait
  /\ child' = Reap(pidList)
  /\ pidList' = pidList \ Zombies
  /\ IF pidList' = {}
       THEN status' = "ok" /\ UNCHANGED <<handler, retries>>
       ELSE handler' = "sleep" /\ retries' = retries + 1 /\ UNCHANGED status
  /\ UNCHANGED <<main, pending, mainChild, epochVars, waited, epochOf, forks,
                 badExit>>

\* One turn of the loop: waitpid for every child, then exit or sleep(1).
TermPoll ==
  /\ Running /\ handler = "poll" /\ retries < TermWait
  /\ child' = Reap(pidList)
  /\ pidList' = pidList \ Zombies
  /\ IF pidList' = {}
       THEN status' = "ok" /\ UNCHANGED <<handler, retries>>
       ELSE handler' = "sleep" /\ retries' = retries + 1 /\ UNCHANGED status
  /\ UNCHANGED <<main, pending, mainChild, epochVars, waited, epochOf, forks,
                 badExit>>

\* time.sleep(1): the second passes, or a signal that has a handler cuts it short.
SleepOver ==
  /\ Running /\ handler = "sleep"
  /\ handler' = "poll"
  /\ waited' = waited + 1
  /\ UNCHANGED <<main, status, pending, pidList, mainChild, epochVars, retries,
                 childVars>>

SleepInterrupted ==
  /\ Running /\ handler = "sleep"
  /\ \E sig \in {"HUP", "USR1", "TERM"} : pending' = pending \union {sig}
  /\ handler' = "poll"
  /\ UNCHANGED <<main, status, pidList, mainChild, epochVars, retries, waited, childVars>>

\* Defect: sys.exit(0) after the forced kill.
TermGivesUpCleanly ==
  /\ Running /\ handler = "poll" /\ retries = TermWait
  /\ child' = ForceKill(pidList, child)
  /\ pidList' = {}
  /\ status' = "ok"
  /\ UNCHANGED <<main, pending, mainChild, epochVars, termVars, epochOf, forks,
                 badExit>>

TermGivesUp ==
  /\ Running /\ handler = "poll" /\ retries = TermWait
  /\ child' = ForceKill(pidList, child)
  /\ pidList' = {}
  /\ status' = "error"
  /\ UNCHANGED <<main, pending, mainChild, epochVars, termVars, epochOf, forks,
                 badExit>>

\* cadfael: force_kill_all_children, then sys.exit(0).
ForceTerm ==
  /\ ~GracefulTerm
  /\ Handles("TERM") /\ Handled("TERM")
  /\ child' = ForceKill(pidList, child)
  /\ pidList' = {}
  /\ status' = "ok"
  /\ UNCHANGED <<main, mainChild, epochVars, termVars, epochOf, forks, badExit>>

-----------------------------------------------------------------------------
(* The children, external: start_envoy.sh, then Envoy, which exits with 0 once  *)
(* its successor has taken over, and in any way at any time.  What a child      *)
(* does once the restarter is gone is of no interest here.                      *)

\* The kernel tells the parent, unless SIGCHLD is at its default.
Ends(p, how) ==
  /\ child' = [child EXCEPT ![p] = how]
  /\ badExit' = (badExit \/ how = "failed")
  /\ pending' = IF handler = "none" THEN pending \union {"CHLD"} ELSE pending
  /\ UNCHANGED <<main, status, pidList, mainChild, epochVars, termVars, epochOf, forks>>

Exec(p) ==
  /\ Running /\ child[p] \in {"first", "forked"}
  /\ child' = [child EXCEPT ![p] = "boot"]
  /\ UNCHANGED <<main, status, pending, pidList, mainChild, epochVars, termVars, epochOf,
                 forks, badExit>>

Up(p) ==
  /\ Running /\ child[p] = "boot"
  /\ child' = [child EXCEPT ![p] = "up"]
  /\ UNCHANGED <<main, status, pending, pidList, mainChild, epochVars, termVars, epochOf,
                 forks, badExit>>

\* execl fails and the traceback of the child exits with 1, or the program ends.
Exit(p) ==
  /\ Running
  /\ \/ child[p] \in {"first", "forked", "boot"} /\ Ends(p, "failed")
     \/ child[p] = "up" /\ \E how \in {"exited", "failed"} : Ends(p, how)

\* Whoever signals the restarter.  MaxForks bounds the number of SIGHUPs.
Send(sig) ==
  /\ Running /\ handler # "sleep" /\ sig \notin pending
  /\ sig = "HUP" => forks + (IF main \in {"append", "loop"} THEN 1 ELSE 2) <= MaxForks
  /\ pending' = pending \union {sig}
  /\ UNCHANGED <<main, status, pidList, mainChild, epochVars, termVars, childVars>>

\* kill -9 from the process watcher.
Killed ==
  /\ Running /\ "kill" \in Faults
  /\ status' = "killed"
  /\ UNCHANGED <<main, pending, pidList, mainChild, epochVars, termVars, childVars>>

-----------------------------------------------------------------------------
MainStep == SetEnviron \/ ReadEpoch \/ StoreEpoch \/ ForkFirst \/ AppendFirst

TermStep == TermPoll \/ SleepOver \/ TermGivesUp

Next ==
  \/ MainStep \/ ForkFails
  \/ SighupHandler \/ Sigusr1Handler \/ SigchldHandler \/ SigtermHandler \/ ForceTerm
  \/ TermStep \/ SleepInterrupted
  \/ \E p \in Pids : Exec(p) \/ Up(p) \/ Exit(p)
  \/ \E sig \in {"HUP", "USR1", "TERM"} : Send(sig)
  \/ Killed

Spec == Init /\ [][Next]_vars

\* main runs on, and every pass over the tripped signals reaches each of them.
\* Neither children nor the senders of signals have to do anything.
Fairness ==
  /\ WF_vars(MainStep \/ ForkFails) /\ WF_vars(TermStep)
  /\ WF_vars(SighupHandler \/ ForkFails)
  /\ WF_vars(Sigusr1Handler) /\ WF_vars(SigchldHandler)
  /\ WF_vars(SigtermHandler) /\ WF_vars(ForceTerm)

FairSpec == Spec /\ Fairness

-----------------------------------------------------------------------------
(* Properties *)

DataTypeOK ==
  /\ main \in {"environ", "read", "store", "fork", "append", "loop"}
  /\ handler \in {"none", "poll", "sleep"}
  /\ status \in {"running", "ok", "error", "traceback", "killed"}
  /\ pending \subseteq Signals
  /\ environ \in Nat /\ restartEpoch \in Nat /\ oldEpoch \in Nat
  /\ pidList \subseteq Pids /\ mainChild \in Pids \union {NoPid}
  /\ main = "append" => mainChild \in Pids
  /\ retries \in 0 .. TermWait /\ waited \in Nat
  /\ child \in [Pids -> ChildStates]
  /\ epochOf \in [Pids -> Nat] /\ forks \in Nat

TypeOK == DataTypeOK /\ badExit \in BOOLEAN

\* pid_list never names a process that is not an unreaped child of the restarter,
\* whatever interrupts what: os.kill never hits a stranger that was given a
\* recycled pid, and os.waitpid never raises ECHILD.
ListedAreChildren == Running => \A p \in pidList : child[p] # "none"

\* When the restarter has exited by itself no Envoy is left that it started.
NothingLeft == status \in {"ok", "error"} => Alive = {}

\* To its Envoys the restarter is what Generations demands, whatever ends them and whether it
\* exits on SIGTERM, on a failure or because none is left.
Envoys == INSTANCE Generations WITH
            next <- forks, live <- {epochOf[p] : p \in Alive}, stopped <- status \in {"ok", "error"}

Generates == Envoys!Spec

\* Without SIGTERM the restarter exits with 0 only if no child has ever failed: its
\* caller learns of a failure.
FailureReported == status = "ok" /\ handler = "none" => ~badExit

\* SIGTERM leads to an exit status of 0 only when every child has been waited for.
CleanTermReaps == status = "ok" /\ handler # "none" => Alive \union Zombies = {}

\* SIGTERM is dealt with in TERM_WAIT_SECONDS at most, so a process watcher that
\* waits longer before SIGKILL never has to use it.
TermBounded == waited <= TermWait

\* SIGTERM ends the restarter, stubborn children or not.
TermEnds == ("TERM" \in pending) ~> ~Running

\* The failure of a child ends the restarter, though SIGCHLDs merge.
FailureEnds == badExit ~> ~Running

\* A SIGHUP (of spiffe-helper: the SVID has been renewed) starts one more child
\* unless SIGTERM is being handled or the restarter has ended.
HupForks ==
  \A n \in 0 .. MaxForks :
    (Running /\ "HUP" \in pending /\ forks = n) ~> (forks > n \/ ~InMain)
=============================================================================

