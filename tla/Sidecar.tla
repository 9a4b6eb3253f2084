------------------------------- MODULE Sidecar -------------------------------
(***************************************************************************)
(* The SPIRE Sidecar (rosemary/build/tools/sidecar/sidecar.go, main.go) as  *)
(* beatrice deploys it: start.sh runs it in an endless loop, it fetches     *)
(* SVIDs from the Workload API, writes them to disk, and starts Ghostunnel  *)
(* or tells it with SIGUSR1 to reload.                                      *)
(*                                                                         *)
(* The goroutine of RunDaemon is the variable pc.  The goroutines           *)
(* checkProcessExit share running (s.processRunning) and process            *)
(* (s.process) with it without a lock: each access is a step of its own.    *)
(* Lifetimes are countdowns, so no absolute clock bounds the runs.          *)
(***************************************************************************)
EXTENDS Integers, FiniteSets

CONSTANTS Pids,        \* process ids Ghostunnel can be given
          NoPid,       \* s.process == nil
          Ttls,        \* int32 values of Bundles.Ttl, in seconds
          MaxBundles,  \* most bundles in one answer of FetchAllBundles
          Delay,       \* most seconds one renewal takes, from its start to its reload
          Faults,      \* kinds of failure that may happen
          MaxFaults    \* bound: number of failures in one behaviour

AllFaults == {"fetch", "openssl", "write", "exec", "exit", "interrupt", "kill"}

ASSUME PidsAssumption   == IsFiniteSet(Pids) /\ NoPid \notin Pids
ASSUME TtlsAssumption   == Ttls \subseteq Int /\ Ttls # {}
ASSUME BoundsAssumption == /\ MaxBundles \in Nat \ {0}
                           /\ Delay \in Nat
                           /\ MaxFaults \in Nat
                           /\ Faults \subseteq AllFaults

VARIABLES
  pc,         \* where RunDaemon stands; "down" while start.sh sleeps
  ttl,        \* Ttl of the answer being handled
  count,      \* number of bundles in it
  index,      \* the bundle dumpBundles is writing
  buf,        \* what convertToPem returned: "cur" or "blank"
  timer,      \* seconds until time.Timer, or the sleep of start.sh, ends
  lag,        \* seconds this renewal has already lost
  life,       \* seconds the SVIDs of the latest answer remain valid
  interrupt,  \* SIGINT or SIGTERM is in the channel
  keyFile,    \* the <index>.key files
  keyLeft,    \* seconds the SVID in each of them remains valid
  certFile,   \* the <index>.cert files
  running,    \* s.processRunning
  process,    \* s.process
  reapedProc, \* the os.Process in s.process has been waited for
  watcher,    \* the checkProcessExit goroutine started with each pid
  target,     \* the pid that goroutine waits for
  gt,         \* state of each Ghostunnel process
  own,        \* the pids that are children of the living sidecar
  loaded,     \* seconds the SVID Ghostunnel serves remains valid
  usr1,       \* the pids with a SIGUSR1 pending
  faults      \* failures so far

loopVars  == <<pc, ttl, count, index, buf>>
diskVars  == <<keyFile, keyLeft, certFile>>
timeVars  == <<timer, lag, life>>
flagVars  == <<running, process, reapedProc>>
watchVars == <<watcher, target>>
gtVars    == <<gt, own, loaded, usr1>>
vars == <<loopVars, timeVars, interrupt, diskVars, flagVars, watchVars, gtVars, faults>>

Indexes == 0 .. (MaxBundles - 1)

\* A file is absent, empty or cut short ("blank"), written for an earlier
\* answer ("old") or for the latest one ("cur").
Contents == {"blank", "old", "cur"}

\* Whole seconds of validity left of an SVID issued with this Ttl.
Life(t) == IF t > 0 THEN t ELSE 0

\* Defect: the SVID is renewed when it expires, not halfway.
RenewAtTtl(t) == IF t < 0 THEN 0 ELSE t

\* Defect: time.Duration(ttl/2), which is in nanoseconds.
RenewAtOnce(t) == 0

\* time.NewTimer(time.Second * time.Duration(ttl/2)): int32 division, and a
\* duration that is not positive fires at once.
RenewAfter(t) == IF t < 2 THEN 0 ELSE t \div 2

Live(p) == gt[p] \in {"boot", "serving"}

Fault(kind) == /\ kind \in Faults
               /\ faults < MaxFaults
               /\ faults' = faults + 1

-----------------------------------------------------------------------------
Init ==
  /\ pc = "fetch" /\ ttl = 0 /\ count = 1 /\ index = 0 /\ buf = "blank"
  /\ timer = 0 /\ lag = 0 /\ life = 0
  /\ interrupt = FALSE
  /\ keyFile = [i \in Indexes |-> "blank"]
  /\ keyLeft = [i \in Indexes |-> 0]
  /\ certFile = [i \in Indexes |-> "blank"]
  /\ running = FALSE /\ process = NoPid /\ reapedProc = FALSE
  /\ watcher = [p \in Pids |-> "none"]
  /\ target = [p \in Pids |-> NoPid]
  /\ gt = [p \in Pids |-> "free"]
  /\ own = {}
  /\ loaded = [p \in Pids |-> 0]
  /\ usr1 = {}
  /\ faults = 0

\* RunDaemon returns and main panics or returns, or the process is killed:
\* its goroutines are gone, its zombies are reaped by their new parent, and a
\* live Ghostunnel goes on as an orphan.  start.sh sleeps a second.
Die ==
  /\ pc' = "down" /\ ttl' = 0 /\ count' = 1 /\ index' = 0 /\ buf' = "blank"
  /\ timer' = 1 /\ lag' = 0 /\ life' = 0
  /\ interrupt' = FALSE
  /\ running' = FALSE /\ process' = NoPid /\ reapedProc' = FALSE
  /\ watcher' = [p \in Pids |-> "none"]
  /\ target' = [p \in Pids |-> NoPid]
  /\ gt' = [p \in Pids |-> IF gt[p] = "zombie" THEN "free" ELSE gt[p]]
  /\ own' = {}
  /\ UNCHANGED <<loaded, usr1>>

\* Defect: nothing starts the sidecar again.
RestartNever == FALSE

\* start.sh: done with "sleep 1", ./sidecar again.
Restart ==
  /\ pc = "down" /\ timer = 0
  /\ pc' = "fetch"
  /\ UNCHANGED <<ttl, count, index, buf, timeVars, interrupt, diskVars, flagVars,
                 watchVars, gtVars, faults>>

\* kill -9, or a container that is restarted around its processes.
Killed ==
  /\ pc # "down"
  /\ Fault("kill") /\ Die
  /\ UNCHANGED diskVars

-----------------------------------------------------------------------------
(* dumpBundles *)

Outdated(file) == [i \in Indexes |-> IF file[i] = "cur" THEN "old" ELSE file[i]]

Fetch ==
  /\ pc = "fetch"
  /\ ttl' \in Ttls /\ life' = Life(ttl')
  /\ count' \in 1 .. MaxBundles
  /\ index' = 0
  /\ keyFile' = Outdated(keyFile) /\ certFile' = Outdated(certFile)
  /\ pc' = "key"
  /\ UNCHANGED <<buf, timer, lag, interrupt, keyLeft, flagVars, watchVars, gtVars,
                 faults>>

\* FetchAllBundles returns an error or no bundle at all.
FetchFails ==
  /\ pc = "fetch"
  /\ Fault("fetch") /\ Die
  /\ UNCHANGED diskVars

\* convertToPem: temporary files and the start of openssl are checked, its exit
\* status is not, so a failing openssl yields an empty result and no error.
Convert(next) ==
  /\ \/ buf' = "cur" /\ UNCHANGED faults
     \/ buf' = "blank" /\ Fault("openssl")
  /\ pc' = next

\* Converts key and SVID, then WriteFile opens <index>.key with O_TRUNC.
OpenKeystore ==
  /\ pc = "key"
  /\ Convert("keydata")
  /\ keyFile' = [keyFile EXCEPT ![index] = "blank"]
  /\ keyLeft' = [keyLeft EXCEPT ![index] = 0]
  /\ UNCHANGED <<ttl, count, index, timeVars, interrupt, certFile, flagVars, watchVars,
                 gtVars>>

WriteKeystore ==
  /\ pc = "keydata"
  /\ keyFile' = [keyFile EXCEPT ![index] = buf]
  /\ keyLeft' = [keyLeft EXCEPT ![index] = IF buf = "cur" THEN life ELSE 0]
  /\ pc' = "cert"
  /\ UNCHANGED <<ttl, count, index, buf, timeVars, interrupt, certFile, flagVars,
                 watchVars,
                 gtVars, faults>>

OpenCacert ==
  /\ pc = "cert"
  /\ Convert("certdata")
  /\ certFile' = [certFile EXCEPT ![index] = "blank"]
  /\ UNCHANGED <<ttl, count, index, timeVars, interrupt, keyFile, keyLeft, flagVars,
                 watchVars, gtVars>>

\* The last statement of the loop body; range moves on or dumpBundles returns.
WriteCacert ==
  /\ pc = "certdata"
  /\ certFile' = [certFile EXCEPT ![index] = buf]
  /\ IF index + 1 < count
       THEN pc' = "key" /\ index' = index + 1
       ELSE pc' = "check" /\ index' = 0
  /\ UNCHANGED <<ttl, count, buf, timeVars, interrupt, keyFile, keyLeft, flagVars,
                 watchVars, gtVars,
                 faults>>

\* Defect: the error of dumpBundles is logged, not returned.
DumpFailsUnseen ==
  /\ pc \in {"key", "keydata", "cert", "certdata"}
  /\ Fault("write")
  /\ pc' = "check" /\ index' = 0
  /\ UNCHANGED <<ttl, count, buf, timeVars, interrupt, diskVars, flagVars, watchVars,
                 gtVars>>

\* A temporary file, the start of openssl, or WriteFile fails: at "key" and
\* "cert" before the file is opened, at "keydata" and "certdata" after it has
\* been truncated.
DumpFails ==
  /\ pc \in {"key", "keydata", "cert", "certdata"}
  /\ Fault("write") /\ Die
  /\ UNCHANGED diskVars

-----------------------------------------------------------------------------
(* signalProcess, then the timer of RunDaemon *)

\* if !s.processRunning
ReadRunning ==
  /\ pc = "check"
  /\ pc' = IF running THEN "signal" ELSE "start"
  /\ UNCHANGED <<ttl, count, index, buf, timeVars, interrupt, diskVars, flagVars,
                 watchVars, gtVars, faults>>

StartTimer ==
  /\ pc' = "wait"
  /\ timer' = RenewAfter(ttl)
  /\ UNCHANGED <<ttl, count, index, buf, lag, life, interrupt, diskVars>>

\* A pid is free once its process is reaped and nothing refers to it.
FreePids == {p \in Pids : gt[p] = "free" /\ watcher[p] = "none"}

StartGhostunnel ==
  /\ pc = "start"
  /\ \E p \in FreePids :
       /\ gt' = [gt EXCEPT ![p] = "boot"]
       /\ own' = own \union {p}
       /\ process' = p /\ reapedProc' = FALSE
       /\ watcher' = [watcher EXCEPT ![p] = "begin"]
  /\ StartTimer
  /\ UNCHANGED <<running, target, loaded, usr1, faults>>

\* cmd.Start returns an error, as it does when the system has no pid left.
StartFails ==
  /\ pc = "start"
  /\ \/ Fault("exec")
     \/ FreePids = {} /\ UNCHANGED faults
  /\ Die
  /\ UNCHANGED diskVars

\* The signal reaches the process as long as it is not reaped.  A zombie takes
\* it without effect; a Ghostunnel that has not installed its handler yet may
\* ignore it or die of it.
SignalGhostunnel ==
  /\ pc = "signal" /\ process # NoPid /\ ~reapedProc
  /\ \/ /\ usr1' = IF gt[process] = "serving" THEN usr1 \union {process} ELSE usr1
        /\ UNCHANGED gt
     \/ /\ gt[process] = "boot"
        /\ gt' = [gt EXCEPT ![process] = "zombie"]
        /\ UNCHANGED usr1
  /\ StartTimer
  /\ UNCHANGED <<flagVars, watchVars, own, loaded, faults>>

\* os: process already finished.
SignalFails ==
  /\ pc = "signal" /\ reapedProc
  /\ Die
  /\ UNCHANGED <<diskVars, faults>>

TimerFires ==
  /\ pc = "wait" /\ timer = 0
  /\ pc' = "fetch" /\ lag' = 0
  /\ UNCHANGED <<ttl, count, index, buf, timer, life, interrupt, diskVars, flagVars,
                 watchVars, gtVars, faults>>

\* signal.Notify keeps one signal in the channel whatever RunDaemon is doing.
Interrupt ==
  /\ pc # "down" /\ ~interrupt
  /\ Fault("interrupt")
  /\ interrupt' = TRUE
  /\ UNCHANGED <<loopVars, timeVars, diskVars, flagVars, watchVars, gtVars>>

\* RunDaemon returns nil and main returns.  When the timer has fired as well,
\* select takes either.
Interrupted ==
  /\ pc = "wait" /\ interrupt
  /\ Die
  /\ UNCHANGED <<diskVars, faults>>

-----------------------------------------------------------------------------
(* checkProcessExit *)

\* Defect: processRunning is not set.
WatcherBeginsSilently(w) ==
  /\ watcher[w] = "begin"
  /\ target' = [target EXCEPT ![w] = process]
  /\ watcher' = [watcher EXCEPT ![w] = IF reapedProc THEN "reaped" ELSE "wait"]
  /\ UNCHANGED <<loopVars, timeVars, interrupt, diskVars, flagVars, gtVars, faults>>

\* s.processRunning = true; s.process.Wait() reads s.process only now, and
\* returns at once when that process has already been waited for.
WatcherBegins(w) ==
  /\ watcher[w] = "begin"
  /\ running' = TRUE
  /\ target' = [target EXCEPT ![w] = process]
  /\ watcher' = [watcher EXCEPT ![w] = IF reapedProc THEN "reaped" ELSE "wait"]
  /\ UNCHANGED <<loopVars, timeVars, interrupt, diskVars, process, reapedProc, gtVars,
                 faults>>

\* wait4 reaps the process; every goroutine waiting for it returns.
Reap(p) ==
  /\ gt[p] = "zombie" /\ p \in own
  /\ \E w \in Pids : watcher[w] = "wait" /\ target[w] = p
  /\ watcher' = [w \in Pids |-> IF watcher[w] = "wait" /\ target[w] = p
                                   THEN "reaped" ELSE watcher[w]]
  /\ gt' = [gt EXCEPT ![p] = "free"]
  /\ own' = own \ {p}
  /\ reapedProc' = (reapedProc \/ process = p)
  /\ UNCHANGED <<loopVars, timeVars, interrupt, diskVars, running, process, target,
                 loaded, usr1, faults>>

\* Defect: processRunning is not cleared.
WatcherEndsSilently(w) ==
  /\ watcher[w] = "reaped"
  /\ watcher' = [watcher EXCEPT ![w] = "none"]
  /\ target' = [target EXCEPT ![w] = NoPid]
  /\ UNCHANGED <<loopVars, timeVars, interrupt, diskVars, flagVars, gtVars, faults>>

\* s.processRunning = false
WatcherEnds(w) ==
  /\ watcher[w] = "reaped"
  /\ running' = FALSE
  /\ watcher' = [watcher EXCEPT ![w] = "none"]
  /\ target' = [target EXCEPT ![w] = NoPid]
  /\ UNCHANGED <<loopVars, timeVars, interrupt, diskVars, process, reapedProc, gtVars,
                 faults>>

-----------------------------------------------------------------------------
(* Ghostunnel, external: the process started with --keystore 0.key --cacert   *)
(* 0.cert, which loads both files when it starts and again on SIGUSR1.        *)

Loadable == keyFile[0] # "blank" /\ certFile[0] # "blank"

\* The parent gets a zombie to reap; an orphan is reaped by init.
Exit(p) ==
  /\ gt' = [gt EXCEPT ![p] = IF p \in own THEN "zombie" ELSE "free"]
  /\ loaded' = [loaded EXCEPT ![p] = 0]
  /\ usr1' = usr1 \ {p}

Boot(p) ==
  /\ gt[p] = "boot"
  /\ IF Loadable
       THEN /\ gt' = [gt EXCEPT ![p] = "serving"]
            /\ loaded' = [loaded EXCEPT ![p] = keyLeft[0]]
            /\ UNCHANGED usr1
       ELSE Exit(p)
  /\ UNCHANGED <<loopVars, timeVars, interrupt, diskVars, flagVars, watchVars, own,
                 faults>>

\* A reload that fails keeps what was loaded before.
Reload(p) ==
  /\ p \in usr1
  /\ usr1' = usr1 \ {p}
  /\ loaded' = IF Loadable THEN [loaded EXCEPT ![p] = keyLeft[0]] ELSE loaded
  /\ UNCHANGED <<loopVars, timeVars, interrupt, diskVars, flagVars, watchVars, gt, own,
                 faults>>

\* It crashes, is killed, or cannot bind its --listen address.
GhostunnelExits(p) ==
  /\ Live(p)
  /\ Fault("exit")
  /\ Exit(p)
  /\ UNCHANGED <<loopVars, timeVars, interrupt, diskVars, flagVars, watchVars, own>>

-----------------------------------------------------------------------------
(* Time.  Steps take no time of their own.  Seconds pass freely while          *)
(* RunDaemon waits and Ghostunnel has nothing to load; otherwise (a slow       *)
(* agent, openssl, disk or reload) at most Delay of them pass per renewal.     *)
(* A goroutine is scheduled within a second of its go statement.               *)

Idle == pc \in {"wait", "down"} /\ \A p \in own : gt[p] # "boot" /\ p \notin usr1

Pred(n) == IF n > 0 THEN n - 1 ELSE 0

Tick ==
  /\ pc \in {"wait", "down"} => timer > 0
  /\ \A w \in Pids : watcher[w] # "begin"
  /\ IF Idle THEN UNCHANGED lag ELSE lag < Delay /\ lag' = lag + 1
  /\ timer' = Pred(timer)
  /\ life' = Pred(life)
  /\ keyLeft' = [i \in Indexes |-> Pred(keyLeft[i])]
  /\ loaded' = [p \in Pids |-> Pred(loaded[p])]
  /\ UNCHANGED <<loopVars, interrupt, keyFile, certFile, flagVars, watchVars, gt, own,
                 usr1, faults>>

-----------------------------------------------------------------------------
RunDaemon ==
  \/ Fetch \/ OpenKeystore \/ WriteKeystore \/ OpenCacert \/ WriteCacert
  \/ ReadRunning \/ StartGhostunnel \/ SignalGhostunnel \/ SignalFails
  \/ TimerFires \/ Interrupted

Failure == FetchFails \/ DumpFails \/ StartFails \/ Interrupt \/ Killed

Watcher(w) == WatcherBegins(w) \/ Reap(w) \/ WatcherEnds(w)

Ghostunnel(p) == Boot(p) \/ Reload(p)

Next ==
  \/ RunDaemon \/ Failure \/ Restart \/ Tick
  \/ \E p \in Pids : Watcher(p) \/ Ghostunnel(p) \/ GhostunnelExits(p)

\* Failures and interrupts need not happen; everything else is a running
\* goroutine, process or clock.
Fairness ==
  /\ WF_vars(RunDaemon) /\ WF_vars(Restart) /\ WF_vars(Tick)
  /\ \A p \in Pids : WF_vars(Watcher(p)) /\ WF_vars(Ghostunnel(p))

Spec == Init /\ [][Next]_vars

FairSpec == Spec /\ Fairness

-----------------------------------------------------------------------------
(* Properties *)

LoopTypeOK ==
  /\ pc \in {"fetch", "key", "keydata", "cert", "certdata", "check", "start",
             "signal", "wait", "down"}
  /\ ttl \in Int /\ count \in 1 .. MaxBundles /\ index \in Indexes
  /\ buf \in {"cur", "blank"}
  /\ timer \in Nat /\ lag \in 0 .. Delay /\ life \in Nat
  /\ keyFile \in [Indexes -> Contents]
  /\ keyLeft \in [Indexes -> Nat]
  /\ certFile \in [Indexes -> Contents]
  /\ faults \in 0 .. MaxFaults

FlagTypeOK ==
  interrupt \in BOOLEAN /\ running \in BOOLEAN /\ reapedProc \in BOOLEAN

ProcessTypeOK ==
  /\ process \in Pids \union {NoPid}
  /\ watcher \in [Pids -> {"none", "begin", "wait", "reaped"}]
  /\ target \in [Pids -> Pids \union {NoPid}]
  /\ gt \in [Pids -> {"free", "boot", "serving", "zombie"}]
  /\ own \subseteq Pids
  /\ loaded \in [Pids -> Nat]
  /\ usr1 \subseteq Pids

TypeOK == LoopTypeOK /\ FlagTypeOK /\ ProcessTypeOK

\* Whenever dumpBundles has returned and Ghostunnel is about to be started or
\* signalled, every file of the answer is complete and of that answer: a reload
\* never mixes a new key with an old trust bundle, or reads a truncated file.
FilesCurrent ==
  pc \in {"check", "start", "signal"} =>
    \A i \in 0 .. (count - 1) : keyFile[i] = "cur" /\ certFile[i] = "cur"

\* Nothing keeps the loop from writing the next answer while Ghostunnel, signalled after
\* the one before, has yet to read the files.  Yet what a Ghostunnel of the living sidecar
\* loads, when it starts and on SIGUSR1, is a key and a trust bundle of one answer, the
\* latest.
LoadsCurrent ==
  [][\A p \in own : Boot(p) \/ Reload(p) =>
       gt'[p] = "serving" /\ keyFile[0] = "cur" /\ certFile[0] = "cur"]_vars

\* The processRunning flag, written by another goroutine without a lock, keeps
\* signalProcess from starting a second Ghostunnel beside a living one.
OneGhostunnel == \A p, q \in own : Live(p) /\ Live(q) => p = q

\* Whatever the interleaving of the goroutines, the flag is never left TRUE with
\* nobody to clear it: the sidecar cannot signal a dead Ghostunnel for ever.
RunningIsWatched == running => \E w \in Pids : watcher[w] \in {"wait", "reaped"}

\* Renewing after TTL/2 leaves room for slow renewals: the Ghostunnel of the
\* living sidecar never serves an expired SVID.
ServedSvidValid == \A p \in own : gt[p] = "serving" => loaded[p] > 0

\* The same of every Ghostunnel, those of an earlier run of the sidecar too.
EveryGhostunnelRenewed == \A p \in Pids : gt[p] = "serving" => loaded[p] > 0

\* Once failures stop, panics, restarts by start.sh and the renewal loop lead to
\* a managed Ghostunnel with a valid SVID, and it stays so.
Recovers == <>[](\E p \in own : gt[p] = "serving" /\ loaded[p] > 0)
=============================================================================

