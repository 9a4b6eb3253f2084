----------------------------- MODULE SidecarProof -----------------------------
(***************************************************************************)
(* Proofs about Sidecar, for any set of pids, any TTLs and any bounds.      *)
(***************************************************************************)
EXTENDS Sidecar, TLAPS

-----------------------------------------------------------------------------
(* Types.  The three parts of TypeOK are preserved one by one.               *)

LEMMA TypesAtStart == Init => TypeOK
<1>1. Init => LoopTypeOK
  BY BoundsAssumption DEF Init, LoopTypeOK, Indexes, Contents
<1>2. Init => FlagTypeOK
  BY DEF Init, FlagTypeOK
<1>3. Init => ProcessTypeOK
  BY DEF Init, ProcessTypeOK
<1> QED
  BY <1>1, <1>2, <1>3 DEF TypeOK

LEMMA LoopTypesKept == ASSUME LoopTypeOK, [Next]_vars PROVE LoopTypeOK'
<1> USE BoundsAssumption, TtlsAssumption DEF LoopTypeOK
<1>1. CASE Fetch
  BY <1>1 DEF Fetch, Outdated, Life, Indexes, Contents
<1>2. CASE OpenKeystore
  BY <1>2 DEF OpenKeystore, Convert, Fault, Indexes, Contents, timeVars
<1>3. CASE WriteKeystore
  BY <1>3 DEF WriteKeystore, Indexes, Contents, timeVars
<1>4. CASE OpenCacert
  BY <1>4 DEF OpenCacert, Convert, Fault, Indexes, Contents, timeVars
<1>5. CASE WriteCacert
  BY <1>5 DEF WriteCacert, Indexes, Contents, timeVars
<1>6. CASE ReadRunning \/ Restart
  BY <1>6 DEF ReadRunning, Restart, timeVars, diskVars
<1>7. CASE StartGhostunnel \/ SignalGhostunnel
  BY <1>7 DEF StartGhostunnel, SignalGhostunnel, StartTimer, RenewAfter, diskVars
<1>8. CASE TimerFires
  BY <1>8 DEF TimerFires, diskVars
<1>9. CASE Interrupt
  BY <1>9 DEF Interrupt, Fault, loopVars, timeVars, diskVars
<1>10. CASE Die /\ faults' \in 0 .. MaxFaults /\ UNCHANGED diskVars
  BY <1>10 DEF Die, Indexes, diskVars
<1>11. CASE SignalFails \/ Interrupted
  BY <1>10, <1>11 DEF SignalFails, Interrupted
<1>12. CASE FetchFails \/ DumpFails \/ StartFails \/ Killed
  BY <1>10, <1>12 DEF FetchFails, DumpFails, StartFails, Killed, Fault
<1>13. CASE Tick
  BY <1>13 DEF Tick, Pred, Indexes, loopVars
<1>14. CASE \E p \in Pids : Watcher(p) \/ Ghostunnel(p)
  BY <1>14 DEF Watcher, WatcherBegins, Reap, WatcherEnds, Ghostunnel, Boot, Reload,
               loopVars, timeVars, diskVars
<1>15. CASE \E p \in Pids : GhostunnelExits(p)
  BY <1>15 DEF GhostunnelExits, Fault, loopVars, timeVars, diskVars
<1>16. CASE UNCHANGED vars
  BY <1>16 DEF vars, loopVars, timeVars, diskVars
<1> QED
  BY <1>1, <1>2, <1>3, <1>4, <1>5, <1>6, <1>7, <1>8, <1>9, <1>11, <1>12, <1>13,
     <1>14, <1>15, <1>16 DEF Next, RunDaemon, Failure

LEMMA FlagTypesKept == ASSUME FlagTypeOK, [Next]_vars PROVE FlagTypeOK'
<1> USE DEF FlagTypeOK
<1>1. CASE Fetch \/ OpenKeystore \/ WriteKeystore \/ OpenCacert \/ WriteCacert
  BY <1>1 DEF Fetch, OpenKeystore, WriteKeystore, OpenCacert, WriteCacert, flagVars
<1>2. CASE ReadRunning \/ Restart \/ SignalGhostunnel \/ TimerFires \/ Tick
  BY <1>2 DEF ReadRunning, Restart, SignalGhostunnel, StartTimer, TimerFires, Tick,
              flagVars
<1>3. CASE StartGhostunnel
  BY <1>3 DEF StartGhostunnel, StartTimer
<1>4. CASE Interrupt
  BY <1>4 DEF Interrupt, flagVars
<1>5. CASE Die
  BY <1>5 DEF Die
<1>6. CASE SignalFails \/ Interrupted \/ FetchFails \/ DumpFails \/ StartFails \/ Killed
  BY <1>5, <1>6 DEF SignalFails, Interrupted, FetchFails, DumpFails, StartFails, Killed
<1>7. CASE \E p \in Pids : Watcher(p)
  BY <1>7 DEF Watcher, WatcherBegins, Reap, WatcherEnds
<1>8. CASE \E p \in Pids : Ghostunnel(p) \/ GhostunnelExits(p)
  BY <1>8 DEF Ghostunnel, Boot, Reload, GhostunnelExits, flagVars
<1>9. CASE UNCHANGED vars
  BY <1>9 DEF vars, flagVars
<1> QED
  BY <1>1, <1>2, <1>3, <1>4, <1>6, <1>7, <1>8, <1>9 DEF Next, RunDaemon, Failure

LEMMA ProcessTypesKept ==
  ASSUME ProcessTypeOK, LoopTypeOK, [Next]_vars PROVE ProcessTypeOK'
<1> USE DEF ProcessTypeOK
<1>1. CASE Fetch \/ OpenKeystore \/ WriteKeystore \/ OpenCacert \/ WriteCacert
  BY <1>1 DEF Fetch, OpenKeystore, WriteKeystore, OpenCacert, WriteCacert, flagVars,
              watchVars, gtVars
<1>2. CASE ReadRunning \/ Restart \/ TimerFires \/ Interrupt
  BY <1>2 DEF ReadRunning, Restart, TimerFires, Interrupt, flagVars, watchVars, gtVars
<1>3. CASE StartGhostunnel
  BY <1>3 DEF StartGhostunnel, FreePids
<1>4. CASE SignalGhostunnel
  BY <1>4, PidsAssumption DEF SignalGhostunnel, flagVars, watchVars
<1>5. CASE Tick
  BY <1>5 DEF Tick, Pred, flagVars, watchVars
<1>6. CASE Die
  BY <1>6 DEF Die
<1>7. CASE SignalFails \/ Interrupted \/ FetchFails \/ DumpFails \/ StartFails \/ Killed
  BY <1>6, <1>7 DEF SignalFails, Interrupted, FetchFails, DumpFails, StartFails, Killed
<1>8. ASSUME NEW p \in Pids, Watcher(p) PROVE ProcessTypeOK'
  BY <1>8 DEF Watcher, WatcherBegins, Reap, WatcherEnds, gtVars
<1>9. ASSUME NEW p \in Pids, Exit(p), UNCHANGED <<flagVars, watchVars, own>>
      PROVE  ProcessTypeOK'
  BY <1>9 DEF Exit, flagVars, watchVars
<1>10. ASSUME NEW p \in Pids, Boot(p) PROVE ProcessTypeOK'
  <2>1. keyLeft[0] \in Nat
    BY BoundsAssumption DEF LoopTypeOK, Indexes
  <2>2. CASE Loadable
    BY <1>10, <2>1, <2>2 DEF Boot, flagVars, watchVars
  <2>3. CASE ~Loadable
    BY <1>9, <1>10, <2>3 DEF Boot
  <2> QED BY <2>2, <2>3
<1>11. ASSUME NEW p \in Pids, Reload(p) PROVE ProcessTypeOK'
  <2>1. keyLeft[0] \in Nat
    BY BoundsAssumption DEF LoopTypeOK, Indexes
  <2> QED BY <1>11, <2>1 DEF Reload, flagVars, watchVars
<1>12. ASSUME NEW p \in Pids, GhostunnelExits(p) PROVE ProcessTypeOK'
  BY <1>9, <1>12 DEF GhostunnelExits
<1>13. CASE UNCHANGED vars
  BY <1>13 DEF vars, flagVars, watchVars, gtVars
<1> QED
  BY <1>1, <1>2, <1>3, <1>4, <1>5, <1>7, <1>8, <1>10, <1>11, <1>12, <1>13
  DEF Next, RunDaemon, Failure, Ghostunnel

\* The variables keep their types through every renewal, failure, restart of the
\* sidecar and interleaving of its goroutines.
THEOREM TypeCorrect == Spec => []TypeOK
<1>1. TypeOK /\ [Next]_vars => TypeOK'
  BY LoopTypesKept, FlagTypesKept, ProcessTypesKept DEF TypeOK
<1> QED
  BY TypesAtStart, <1>1, PTL DEF Spec

-----------------------------------------------------------------------------
(* The goroutines.                                                           *)

\* Whatever the TTLs, and so whatever the interleaving of the goroutines, the flag
\* s.processRunning is never TRUE with no goroutine left to clear it.
THEOREM FlagIsCleared == Spec => []RunningIsWatched
<1> USE DEF RunningIsWatched
<1>1. Init => RunningIsWatched
  BY DEF Init
<1>2. ASSUME TypeOK, RunningIsWatched, [Next]_vars PROVE RunningIsWatched'
  <2> USE <1>2 DEF TypeOK, ProcessTypeOK
  <2>1. CASE UNCHANGED <<running, watcher>>
    BY <2>1
  <2>2. CASE StartGhostunnel
    BY <2>2 DEF StartGhostunnel, FreePids
  <2>3. CASE Die
    BY <2>3 DEF Die
  <2>4. ASSUME NEW w \in Pids, WatcherBegins(w) PROVE RunningIsWatched'
    BY <2>4 DEF WatcherBegins
  <2>5. ASSUME NEW p \in Pids, Reap(p) PROVE RunningIsWatched'
    BY <2>5 DEF Reap
  <2>6. ASSUME NEW w \in Pids, WatcherEnds(w) PROVE RunningIsWatched'
    BY <2>6 DEF WatcherEnds
  <2>7. CASE RunDaemon \/ Failure \/ Restart \/ Tick
    BY <2>1, <2>2, <2>3, <2>7 DEF RunDaemon, Failure, Fetch, OpenKeystore, WriteKeystore,
       OpenCacert, WriteCacert, ReadRunning, SignalGhostunnel, SignalFails, TimerFires,
       Interrupted, FetchFails, DumpFails, StartFails, Interrupt, Killed, Restart, Tick,
       flagVars, watchVars
  <2>8. ASSUME NEW p \in Pids, Ghostunnel(p) \/ GhostunnelExits(p) PROVE RunningIsWatched'
    BY <2>1, <2>8 DEF Ghostunnel, Boot, Reload, GhostunnelExits, flagVars, watchVars
  <2>9. CASE UNCHANGED vars
    BY <2>1, <2>9 DEF vars, flagVars, watchVars
  <2> QED
    BY <2>4, <2>5, <2>6, <2>7, <2>8, <2>9 DEF Next, Watcher
<1> QED
  BY <1>1, <1>2, TypeCorrect, PTL DEF Spec

\* With a TTL of two seconds or more the timer gives the goroutine of a new
\* Ghostunnel the time to set the flag.
RenewalsApart == \A t \in Ttls : t >= 2

\* What makes OneGhostunnel inductive: a goroutine that has not begun belongs to
\* the running timer, every goroutine to s.process, and every child is watched.
Watched ==
  /\ pc \notin {"fetch", "down"} => ttl \in Ttls
  /\ \A w \in Pids : watcher[w] = "begin" =>
       pc = "wait" /\ timer > 0 /\ reapedProc = FALSE /\ w \in own
  /\ \A w \in Pids : watcher[w] = "wait" =>
       target[w] = w /\ w \in own /\ running = TRUE
  /\ \A w \in Pids : watcher[w] = "reaped" => running = TRUE
  /\ \A w \in Pids : watcher[w] # "none" => process = w
  /\ \A p \in own : process = p /\ watcher[p] \in {"begin", "wait"}
  /\ pc = "start" => \A w \in Pids : watcher[w] = "none"
  /\ pc = "down" => own = {}

LEMMA WatchedKept ==
  ASSUME RenewalsApart, TypeOK, Watched, [Next]_vars PROVE Watched'
<1> USE DEF TypeOK, LoopTypeOK, ProcessTypeOK
<1>1. CASE /\ UNCHANGED <<running, process, reapedProc, watcher, target, own>>
           /\ UNCHANGED <<pc, ttl, timer>>
  BY <1>1 DEF Watched
<1>2. CASE Fetch
  BY <1>2 DEF Fetch, Watched, flagVars, watchVars, gtVars
<1>3. CASE OpenKeystore \/ WriteKeystore \/ OpenCacert \/ WriteCacert
  BY <1>3 DEF OpenKeystore, WriteKeystore, OpenCacert, WriteCacert, Convert, Watched,
              timeVars, flagVars, watchVars, gtVars
<1>4. CASE ReadRunning
  BY <1>4 DEF ReadRunning, Watched, timeVars, flagVars, watchVars, gtVars
<1>5. CASE StartGhostunnel
  <2>1. PICK p \in FreePids :
          /\ own' = own \union {p} /\ process' = p /\ reapedProc' = FALSE
          /\ watcher' = [watcher EXCEPT ![p] = "begin"]
    BY <1>5 DEF StartGhostunnel
  <2>2. pc' = "wait" /\ ttl' = ttl /\ ttl \in Ttls /\ own = {} /\ p \in Pids
    BY <1>5 DEF StartGhostunnel, StartTimer, Watched, FreePids
  <2>3. timer' > 0
    BY <1>5, <2>2, TtlsAssumption DEF StartGhostunnel, StartTimer, RenewAfter, RenewalsApart
  <2> QED BY <1>5, <2>1, <2>2, <2>3 DEF Watched, StartGhostunnel
<1>6. CASE SignalGhostunnel
  BY <1>6 DEF SignalGhostunnel, StartTimer, Watched, flagVars, watchVars
<1>7. CASE TimerFires
  BY <1>7 DEF TimerFires, Watched, flagVars, watchVars, gtVars
<1>8. CASE Restart
  BY <1>8 DEF Restart, Watched, timeVars, flagVars, watchVars, gtVars
<1>9. CASE Tick
  BY <1>9 DEF Tick, Watched, loopVars, flagVars, watchVars
<1>10. CASE Die
  BY <1>10 DEF Die, Watched
<1>11. CASE SignalFails \/ Interrupted \/ Failure
  BY <1>1, <1>10, <1>11 DEF SignalFails, Interrupted, Failure, FetchFails, DumpFails,
     StartFails, Interrupt, Killed, loopVars, timeVars, flagVars, watchVars, gtVars
<1>12. ASSUME NEW w \in Pids, WatcherBegins(w) PROVE Watched'
  BY <1>12 DEF WatcherBegins, Watched, loopVars, timeVars, gtVars
<1>13. ASSUME NEW p \in Pids, Reap(p) PROVE Watched'
  BY <1>13 DEF Reap, Watched, loopVars, timeVars
<1>14. ASSUME NEW w \in Pids, WatcherEnds(w) PROVE Watched'
  BY <1>14 DEF WatcherEnds, Watched, loopVars, timeVars, gtVars
<1>15. ASSUME NEW p \in Pids, Ghostunnel(p) \/ GhostunnelExits(p) PROVE Watched'
  BY <1>1, <1>15 DEF Ghostunnel, Boot, Reload, GhostunnelExits, loopVars, timeVars,
     flagVars, watchVars
<1>16. CASE UNCHANGED vars
  BY <1>1, <1>16 DEF vars, loopVars, timeVars, flagVars, watchVars, gtVars
<1> QED
  BY <1>2, <1>3, <1>4, <1>5, <1>6, <1>7, <1>8, <1>9, <1>11, <1>12, <1>13, <1>14, <1>15,
     <1>16 DEF Next, RunDaemon, Watcher

\* With TTLs of two seconds or more the sidecar never runs two Ghostunnels at a
\* time, in spite of the flag it reads and writes without a lock.
THEOREM SingleGhostunnel ==
  ASSUME RenewalsApart PROVE Spec => []OneGhostunnel
<1>1. Init => Watched
  BY DEF Init, Watched
<1>2. TypeOK /\ Watched /\ [Next]_vars => Watched'
  BY WatchedKept, RenewalsApart
<1>3. Watched => OneGhostunnel
  BY DEF Watched, OneGhostunnel
<1> QED
  BY <1>1, <1>2, <1>3, TypeCorrect, PTL DEF Spec

-----------------------------------------------------------------------------
(* The files.                                                                *)

\* The part of the answer that is on disk already.
FilesWritten ==
  /\ index < count
  /\ pc \in {"keydata", "certdata"} => buf = "cur"
  /\ pc \in {"key", "keydata", "cert", "certdata"} =>
       \A i \in Indexes : i < index => keyFile[i] = "cur" /\ certFile[i] = "cur"
  /\ pc \in {"cert", "certdata"} => keyFile[index] = "cur"
  /\ pc \in {"check", "start", "signal", "wait"} =>
       \A i \in Indexes : i < count => keyFile[i] = "cur" /\ certFile[i] = "cur"

LEMMA FilesWrittenKept ==
  ASSUME "openssl" \notin Faults, TypeOK, FilesWritten, [Next]_vars
  PROVE  FilesWritten'
<1> USE BoundsAssumption DEF TypeOK, LoopTypeOK, Indexes
<1>1. CASE UNCHANGED <<pc, index, count, buf, keyFile, certFile>>
  BY <1>1 DEF FilesWritten
<1>2. CASE Fetch
  BY <1>2 DEF Fetch, FilesWritten
<1>3. CASE OpenKeystore
  BY <1>3 DEF OpenKeystore, Convert, Fault, FilesWritten
<1>4. CASE WriteKeystore
  BY <1>4 DEF WriteKeystore, FilesWritten
<1>5. CASE OpenCacert
  BY <1>5 DEF OpenCacert, Convert, Fault, FilesWritten
<1>6. CASE WriteCacert
  BY <1>6 DEF WriteCacert, FilesWritten
<1>7. CASE ReadRunning \/ StartGhostunnel \/ SignalGhostunnel \/ TimerFires \/ Restart
  BY <1>7 DEF ReadRunning, StartGhostunnel, SignalGhostunnel, StartTimer, TimerFires,
              Restart, diskVars, FilesWritten
<1>8. CASE Die
  BY <1>8 DEF Die, FilesWritten
<1>9. CASE SignalFails \/ Interrupted \/ Failure
  BY <1>1, <1>8, <1>9 DEF SignalFails, Interrupted, Failure, FetchFails, DumpFails,
     StartFails, Interrupt, Killed, loopVars, diskVars
<1>10. CASE Tick
  BY <1>1, <1>10 DEF Tick, loopVars
<1>11. CASE \E p \in Pids : Watcher(p) \/ Ghostunnel(p) \/ GhostunnelExits(p)
  BY <1>1, <1>11 DEF Watcher, WatcherBegins, Reap, WatcherEnds, Ghostunnel, Boot, Reload,
     GhostunnelExits, loopVars, diskVars
<1>12. CASE UNCHANGED vars
  BY <1>1, <1>12 DEF vars, loopVars, diskVars
<1> QED
  BY <1>2, <1>3, <1>4, <1>5, <1>6, <1>7, <1>9, <1>10, <1>11, <1>12 DEF Next, RunDaemon

\* As long as openssl does not fail, whatever else fails and whenever the sidecar
\* is killed and restarted, Ghostunnel is only ever started or signalled when all
\* the files of the latest answer are complete.
THEOREM FilesComplete ==
  ASSUME "openssl" \notin Faults PROVE Spec => []FilesCurrent
<1>1. Init => FilesWritten
  BY DEF Init, FilesWritten
<1>2. TypeOK /\ FilesWritten /\ [Next]_vars => FilesWritten'
  BY FilesWrittenKept
<1>3. TypeOK /\ FilesWritten => FilesCurrent
  BY BoundsAssumption DEF TypeOK, LoopTypeOK, FilesWritten, FilesCurrent, Indexes
<1> QED
  BY <1>1, <1>2, <1>3, TypeCorrect, PTL DEF Spec

-----------------------------------------------------------------------------
(* Expiry.                                                                   *)

\* Two slow renewals and the wait between them fit into the life of an SVID.
SlackSuffices == \A t \in Ttls : RenewAfter(t) + 2 * Delay < t

Waited == IF pc = "wait" THEN RenewAfter(ttl) - timer ELSE 0

\* How long the SVIDs on disk and in Ghostunnel still last, whatever part of the
\* renewal has been done.  A Ghostunnel with something to load has had at most
\* lag seconds to do so.
LifeLeft ==
  /\ pc \notin {"fetch", "down"} => life + lag + Waited >= ttl
  /\ pc = "wait" => timer <= RenewAfter(ttl)
  /\ pc \notin {"fetch", "down"} /\ keyFile[0] = "cur" => keyLeft[0] = life
  /\ \A p \in usr1 : gt[p] = "serving"
  /\ \A p \in own : gt[p] = "boot" \/ p \in usr1 =>
       pc = "wait" /\ lag + timer >= RenewAfter(ttl)
  /\ \A p \in own : gt[p] = "serving" /\ (pc # "wait" \/ p \in usr1) =>
       loaded[p] + lag > Delay
  /\ \A p \in own : gt[p] = "serving" /\ pc = "wait" /\ p \notin usr1 =>
       loaded[p] + lag + Waited >= ttl

LEMMA RenewBound ==
  ASSUME SlackSuffices, NEW t \in Ttls, t >= 2
  PROVE  /\ RenewAfter(t) \in Nat /\ RenewAfter(t) + 2 * Delay < t
         /\ Delay < RenewAfter(t)
  BY BoundsAssumption, TtlsAssumption DEF SlackSuffices, RenewAfter

LEMMA LifeLeftKept ==
  ASSUME SlackSuffices, RenewalsApart, "openssl" \notin Faults,
         TypeOK, Watched, Watched', FilesWritten, LifeLeft, [Next]_vars
  PROVE  LifeLeft'
<1> USE BoundsAssumption, TtlsAssumption
<1> USE DEF TypeOK, LoopTypeOK, ProcessTypeOK
<1>0. /\ pc \notin {"fetch", "down"} => ttl \in Ttls /\ ttl >= 2
      /\ pc \notin {"fetch", "down"} =>
           /\ RenewAfter(ttl) \in Nat /\ RenewAfter(ttl) + 2 * Delay < ttl
           /\ Delay < RenewAfter(ttl)
      /\ 0 \in Indexes
  BY RenewBound DEF Watched, RenewalsApart, Indexes
<1>1. CASE /\ UNCHANGED <<pc, ttl, timer, lag, life, keyFile, keyLeft>>
           /\ UNCHANGED <<gt, own, loaded, usr1>>
  BY <1>1 DEF LifeLeft, Waited
<1>2. CASE Fetch
  <2>1. keyFile'[0] # "cur" /\ life' \in Nat /\ ttl' \in Int /\ life' >= ttl'
    BY <1>0, <1>2 DEF Fetch, Outdated, Life
  <2> QED
    BY <1>2, <2>1 DEF Fetch, LifeLeft, Waited, gtVars
<1>3. CASE OpenKeystore
  <2>1. keyFile'[0] = "cur" => keyFile[0] = "cur" /\ keyLeft'[0] = keyLeft[0]
    BY <1>0, <1>3 DEF OpenKeystore
  <2> QED
    BY <1>3, <2>1 DEF OpenKeystore, Convert, LifeLeft, Waited, timeVars, gtVars
<1>4. CASE WriteKeystore
  BY <1>0, <1>4 DEF WriteKeystore, FilesWritten, LifeLeft, Waited, timeVars, gtVars
<1>5. CASE OpenCacert \/ WriteCacert
  BY <1>5 DEF OpenCacert, WriteCacert, Convert, LifeLeft, Waited, timeVars, gtVars
<1>6. CASE ReadRunning \/ Restart
  BY <1>6 DEF ReadRunning, Restart, LifeLeft, Waited, timeVars, diskVars, gtVars
<1>7. CASE StartGhostunnel
  <2>1. PICK p \in FreePids : /\ gt' = [gt EXCEPT ![p] = "boot"]
                              /\ own' = own \union {p}
    BY <1>7 DEF StartGhostunnel
  <2>2. own = {} /\ p \in Pids /\ gt[p] = "free"
    BY <1>7 DEF StartGhostunnel, Watched, FreePids
  <2> QED
    BY <1>0, <1>7, <2>1, <2>2 DEF StartGhostunnel, StartTimer, LifeLeft, Waited, diskVars
<1>8. CASE SignalGhostunnel
  BY <1>0, <1>8 DEF SignalGhostunnel, StartTimer, Watched, LifeLeft, Waited, diskVars
<1>9. CASE TimerFires
  BY <1>0, <1>9 DEF TimerFires, LifeLeft, Waited, diskVars, gtVars
<1>10. CASE Tick
  <2>1. ASSUME Idle PROVE LifeLeft'
    BY <1>0, <1>10, <2>1 DEF Tick, Idle, Pred, Watched, LifeLeft, Waited, loopVars
  <2>2. ASSUME ~Idle PROVE LifeLeft'
    BY <1>0, <1>10, <2>2 DEF Tick, Pred, LifeLeft, Waited, loopVars
  <2> QED BY <2>1, <2>2
<1>11. CASE Die
  BY <1>11 DEF Die, LifeLeft, Waited
<1>12. CASE SignalFails \/ Interrupted \/ Failure
  BY <1>1, <1>11, <1>12 DEF SignalFails, Interrupted, Failure, FetchFails, DumpFails,
     StartFails, Interrupt, Killed, loopVars, timeVars, diskVars, gtVars
<1>13. ASSUME NEW p \in Pids, WatcherBegins(p) \/ WatcherEnds(p) PROVE LifeLeft'
  BY <1>1, <1>13 DEF WatcherBegins, WatcherEnds, loopVars, timeVars, diskVars, gtVars
<1>14. ASSUME NEW p \in Pids, Reap(p) PROVE LifeLeft'
  BY <1>14 DEF Reap, LifeLeft, Waited, loopVars, timeVars, diskVars
<1>15. ASSUME NEW p \in Pids, Exit(p),
              UNCHANGED <<pc, ttl, timer, lag, life, keyFile, keyLeft, own>>
       PROVE  LifeLeft'
  BY <1>15 DEF Exit, LifeLeft, Waited
<1>16. ASSUME NEW p \in Pids, GhostunnelExits(p) PROVE LifeLeft'
  BY <1>15, <1>16 DEF GhostunnelExits, loopVars, timeVars, diskVars
<1>17. pc = "wait" => keyFile[0] = "cur" /\ certFile[0] = "cur"
  BY <1>0 DEF FilesWritten, Indexes
<1>18. ASSUME NEW p \in Pids, Boot(p) PROVE LifeLeft'
  <2>1. CASE Loadable
    BY <1>0, <1>17, <1>18, <2>1 DEF Boot, LifeLeft, Waited, loopVars, timeVars, diskVars
  <2>2. CASE ~Loadable
    BY <1>15, <1>18, <2>2 DEF Boot, loopVars, timeVars, diskVars
  <2> QED BY <2>1, <2>2
<1>19. ASSUME NEW p \in Pids, Reload(p) PROVE LifeLeft'
  BY <1>0, <1>17, <1>19 DEF Reload, Loadable, LifeLeft, Waited, loopVars, timeVars, diskVars
<1>20. CASE UNCHANGED vars
  BY <1>1, <1>20 DEF vars, loopVars, timeVars, diskVars, gtVars
<1> QED
  BY <1>2, <1>3, <1>4, <1>5, <1>6, <1>7, <1>8, <1>9, <1>10, <1>12, <1>13, <1>14, <1>16,
     <1>18, <1>19, <1>20 DEF Next, RunDaemon, Watcher, Ghostunnel

\* A Ghostunnel of the living sidecar that has something to load is one for which the
\* timer runs: it reads the files before the next renewal opens them.
LoadsInTime ==
  /\ \A p \in own : gt[p] = "boot" \/ p \in usr1 =>
       pc = "wait" /\ keyFile[0] = "cur" /\ certFile[0] = "cur"
  /\ \A p \in usr1 : gt[p] = "serving"

LEMMA TimeToLoad ==
  ASSUME TypeOK, FilesWritten, LifeLeft PROVE LoadsInTime
<1>1. pc = "wait" => keyFile[0] = "cur" /\ certFile[0] = "cur"
  BY BoundsAssumption DEF TypeOK, LoopTypeOK, Indexes, FilesWritten
<1> QED
  BY <1>1 DEF LoadsInTime, LifeLeft

\* If half the TTL exceeds the delay of a renewal, a Ghostunnel of the living sidecar loads
\* only complete files of the latest answer, whenever it gets round to it: no lock keeps
\* the two apart, but the timer does.
THEOREM LoadsAreCurrent ==
  ASSUME SlackSuffices, RenewalsApart, "openssl" \notin Faults
  PROVE  Spec => LoadsCurrent
<1>1. Init => Watched /\ FilesWritten /\ LifeLeft
  BY DEF Init, Watched, FilesWritten, LifeLeft
<1>2. TypeOK /\ Watched /\ [Next]_vars => Watched'
  BY WatchedKept, RenewalsApart
<1>3. TypeOK /\ FilesWritten /\ [Next]_vars => FilesWritten'
  BY FilesWrittenKept
<1>4. TypeOK /\ Watched /\ Watched' /\ FilesWritten /\ LifeLeft /\ [Next]_vars => LifeLeft'
  BY LifeLeftKept
<1> DEFINE Loads == \A p \in own : Boot(p) \/ Reload(p) =>
                      gt'[p] = "serving" /\ keyFile[0] = "cur" /\ certFile[0] = "cur"
<1>5. ASSUME TypeOK, FilesWritten, LifeLeft PROVE Loads
  <2> SUFFICES ASSUME NEW p \in own, Boot(p) \/ Reload(p)
               PROVE  gt'[p] = "serving" /\ keyFile[0] = "cur" /\ certFile[0] = "cur"
    OBVIOUS
  <2>1. LoadsInTime /\ p \in Pids /\ gt \in [Pids -> {"free", "boot", "serving", "zombie"}]
    BY <1>5, TimeToLoad DEF TypeOK, ProcessTypeOK
  <2>2. CASE Boot(p)
    BY <2>1, <2>2 DEF LoadsInTime, Boot, Loadable
  <2>3. CASE Reload(p)
    BY <2>1, <2>3 DEF LoadsInTime, Reload
  <2> QED BY <2>2, <2>3
<1> HIDE DEF Loads
<1>6. TypeOK /\ FilesWritten /\ LifeLeft => [Loads]_vars
  BY <1>5
<1>7. Spec => [][Loads]_vars
  BY <1>1, <1>2, <1>3, <1>4, <1>6, TypeCorrect, PTL DEF Spec
<1> QED
  BY <1>7 DEF LoadsCurrent, Loads

\* Renewing at TTL/2 is enough: if a renewal never takes more than half of the
\* other half of the TTL, the Ghostunnel of the living sidecar serves no expired
\* SVID, through any number of failures other than that of openssl.
THEOREM SvidNeverExpires ==
  ASSUME SlackSuffices, RenewalsApart, "openssl" \notin Faults
  PROVE  Spec => []ServedSvidValid
<1>1. Init => Watched /\ FilesWritten /\ LifeLeft
  BY DEF Init, Watched, FilesWritten, LifeLeft
<1>2. TypeOK /\ Watched /\ [Next]_vars => Watched'
  BY WatchedKept, RenewalsApart
<1>3. TypeOK /\ FilesWritten /\ [Next]_vars => FilesWritten'
  BY FilesWrittenKept
<1>4. TypeOK /\ Watched /\ Watched' /\ FilesWritten /\ LifeLeft /\ [Next]_vars => LifeLeft'
  BY LifeLeftKept
<1>5. TypeOK /\ Watched /\ LifeLeft => ServedSvidValid
  <2> SUFFICES ASSUME TypeOK, Watched, LifeLeft, NEW p \in own, gt[p] = "serving"
               PROVE  loaded[p] > 0
    BY DEF ServedSvidValid
  <2>1. CASE pc = "wait" /\ p \notin usr1
    <3>1. /\ RenewAfter(ttl) \in Nat /\ RenewAfter(ttl) + 2 * Delay < ttl
          /\ ttl \in Int
      BY <2>1, RenewBound, TtlsAssumption DEF Watched, RenewalsApart
    <3> QED
      BY <2>1, <3>1, BoundsAssumption
      DEF TypeOK, LoopTypeOK, ProcessTypeOK, LifeLeft, Waited
  <2>2. CASE pc # "wait" \/ p \in usr1
    BY <2>2, BoundsAssumption DEF TypeOK, LoopTypeOK, ProcessTypeOK, LifeLeft
  <2> QED BY <2>1, <2>2
<1> QED
  BY <1>1, <1>2, <1>3, <1>4, <1>5, TypeCorrect, PTL DEF Spec
=============================================================================
