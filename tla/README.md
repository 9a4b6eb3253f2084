# Verification of spiffe-example

This directory holds TLA+ models of the programs in this repository, TLC
configurations that check them on small instances, and TLAPS proofs of what
holds for every instance. Most of the repository configures other people's
servers (SPIRE, Envoy, Ghostunnel, nginx, Tomcat, JBoss) for demonstrations.
The program logic of its own is small, concurrent, and concerned with one
question: *a certificate is renewed while somebody uses it; who tells whom, in
which order, and what if a step fails?*

One file of the repository is larger than all of these together: Bootstrap 3.3.7,
vendored into the Java front end as `static/js/bootstrap.js`. Its pages load it
and instantiate no widget of it themselves. It is modelled here nevertheless, in
its stateful parts, because it is the largest body of code with callbacks, timers and
interrupted motions that the repository ships, and whatever a page of the demo
grows into runs on it.

## 1. Inventory

| Part | Source | State it keeps | Operations | Status |
|---|---|---|---|---|
| SPIRE Sidecar | `rosemary/build/tools/sidecar/sidecar.go`, `main.go`; run in a loop by `beatrice/blog/container_ghostunnel/start.sh` | `processRunning`, `process`, the `.key` and `.cert` files, a timer | fetch, convert with openssl, write, start or signal Ghostunnel, wait, notice its exit, be interrupted, panic, restart | `Sidecar` |
| Envoy hot restarter | `spiffe-envoy-sidecar/spire-agent/spiffe-helper/hot-restarter.py`, older variant `cadfael/remote/hot-restarter.py` | `restart_epoch`, `pid_list`, the environment | first fork; handlers of SIGHUP, SIGUSR1, SIGCHLD, SIGTERM; graceful and forced termination | `HotRestarter` |
| ACL manager | `java-spiffe/acl-manager` (`ACLManager`, `FileWatcher`, `ACLSpiffeService`) | the list in use, the time stamp last seen | load, watch, reload, `isAllowed` | `AclManager` |
| Java security provider | `java-spiffe/spiffe-security-provider` (`SpiffeSVIDManager`, `SpiffeSVID`, `SpiffeKeyManager`, `SpiffeTrustManager`, `CertificateUtils`) | `spiffeSVID` | update; alias, key, chain; chain validation, ID check | `SpiffeProvider` |
| Registration in the Java provider architecture | `SpiffeProvider`, `SpiffeKeyStore`, the factories, `ReflectionUtils` | none | tables of names | not modelled |
| Registration tool | `rosemary/build/tools/registration/registration.go` | the entries of its file, where the loop is; entries in the SPIRE server | create, fetch and compare each entry; panic; be run again | `Registration` |
| Bootstrap widgets (vendored) | `java-spiffe/front-end/.../static/js/bootstrap.js` | classes of elements, instance fields, callbacks and timers | transition ends; Collapse; Modal; Carousel; Tooltip. Not: Dropdown, Tab, Affix, ScrollSpy, Button, Alert, the content of Popover, placement | `Transitions`, `Accordion`, `Modal`, `Carousel`, `Tooltip`, partly |
| Tomcat filter | `spiffe-tomcat-filter/.../SpiffeFilter.java` | the accepted ID | one decision per request | not modelled |
| Workload API stubs | `sidecar/wlapi/*.pb.go` | | generated | not modelled |
| Java demo applications | `java-spiffe/back-end`, `front-end` | a list of tasks | Spring controllers | not modelled |
| Demo scenarios, infrastructure | `aws`, `beatrice`, `cadfael`, `drew`, `dupin`, `ec2`, `vagrant_*`, ... | | Dockerfiles, provisioning, configuration, dumps, terraform | not modelled |

How they interact. The SPIRE agent answers the Workload API. The Sidecar
polls it and talks to Ghostunnel through files, `cmd.Start` and SIGUSR1.
`spiffe-helper` (external) polls it, starts the hot restarter and sends it
SIGHUP after each renewal (`helper.conf`); the restarter forks an Envoy per
SIGHUP. The Java provider is pushed SVIDs by the java-spiffe library on a
thread of its own; TLS handshakes call its key and trust managers, and the trust
manager asks an `ACLService`, of which the ACL manager is one: the first handshake
that asks runs its constructor, the others wait for that. The registration tool
talks to the SPIRE server over HTTP. The widgets meet in the document: end events
of CSS transitions bubble from an inner element to the outer ones, whichever widget
they belong to.

What is hard in each:

* **Sidecar**: `processRunning` and `process` are written by the goroutine
  `checkProcessExit` and read by `RunDaemon` without a lock; five ways to fail in
  the middle of writing two files; a renewal that races the expiry of what it
  renews; a restart that forgets the child.
* **Hot restarter**: handlers run between any two bytecodes of `main`, SIGCHLDs
  merge, `waitpid` and `kill` act on a list that handlers change.
* **ACL manager**: a change is known only by a time stamp of one second; the file
  may be half-written or missing when it is read.
* **Java provider**: each call of a handshake reads the current SVID anew; the list
  of IDs is replaced by a timer meanwhile.
* **Registration tool**: no HTTP status is looked at, answers get lost after the server
  has acted, and a run that stops half-way is repeated from the beginning.
* **Widgets**: `show` and `hide` go on in callbacks that wait for an event which the
  browser or a timer sends, in an order nobody fixes; a widget may be hidden while it is
  being shown; instances are created and dropped in the middle of calls; inner
  transitions bubble.

## 2. Modules

Every module names the code it models in its header and in the comments of its
actions; `PROJECT.json` maps every definition to its lines. An operator whose
comment begins with `Defect:` is not part of the model: it is what the definition
below it would be if the code had that bug, and serves to show that a property
notices.

| Module | Contents |
|---|---|
| `Sidecar` | the sidecar, its goroutines, the loop of `start.sh`, Ghostunnel (external), time |
| `HotRestarter` | both restarters (`GracefulTerm`), their children and whoever signals them (external) |
| `AclManager` | `ACLManager` and `FileWatcher`, editors of the file (external) |
| `SpiffeProvider` | the SVID manager, key manager and trust manager, JSSE and the ACL service (external) |
| `MutualTls` | a Java process: `SpiffeProvider` with `AclManager` as its `ACLService` |
| `Registration` | the tool, the server and the network (external), whoever runs it again |
| `Transitions` | ends of CSS transitions: `emulateTransitionEnd`, `bsTransitionEnd` |
| `Generations` | abstract: what Envoy's hot restart needs of whoever starts the Envoys; `HotRestarter` implements it |
| `Rotation` | abstract: what the keeper of a renewed certificate promises its readers; `SpiffeProvider` implements it |
| `Disclosure` | abstract: something that is shown and hidden, with motions between |
| `Accordion` | Collapse: a group of panels |
| `Modal` | Modal: a dialog, its backdrop and what it does to the page |
| `Dialog` | a `Modal` with an `Accordion` in its body |
| `Carousel` | Carousel: items, the interval timer, jumps |
| `Tooltip` | Tooltip: `enter`, `leave`, `show`, `hide`, their timers and fades |
| `Gallery` | a `Carousel` with a `Tooltip` inside one of its items |
| `MC*` | constants of the instances |
| `*Proof` | theorems and proofs about the module of that name |

Parts that a module composes are instantiated; they state what their constants are as
`Assumptions`, and the composing module assumes it (`PartsAssumption`). `MutualTls`,
`Dialog` and `Gallery` share variables between the parts where the code does
(`allowed`) and synchronise their actions where the code calls or an event bubbles.

### Sidecar

`pc` is where the goroutine of `RunDaemon` stands. `dumpBundles` is
`Fetch`, then per bundle `OpenKeystore`, `WriteKeystore`, `OpenCacert`,
`WriteCacert` (`ioutil.WriteFile` truncates before it writes, and a failure or
a kill can come between the two); `signalProcess` is `ReadRunning` followed by
`StartGhostunnel` or `SignalGhostunnel`, because the flag it read may change before
it acts. Each `checkProcessExit` goroutine is `watcher[w]` and `target[w]`:
`WatcherBegins` sets the flag and reads `s.process`, `Reap` is `Wait` returning,
`WatcherEnds` clears the flag. Whatever makes `RunDaemon` return an error
(`FetchFails`, `DumpFails`, `StartFails`, `SignalFails`) leads through the panic of
`main` to `Die`, which leaves Ghostunnel alive as an orphan; `Restart` is the loop
of `start.sh`.

A file is blank, written for an earlier answer, or for the latest one. Validity is
counted down in seconds (`life`, `keyLeft`, `loaded`), so that time needs no
absolute clock and behaviours are not cut off. `Tick` lets time pass freely while
the sidecar waits and Ghostunnel has nothing to load; a renewal, from the timer to
the end of the reload, loses at most `Delay` seconds, and a goroutine is scheduled
within a second. These are the two assumptions about the machine. `Faults` and
`MaxFaults` say which failures may happen and how many.

### HotRestarter

CPython 2.7 runs handlers in the main thread, one at a time, between bytecodes. So a
handler is one step (`SighupHandler`, `Sigusr1Handler`, `SigchldHandler`,
`ForceTerm`), except that of SIGTERM, which sleeps: `SigtermHandler`, then
`TermPoll`, `SleepOver` or `SleepInterrupted` (a caught signal ends `time.sleep`
early in 2.7), and `TermGivesUp`. The same `fork_and_exec` called by `main` can be
interrupted, and is a step per statement: `SetEnviron`, `ReadEpoch`, `StoreEpoch`,
`ForkFirst`, `AppendFirst`. Pending signals are a set: they merge. Handlers are
taken in any order, where CPython takes pending ones by number. With `QuietStart`
no signal is handled before `main` is in its loop; the properties that need it are
named below.

### AclManager

`LoadFirst` and `StampFirst` are the constructor, `SeeChange` and `Reload` the two
halves of a run of the `TimerTask`, for the file may change between them. Without
the file `loadList` throws: in the constructor the class becomes unusable
(`"failed"`), in the timer its thread ends (`"dead"`). Editors append, truncate and
write, or rename away and write, at any time. The watcher misses a change whenever the
file's time stamp does not tell it, and that can happen in two ways, both modelled: a
write between the two steps of the constructor, and a second write in the second of the
write that the watcher has seen. The history variable `hidden` is set by these writes,
and by nothing else, until the list is read again; `NoMissedChange` says that they are
the only ways.

### SpiffeProvider

An SVID is the number of the answer of the Workload API it came in. `Update` and
`UpdateFails` are the callback `certificateUpdater`, which throws before it assigns
the field if the answer has several identities or cannot be parsed. Each
handshake has a role and a peer, and calls `ChooseAlias`, `GetPrivateKey`,
`GetCertificateChain`, `Validate` and `CheckSpiffeId`, each of which reads the SVID
of its moment. The field is not `volatile`: the model assumes that a thread sees the
last write, as it does on coherent hardware when calls are not merged by the
compiler.

### MutualTls

`Handshake` is a step of a handshake; `CheckSpiffeId` waits until the constructor has
returned. `Construct` is the constructor, run by one of the handshakes, here or
elsewhere in the process. `Learn` extends what each handshake has seen (`seenIds`) when
the list changes. `named` is a history variable for `RemovedIdRefused`: what the file has
named since a handshake began, with the list in use if that was out of date by then.
Nothing the composition does is beyond its parts (the lemmas `ImplementsAcl` and
`ImplementsTls` of `MutualTlsProof`), so each part's theorems hold of it.

### Registration

`Load`, `Loop`, `Created` and `Validated` are `main`; `Serve` and `Find` the server,
which may store an entry and lose the answer, answer an error as JSON or as text, or not
at all. `json.Unmarshal` ignores what it does not know, so an error in JSON is an empty ID,
or an entry without fields (`Blank`); `null` is decoded as a nil pointer, from which
`createEntry` cannot take an ID, and which `validateEntry` compares like any other
(`Null`, which the file may be or hold as well). `Load` drops the error of its `Unmarshal` as the code
does: a file that is not JSON has no entries. `Kill` and `RunAgain` are whoever uses it.
Two things follow that no property states because nothing says otherwise: a file that is
not JSON ends in "All OK!" with nothing registered, and an entry without fields passes
the comparison with an error in JSON. A server that refuses copies would make every
repeated run fail at its first entry; the modelled one gives each a new ID.

### The widgets

Time is in units of 150 ms; a callback that waits has the time left to its timer, and the
special event `bsTransitionEnd` passes on only events of the element itself (`Hears`).

`Accordion`: `Show` and `Hide` are the methods, with the search for active panels
(`Actives`, `Blocked`: only the first one's instance is asked), the hiding of these by
instances created on the spot (`made`) and dropped again (`dropped`). Users click as fast
as they like, and pages call the plugin when they like. That is faster than the code can
bear: with panel 1 open from the markup, a click on trigger 2 hides panel 1 through an
instance that the same call drops, so that within the 350 ms of the motion nobody can ask
it, and a click on a third trigger, or on the first, goes ahead; and a constructor that
runs while a panel is opening resets its `aria-expanded` from the class `in`, which comes
only at the end. The history variable `rushed` notes both: `"unasked"`, a panel was opened
or an instance made while one moved that had lost its instance; `"rebuilt"`, an instance
was made while a panel was opening. Nothing depends on it but the properties, which say
what holds until then, and of a page that has prepared its panels (instances from the
start) at any time, since no panel of it ever loses its instance. That a trigger never
announces a closed panel, and that motions end, holds without conditions. `Vetoes` lets
listeners prevent events; with `"hide"` in it two panels can be open at once.

`Modal`: four callbacks, `"appear"`, `"shown"`, `"hideModal"`, `"remove"`. `Show` does not
come during a `Hide` that is going on: the dialog covers the page then, and a script
that did it would leave a backdrop for ever. The handler for the focus stays bound when a
dialog is hidden before its backdrop has appeared, and `ignoreBackdropClick` may stay
set from a drag; both are modelled as they are, and no property depends on them.

`Carousel`: `sliding`, the waiting slides, the queue of jumps that wait for `slid`, and
`timer`: whether it is paused, what the field `interval` holds (nothing, the handle of a
timer that runs, or one left over by `clearInterval`), and how many timers run. `cycle`,
`pause` and `slide` are composed of `ClearInterval` and `SetInterval` as in the code, so
that a handle overwritten without being cleared would leave a timer that nobody can stop.
A listener may prevent a slide (`TrySlide`); `refused` names the items whose slides the last
step asked for in vain, since a jump may be lost to that. `Tooltip`: `hoverState`,
`timeout`, `inState` and the callbacks that wait on the tip, which an end event runs in
their order, each of which may call `leave()`; therefore its methods are functions from
state to state. `destroy()` takes effect in a callback: until then its element's handlers
are bound, and events come (`tip.gone` tells when they no longer do). Listeners that
prevent a tooltip's events are not modelled.

## 3. What is checked

| Run | Instance | Properties | What it shows |
|---|---|---|---|
| `sidecar` | 3 pids, TTLs 5 and 6, 2 bundles, delay 1, 2 failures of any kind but openssl's | `FilesCurrent`, `OneGhostunnel`, `ServedSvidValid`, `RunningIsWatched`, `LoadsCurrent` | Ghostunnel is only told to load complete and current files, and loads only such though it may do so late; there is one of it, it never serves an expired SVID, and the flag is never left TRUE with nobody to clear it |
| `sidecar_live` | as above with 1 bundle and all failures | `Recovers` | after the failures, a managed Ghostunnel with a valid SVID for good |
| `restarter` | 3 pids, 3 forks, `TERM_WAIT_SECONDS` 2, quiet start | `Generates`, `FailureReported`, `CleanTermReaps`, `TermBounded`, `TermEnds`, `FailureEnds`, `HupForks` | epochs, generations and leftovers (`Generations`), exit status and the duration of termination; SIGTERM and a failed child end the restarter, a SIGHUP forks |
| `restarter_start` | cadfael's variant, 4 forks, signals during the start | `ListedAreChildren` | no stranger is ever signalled or waited for |
| `mutual_tls` | 1 handshake, 1 CA, 1 ID, 2 answers, an edit of one of three kinds (in up to two writes) at any time, 3 seconds | `NoMissedChange`, `IdentityPresented`, `PeerTrusted`, `RemovedIdRefused`, `HandshakesEnd`, `Followed` | no change of the list is missed but one that the time stamp hides; nothing null or outdated is presented; nobody is accepted who was not trusted during the handshake, nor an ID whose removal was noticed before; a handshake ends though it may wait for the constructor |
| `registration` | 4 files, no file, one that is not JSON, one that is `null`; 5 entries, one without fields and one `null`; 3 failures or interrupts, 5 runs | `OkMeansRegistered`, `OneCopyPerRun`, `Recovers` | what is called OK is registered; a run that stops leaves at most one entry more; repeated runs register all in the end |
| `dialog` | 2 panels; dialogs that fade or not, with the three kinds of backdrop; "show" may be prevented | `PageRestored`, `OpenIsWhole`, `OneOpen`, `AriaTruthful`, `DragKeeps`, `NotCutShort`, `WindowDiscloses`, `PanelsDisclose` | the dialog leaves the page as it was even if it is hidden while it is being shown; one panel is open, and announced, until a panel in motion is passed over; no drag closes the dialog; no inner transition ends an outer one; dialog and panels implement `Disclosure`, its liveness included, the panels' safety until then |
| `gallery` | 3 items, animated and not; 2 calls; click and focus, delays, 2 callbacks at a time | `OneActive`, `OneTimer`, `NeverStuck`, `SeenWhenWanted`, `SlideNotCut`, `JumpsMade`, `Vanishes` | one item is active; no timer that runs is lost; a jump that waits is made unless a listener prevents it; no tip stays without a reason, or after `destroy()`, even if its item slides away |

Four runs show the code doing something else than a document or comment says:

| Run | Property | What happens |
|---|---|---|
| `sidecar_orphan` | `EveryGhostunnelRenewed` | one failing fetch ends the sidecar; the next one has no `process`, so the Ghostunnel that is running is never signalled again and its SVID expires (`beatrice/README.md:12` says it is managed) |
| `restarter_silent` | `FailureReported` | the first child fails between `os.fork` and `pid_list.append`; `sigchld_handler` finds no child and exits with 0 (the comment at lines 132-133 wants the caller to know) |
| `acl_rename` | `Converges` | an editor that replaces the file is caught in between, the exception ends the `Timer`, later edits are ignored (the README has the reader edit the file and try again) |
| `provider_pair` | `KeyOfChain` | an update between `getPrivateKey` and `getCertificateChain` gives a handshake the key of one SVID and the certificate of another |

The type invariants of all modules are proved (section 4) and not checked again; so is
`NothingLeft`, which `Generates` contains.

The same modules show, with other constants, where the conditions of the passing
runs are needed: `FilesCurrent` fails once `"openssl"` is in `Faults`
(`convertToPem` ignores the exit status); `OneGhostunnel` fails with a TTL of 1,
for the second pass may come before the goroutine has set the flag; `LoadsCurrent` and
`ServedSvidValid` fail with a `Delay` of half the TTL; `Generates` and `NothingLeft`
fail with `QuietStart = FALSE`, for a SIGHUP in the middle of `main`'s count gives two
Envoys one epoch; `OneOpen` fails with `"hide"` in `Vetoes`. Without `hidden`, and without
`rushed`, `NoMissedChange`, `OneOpen` and `AriaTruthful` fail in the runs as they are.

**Bounds.** Three pids are enough for a dying, a living and a starting process at
once. Two failures reach every pair of failures, such as a write that fails after
a Ghostunnel has exited. TTLs 5 and 6 are the smallest odd and even ones whose half
exceeds the delay; 2 bundles exercise the loop of `dumpBundles` and its early returns in
both turns. `TERM_WAIT_SECONDS` 2 has a first and a last turn of the loop.
Handshakes of one process share nothing but the two parts and the wait for the
constructor, which `Construct` makes whether this or another handshake runs it: one in
`mutual_tls` meets every state of the parts, and the theorems are about any number. Two
answers give it one SVID before and one change during it; its edit, in two
writes, a removal and a return. Five runs of the registration tool leave, after one that finds no file and three
that fail, the one without failures that `Recovers` needs.
Two panels have one that moves and one to be opened, which may be the first or not; that
the first alone of several active panels is asked needs a third, which the theorems cover
for any number. Three
items have a next that is not the previous one; two calls meet in one slide. Two
callbacks at a tip are one of `show` and one of `hide`.
Deadlock is not checked where the system may stop: the restarter (it exits), the provider
and the ACL manager (answers, edits and time are bounded), the registration tool (it
ends), the carousel (calls are bounded), and a page on which nobody clicks any more. It is
checked for the sidecar, which is never stuck.

**Fairness.** `Sidecar`: the goroutines, `start.sh`, Ghostunnel and the clock go on
(weak fairness each); failures, exits and interrupts need not happen.
`HotRestarter`: `main` and the interpreter's delivery of a pending signal go on;
children and senders of signals need not do anything, which is why `TermEnds`
means something. Each pass of CPython over pending signals visits all of them, so
fairness per handler is justified. `AclManager`, `MutualTls`: the timer, the clock, the
threads of handshakes that have begun, and an editor that has begun go on. `Registration`:
the tool goes on, the server answers or the connection breaks, and a run that failed is
repeated. Widgets: timers fire, which `setTimeout` guarantees, and with
`emulateTransitionEnd` so do the ends of transitions; nobody needs to click. Assumed of
the agent: it answers or fails (`FetchAllBundles` has no deadline).

## 4. What is proved

All proofs are for arbitrary constants, under the assumptions stated with each.

| Theorem | Says | Assumes | Inductive invariant |
|---|---|---|---|
| `SidecarProof!TypeCorrect` | `TypeOK` | | itself |
| `SidecarProof!FlagIsCleared` | `RunningIsWatched` | | itself, with the types: whoever sets the flag is a goroutine that will clear it |
| `SidecarProof!SingleGhostunnel` | `OneGhostunnel` | every TTL is at least 2 | `Watched`: a goroutine that has not begun belongs to the timer now running, all belong to `s.process`, every child is watched; so a FALSE flag means no child |
| `SidecarProof!FilesComplete` | `FilesCurrent` | openssl does not fail | `FilesWritten`: which files of the answer are on disk at each point of the loop |
| `SidecarProof!SvidNeverExpires`, `LoadsAreCurrent` | `ServedSvidValid`, `LoadsCurrent` | both, and half the TTL exceeds the delay | `LifeLeft`: what is on disk and in Ghostunnel outlasts the timer and the rest of the delay; a Ghostunnel with something to load is one for which the timer still runs |
| `HotRestarterProof!TypeCorrect` | `TypeOK` | | itself |
| `HotRestarterProof!NoStrangers` | `ListedAreChildren` | | `Listed`: main's child, before it is appended, is alive or unreaped and not listed |
| `HotRestarterProof!NoOrphans`, `CleanTerm` | `NothingLeft`, `CleanTermReaps` | quiet start | `Tidy`: the epoch is the number of forks, every child is listed |
| `HotRestarterProof!Implementation` | `Generates` | quiet start | `Tidy`: each step starts the generation of the next number, ends some, or is the exit |
| `HotRestarterProof!ChldReportsFailures` | status 0 of `sigchld_handler` means that no child has failed | quiet start | `Evidence`: a failure not dealt with is still a zombie to be found |
| `HotRestarterProof!FailuresReported` | `FailureReported` | quiet start, graceful variant | from `ChldReportsFailures`: nothing else exits with 0 without SIGTERM |
| `HotRestarterProof!TermInTime` | `TermBounded` | | `WaitCounted`: each second is one of the retries |
| `AclManagerProof!TypeCorrect` | `TypeOK` | | itself |
| `AclManagerProof!NothingMissed` | `NoMissedChange` | | `Stamped`: the time stamp is never ahead of the file, the file of the clock |
| `SpiffeProviderProof!TypeCorrect` | `TypeOK` | | itself |
| `SpiffeProviderProof!FreshIdentity` | `IdentityPresented` | | `Fresh`: an alias once chosen, there is an SVID, and it only gets newer |
| `SpiffeProviderProof!OnlyTrustedPeers` | `PeerTrusted` | | `Vetted`: the bundle is that of the last well-formed answer, the history of a handshake contains what is in force, and the peer once it passed |
| `SpiffeProviderProof!SvidsRotate` | `Rotates` | | `Fresh` and `Unread`: nobody has a key or a chain without asking |
| `MutualTlsProof!TypeCorrect`, `NothingMissed`, `FreshIdentity`, `OnlyTrustedPeers` | the parts' properties | | from the parts' theorems, by the lemmas `ImplementsAcl` and `ImplementsTls`: each step is one of either part, or leaves its variables |
| `MutualTlsProof!RemovedIds` | `RemovedIdRefused` | | `Listed`, `Accepted`: the list in use holds only what the file has named since the handshake began, or what it was known to be late with |
| `RegistrationProof!TypeCorrect`, `OkIsTrue`, `NoCopies` | `TypeOK`, `OkMeansRegistered`, `OneCopyPerRun` | no file names an entry twice | `Position`, `NotYet`, `Answered`, `Prefix`: the ID in hand is that of the entry the loop is at, and before the server answers that entry is not stored |
| `GalleryProof!SingleActive`, `SingleTimer`, `SlidesLast` | `OneActive`, `OneTimer`, `SlideNotCut` | | `Slides`: `sliding` tells whether a callback waits, and what slides in is not the active item; `Quiet`, of the timer between any two steps of `cycle`, `pause` and `slide` (`Sound` in the middle of them) |
| `GalleryProof!TypeCorrect`, `TipsGo`, `TipsStay` | `TypeOK`, `NeverStuck`, `SeenWhenWanted` | | `TipInv`: what is in the document without a reason has a timer or a callback that takes it away, what is wanted is to be seen or has a timer that shows it |
| `GalleryProof!PartsImplemented` | `Carousel` and `Tooltip` as parts | | `Slides`: the end of a fade is not heard by the item |
| `DialogProof!OnlyOneOpen`, `TriggersTruthful` | `OneOpen`, `AriaTruthful` | no prevented hide | `Orderly`, until `rushed` has `"unasked"`: at most one panel is open or opening, and (`Panelled`) one that moves is busy if it has an instance, is not open, and only opens or only closes; `NoneFalse`, always; `AllTold`, until `rushed` has anything |
| `DialogProof!PanelImplementation` | the safety of `Disclosure`, for each panel, until `rushed` has `"unasked"` | no prevented hide | the same |
| `DialogProof!TypeCorrect` | `TypeOK` | | itself with `NoneFalse` and `WInv` |
| `DialogProof!PartsImplemented` | `Modal` and `Accordion` as parts | | `WInv`: the end of a panel's motion is not heard further out |
| `DialogProof!PageIsRestored`, `OpenDialogs`, `DragsKeep`, `NothingCutShort`, `Implementation` | `PageRestored`, `OpenIsWhole`, `DragKeeps`, `NotCutShort`, the safety of `Disclosure` | | `WInv`: what each waiting callback knows of the page; above all, `"appear"` of a dialog that was hidden meanwhile runs before `"hideModal"` |

Why `WInv` is needed: `PageRestored` says nothing while a callback waits, and it is the
callbacks that come late that could spoil it. The backdrop of `show()` takes one unit, the
element of `hide()` two: that is why the dialog is displayed, and hidden again, in that
order, and why the end event of a browser can shorten the second only when the first is
over.

Why `TipInv` speaks of callbacks: an end event runs all that wait on the tip, one after the
other, and `complete()` of `show()` may call `leave()`, which adds to them. `TipInv` is
therefore stated of a tip and the callbacks *still to run*, holds between any two of them
(`CompleteFits`), and so after all (`CompletedFits`). The module writes the run of the
callbacks as a recursive function; that there is such a function, and that the invariant
holds at each of its arguments, is shown by taking the least one at which it fails
(`RunsExist`, `CompletedFits`), since the provers have no induction.

Why `LoadsCurrent` needs the delay: no lock or acknowledgement keeps the sidecar from
rewriting the files while Ghostunnel, signalled after the last answer, has not read them
yet. The timer does, if half the TTL exceeds what a renewal takes to its reload; that is
the assumption of the theorem, and with `Delay` 2 TLC finds Ghostunnel loading while the
files are written.

`Generations` and `Rotation` are promises to others: Envoys hand over their sockets by
`RESTART_EPOCH`, so that a number used twice, or left out, breaks a restart; readers of an
SVID have no lock, so that all they can be promised is the SVID of each moment. If each
handshake were one reader of `Rotation`, and not one for its key and one for its chain, the
promise could not be kept, as `provider_pair` shows. `Sidecar` is not shown to implement
`Rotation`: its files carry no number, and `LoadsCurrent` says of them what `Rotation` would.

Only model-checked: the liveness properties (`Recovers`, `TermEnds`, `FailureEnds`,
`HupForks`, `Followed`, `HandshakesEnd`, `JumpsMade`, `Vanishes`, and the liveness of
`Disclosure` in `WindowDiscloses` and `PanelsDisclose`), which are beyond TLAPS. The
safety of these two is proved.

## 5. Not modelled

Parsing of the HCL configuration, logging, certificate formats (an SVID is
characterised by who issued it, when, and for whom), the path validation
itself, and the parts listed as such in section 1. A Ghostunnel that hangs, an agent
that never answers and a disk that loses what it acknowledged are outside the model.

`SpiffeFilter` decides each request alone, from its certificate and a fixed list of IDs;
one comparison and one catch block, for which a unit test is the right tool. The tables of
the Java provider architecture hold no state. Of Bootstrap, Dropdown, Affix, ScrollSpy and
Button set classes from one event each, Tab and Alert wait for a single transition, the
placement of tips is geometry, and Popover is Tooltip with other content. jQuery (`one`, `trigger`, the order of
handlers) and the browser (end events, clicks after a drag) are external, modelled from
how `bootstrap.js` uses them.

## 6. Plan

1. Done: `Sidecar`, `HotRestarter`, `AclManager`, `SpiffeProvider` and their composition
   `MutualTls`; `Registration`; the widgets with `Dialog` and `Gallery`; the theorems of
   section 4.
2. Proofs of what liveness rests on: that a step of the kind `Fairness` names is possible
   wherever something waits (the tip with a callback, a jump in the queue, a restarter with
   a pending signal).
3. Tab and Alert, which wait for transitions too, on top of `Transitions`.
