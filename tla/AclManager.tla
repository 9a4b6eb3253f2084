------------------------------ MODULE AclManager ------------------------------
(***************************************************************************)
(* The list of trusted SPIFFE IDs of java-spiffe's demo: ACLManager loads    *)
(* the file trusted.services.list and FileWatcher, a TimerTask, reloads it   *)
(* when its modification time changes.  File.lastModified counts seconds;    *)
(* the file is edited by whoever administers the service.                    *)
(***************************************************************************)
EXTENDS Integers

CONSTANTS Lists,         \* what the file can contain
          EmptyList,     \* an empty file: nobody is trusted
          Editors,       \* how the file is edited
          MaxTime,       \* bound: seconds
          MaxEdits       \* bound: number of edits

\* What the constants are; the modules that instantiate this one assume it.
Assumptions ==
  /\ EmptyList \in Lists /\ Editors \subseteq {"append", "truncate", "rename"}
  /\ MaxTime \in Nat \ {0} /\ MaxEdits \in Nat

VARIABLES
  phase,     \* of ACLManager: the constructor, then its timer
  allowed,   \* allowedSpiffeIds
  timeStamp, \* timeStamp of the FileWatcher
  exists,    \* the file is there
  content,   \* what it contains
  mtime,     \* its modification time
  editing,   \* an editor has truncated or renamed it and not written it yet
  clock,     \* seconds
  edits,     \* edits begun
  hidden     \* history: since the list was last read the file was written where its time
             \* stamp cannot tell, between the two steps of the constructor or once more
             \* in the second of the write that the watcher has seen

managerVars == <<phase, allowed, timeStamp>>
fileVars    == <<exists, content, mtime, editing, edits>>
vars == <<managerVars, fileVars, clock, hidden>>

Init ==
  /\ phase = "load" /\ allowed = EmptyList /\ timeStamp = 0
  /\ exists = TRUE /\ content \in Lists /\ mtime = 1 /\ editing = FALSE
  /\ clock = 1 /\ edits = 0 /\ hidden = FALSE

-----------------------------------------------------------------------------
(* ACLManager and FileWatcher                                                *)

\* File.lastModified: 0 for a file that does not exist.
LastModified == IF exists THEN mtime ELSE 0

\* allowedSpiffeIds = loadList(aclFile): without a file the constructor throws and
\* the class cannot be used.
LoadFirst ==
  /\ phase = "load"
  /\ IF exists
       THEN allowed' = content /\ phase' = "stamp"
       ELSE phase' = "failed" /\ UNCHANGED allowed
  /\ UNCHANGED <<timeStamp, fileVars, clock, hidden>>

\* new FileWatcher(file), and the timer starts.
StampFirst ==
  /\ phase = "stamp"
  /\ timeStamp' = LastModified
  /\ phase' = "idle"
  /\ UNCHANGED <<allowed, fileVars, clock, hidden>>

\* Defect: the current time is noted, not that of the file.
SeeChangeNow ==
  /\ phase = "idle" /\ timeStamp # LastModified
  /\ timeStamp' = clock
  /\ phase' = "changed"
  /\ UNCHANGED <<allowed, fileVars, clock, hidden>>

\* run(): a modification time other than the last one.
SeeChange ==
  /\ phase = "idle" /\ timeStamp # LastModified
  /\ timeStamp' = LastModified
  /\ phase' = "changed"
  /\ UNCHANGED <<allowed, fileVars, clock, hidden>>

\* Defect: the list that was read is not assigned.
ReloadUnassigned ==
  /\ phase = "changed"
  /\ phase' = IF exists THEN "idle" ELSE "dead"
  /\ hidden' = (hidden /\ ~exists)
  /\ UNCHANGED <<allowed, timeStamp, fileVars, clock>>

\* Defect: IDs that were removed from the file are kept.
ReloadAdding ==
  /\ phase = "changed" /\ exists
  /\ allowed' = allowed \union content /\ phase' = "idle" /\ hidden' = FALSE
  /\ UNCHANGED <<timeStamp, fileVars, clock>>

\* onChange(): the IllegalStateException of loadList ends the thread of the Timer.
Reload ==
  /\ phase = "changed"
  /\ IF exists
       THEN allowed' = content /\ phase' = "idle" /\ hidden' = FALSE
       ELSE phase' = "dead" /\ UNCHANGED <<allowed, hidden>>
  /\ UNCHANGED <<timeStamp, fileVars, clock>>

-----------------------------------------------------------------------------
(* The editors of the file, external.                                        *)

\* None in the last second, so that the bound on time leaves room to finish it.
Begin == edits < MaxEdits /\ clock < MaxTime /\ edits' = edits + 1

\* A write to the file, which sets its modification time.
Write(list) ==
  /\ content' = list /\ mtime' = clock /\ exists' = TRUE
  /\ hidden' = \/ hidden
               \/ phase = "stamp"
               \/ phase = "idle" /\ timeStamp = mtime /\ clock = mtime

\* One write, as of "echo >>".
Append ==
  /\ "append" \in Editors /\ ~editing
  /\ Begin /\ \E list \in Lists : Write(list)
  /\ UNCHANGED <<managerVars, editing, clock>>

\* Open with O_TRUNC, then write.
Truncate ==
  /\ "truncate" \in Editors /\ ~editing
  /\ Begin /\ Write(EmptyList)
  /\ editing' = TRUE
  /\ UNCHANGED <<managerVars, clock>>

\* The old file is renamed to a backup, then a new one is written.
RenameAway ==
  /\ "rename" \in Editors /\ ~editing
  /\ Begin
  /\ exists' = FALSE /\ editing' = TRUE
  /\ UNCHANGED <<managerVars, content, mtime, clock, hidden>>

Finish ==
  /\ editing
  /\ \E list \in Lists : Write(list)
  /\ editing' = FALSE
  /\ UNCHANGED <<managerVars, edits, clock>>

Tick ==
  /\ clock < MaxTime
  /\ clock' = clock + 1
  /\ UNCHANGED <<managerVars, fileVars, hidden>>

-----------------------------------------------------------------------------
Manager == LoadFirst \/ StampFirst \/ SeeChange \/ Reload

Next == Manager \/ Append \/ Truncate \/ RenameAway \/ Finish \/ Tick

Spec == Init /\ [][Next]_vars

\* The constructor and the timer go on, the timer once a second; an edit that has
\* begun is finished.
Fairness == WF_vars(Manager) /\ WF_vars(Finish) /\ WF_vars(Tick)

FairSpec == Spec /\ Fairness

-----------------------------------------------------------------------------
(* Properties *)

DataTypeOK ==
  /\ phase \in {"load", "stamp", "idle", "changed", "failed", "dead"}
  /\ allowed \in Lists /\ timeStamp \in 0 .. MaxTime
  /\ content \in Lists /\ mtime \in 1 .. MaxTime
  /\ clock \in 1 .. MaxTime /\ edits \in 0 .. MaxEdits

TypeOK == DataTypeOK /\ exists \in BOOLEAN /\ editing \in BOOLEAN /\ hidden \in BOOLEAN

\* When the watcher sees nothing to do, the list in use is the one in the file, unless the file
\* was written between the two steps of the constructor, or twice in one second with the
\* watcher's look in between: these are all the ways in which an edit, and above all the
\* removal of an ID, is missed, however the file is edited and whenever it is looked at.
NoMissedChange == phase = "idle" /\ exists /\ timeStamp = mtime => allowed = content \/ hidden

\* Once nobody edits the file any more, its content is what isAllowed answers by, unless
\* the file was missing when it was to be read or its last write was hidden.
Followed == <>[](allowed = content \/ hidden \/ phase \in {"failed", "dead"})

\* The README has its reader edit the file and "try again": for any edit that the time stamp
\* tells of, once the class has been loaded.
Converges == <>[](allowed = content \/ hidden \/ phase = "failed")
=============================================================================
