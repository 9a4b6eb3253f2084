---------------------------- MODULE AclManagerProof ----------------------------
(***************************************************************************)
(* Theorems about AclManager for any lists, editors and bounds.             *)
(***************************************************************************)
EXTENDS AclManager, TLAPS

FlagTypeOK == exists \in BOOLEAN /\ editing \in BOOLEAN /\ hidden \in BOOLEAN

\* The initial state is of the right types.
LEMMA InitTypeOK == Assumptions /\ Init => TypeOK
  <1> USE DEF Assumptions
  <1>1. Assumptions /\ Init => DataTypeOK  BY DEF Init, DataTypeOK
  <1>2. Init => FlagTypeOK  BY DEF Init, FlagTypeOK
  <1> QED  BY <1>1, <1>2 DEF TypeOK, FlagTypeOK

\* File.lastModified is never a later time than the last write's.
LEMMA LastModifiedType ==
  ASSUME Assumptions, DataTypeOK
  PROVE  LastModified \in 0 .. MaxTime /\ LastModified <= mtime
BY DEF Assumptions, DataTypeOK, LastModified

\* A step preserves the part of the types that Write is responsible for.
LEMMA WriteTypeOK ==
  ASSUME Assumptions, DataTypeOK, NEW list \in Lists, Write(list)
  PROVE  content' \in Lists /\ mtime' \in 1 .. MaxTime /\ exists' \in BOOLEAN
BY DEF Assumptions, DataTypeOK, Write

\* Whether a write is hidden is a matter of fact.
LEMMA WriteHides ==
  ASSUME FlagTypeOK, NEW list, Write(list) PROVE hidden' \in BOOLEAN
BY Zenon DEF FlagTypeOK, Write

\* Every step preserves the types.
LEMMA NextTypeOK == ASSUME Assumptions, TypeOK, [Next]_vars PROVE TypeOK'
  <1> SUFFICES ASSUME DataTypeOK, FlagTypeOK PROVE DataTypeOK' /\ FlagTypeOK'
      BY DEF TypeOK, FlagTypeOK
  <1> USE DEF Assumptions, managerVars, fileVars
  <1>1. CASE LoadFirst
        BY <1>1 DEF LoadFirst, DataTypeOK, FlagTypeOK
  <1>2. CASE StampFirst
        BY <1>2, LastModifiedType DEF StampFirst, DataTypeOK, FlagTypeOK
  <1>3. CASE SeeChange
        BY <1>3, LastModifiedType DEF SeeChange, DataTypeOK, FlagTypeOK
  <1>4. CASE Reload
        BY <1>4 DEF Reload, DataTypeOK, FlagTypeOK
  <1>5. CASE Append
    <2>1. PICK list \in Lists : Write(list)  BY <1>5 DEF Append
    <2>2. content' \in Lists /\ mtime' \in 1 .. MaxTime /\ exists' \in BOOLEAN
          BY <2>1, WriteTypeOK
    <2>3. edits' \in 0 .. MaxEdits  BY <1>5 DEF Append, Begin, DataTypeOK
    <2>4. DataTypeOK'  BY <1>5, <2>2, <2>3 DEF Append, DataTypeOK
    <2>5. FlagTypeOK'  BY <1>5, <2>2, <2>1, WriteHides DEF Append, FlagTypeOK
    <2> QED  BY <2>4, <2>5
  <1>6. CASE Truncate
    <2>1. content' \in Lists /\ mtime' \in 1 .. MaxTime /\ exists' \in BOOLEAN
          BY <1>6, WriteTypeOK DEF Truncate
    <2>2. edits' \in 0 .. MaxEdits  BY <1>6 DEF Truncate, Begin, DataTypeOK
    <2>3. DataTypeOK'  BY <1>6, <2>1, <2>2 DEF Truncate, DataTypeOK
    <2>4. FlagTypeOK'  BY <1>6, <2>1, WriteHides DEF Truncate, FlagTypeOK
    <2> QED  BY <2>3, <2>4
  <1>7. CASE RenameAway
    <2>1. edits' \in 0 .. MaxEdits  BY <1>7 DEF RenameAway, Begin, DataTypeOK
    <2>2. DataTypeOK'  BY <1>7, <2>1 DEF RenameAway, DataTypeOK
    <2>3. FlagTypeOK'  BY <1>7 DEF RenameAway, FlagTypeOK
    <2> QED  BY <2>2, <2>3
  <1>8. CASE Finish
    <2>1. PICK list \in Lists : Write(list)  BY <1>8 DEF Finish
    <2>2. content' \in Lists /\ mtime' \in 1 .. MaxTime /\ exists' \in BOOLEAN
          BY <2>1, WriteTypeOK
    <2>3. DataTypeOK'  BY <1>8, <2>2 DEF Finish, DataTypeOK
    <2>4. FlagTypeOK'  BY <1>8, <2>2, <2>1, WriteHides DEF Finish, FlagTypeOK
    <2> QED  BY <2>3, <2>4
  <1>9. CASE Tick
    <2>1. DataTypeOK'  BY <1>9 DEF Tick, DataTypeOK
    <2>2. FlagTypeOK'  BY <1>9 DEF Tick, FlagTypeOK
    <2> QED  BY <2>1, <2>2
  <1>10. CASE UNCHANGED vars
         BY <1>10 DEF vars, DataTypeOK, FlagTypeOK
  <1> QED  BY <1>1, <1>2, <1>3, <1>4, <1>5, <1>6, <1>7, <1>8, <1>9, <1>10 DEF Next, Manager

\* The variables always have their types, for any lists and bounds.
THEOREM TypeCorrect == ASSUME Assumptions PROVE Spec => []TypeOK
  <1>1. Init => TypeOK  BY InitTypeOK
  <1>2. TypeOK /\ [Next]_vars => TypeOK'  BY NextTypeOK
  <1> QED  BY <1>1, <1>2, PTL DEF Spec

-----------------------------------------------------------------------------
\* A list that is out of date has not been read since a hidden write; and a time stamp is
\* never ahead of the file, so that a write makes them differ unless it falls in the second
\* of the one that was seen.
Stamped ==
  /\ phase = "stamp" => allowed = content \/ hidden
  /\ timeStamp <= mtime /\ mtime <= clock
  /\ NoMissedChange

\* A write shows in the modification time or is hidden.
LEMMA WriteShows ==
  ASSUME TypeOK, Stamped, NEW list, Write(list), UNCHANGED <<managerVars, clock>>
  PROVE  Stamped'
  <1> USE DEF managerVars
  <1>1. mtime' = clock /\ timeStamp <= mtime /\ mtime <= clock
        BY DEF Stamped, Write
  <1>2. phase' = "stamp" => hidden'
        BY DEF Write
  <1>3. phase' = "idle" /\ timeStamp' = mtime' => hidden'
    <2> SUFFICES ASSUME phase = "idle", timeStamp = clock PROVE hidden'
        BY <1>1
    <2>1. timeStamp = mtime /\ clock = mtime
          BY <1>1 DEF TypeOK, DataTypeOK
    <2> QED  BY <2>1 DEF Write
  <1>4. timeStamp' <= mtime' /\ mtime' <= clock'
        BY <1>1 DEF TypeOK, DataTypeOK
  <1> QED  BY <1>2, <1>3, <1>4 DEF Stamped, NoMissedChange

\* Every step preserves it.
LEMMA StampedNext ==
  ASSUME Assumptions, TypeOK, Stamped, [Next]_vars
  PROVE  Stamped'
  <1> USE DEF managerVars, fileVars
  <1>1. CASE LoadFirst
        BY <1>1 DEF LoadFirst, Stamped, NoMissedChange
  <1>2. CASE StampFirst
        BY <1>2 DEF StampFirst, Stamped, NoMissedChange, LastModified, TypeOK, DataTypeOK
  <1>3. CASE SeeChange
    <2>1. timeStamp' <= mtime'
          BY <1>3, LastModifiedType DEF SeeChange, TypeOK
    <2> QED  BY <1>3, <2>1 DEF SeeChange, Stamped, NoMissedChange
  <1>4. CASE Reload
        BY <1>4 DEF Reload, Stamped, NoMissedChange
  <1>5. CASE Append
        BY <1>5, WriteShows DEF Append
  <1>6. CASE Truncate
        BY <1>6, WriteShows DEF Truncate
  <1>7. CASE RenameAway
        BY <1>7 DEF RenameAway, Stamped, NoMissedChange
  <1>8. CASE Finish
        BY <1>8, WriteShows DEF Finish
  <1>9. CASE Tick
        BY <1>9 DEF Tick, Stamped, NoMissedChange, TypeOK, DataTypeOK
  <1>10. CASE UNCHANGED vars
         BY <1>10 DEF vars, Stamped, NoMissedChange
  <1> QED  BY <1>1, <1>2, <1>3, <1>4, <1>5, <1>6, <1>7, <1>8, <1>9, <1>10 DEF Next, Manager

\* Whenever the watcher is content with its time stamp, the list in use is the one in the file,
\* however and whenever it is edited, also between the two steps of the constructor or while
\* it is renamed away, unless a write was hidden from the time stamp.
THEOREM NothingMissed == ASSUME Assumptions PROVE Spec => []NoMissedChange
  <1>1. Init => Stamped
        BY DEF Init, Stamped, NoMissedChange
  <1>2. TypeOK /\ Stamped /\ [Next]_vars => Stamped'
        BY StampedNext
  <1>3. Stamped => NoMissedChange
        BY DEF Stamped
  <1> QED  BY <1>1, <1>2, <1>3, TypeCorrect, PTL DEF Spec
=============================================================================
