--------------------------- MODULE RegistrationProof ---------------------------
(***************************************************************************)
(* Theorems about Registration, for any file, server and number of runs.      *)
(***************************************************************************)
EXTENDS Registration, SequenceTheorems, TLAPS

\* The entry of this run that the loop is at, as the server stores it.
Here == [entry |-> entries[index], run |-> runs]

\* The entries before it.
Before == {entries[k] : k \in 1 .. index - 1}

\* Where the tool is, what it has; no record is of a later run.
Position ==
  /\ pc = "start" => index = 1 /\ entries = <<>> /\ entityID = NoId /\ Mine = {}
  /\ pc \in {"post", "get"} => index <= Len(entries)
  /\ pc = "ok" => index > Len(entries)
  /\ pc \notin {"post", "get"} => reply = NoReply
  /\ \A i \in 1 .. Len(store) : store[i].run <= runs

\* Until the server has answered, the entry that the loop is at is not stored.
NotYet == pc = "loop" \/ (pc = "post" /\ reply = NoReply) => Mine \subseteq Before

\* An ID is that of the entry the loop is at, and what is found by it is that entry.
Answered ==
  /\ pc = "post" /\ reply.kind = "id" => reply.id \in 1 .. Len(store) /\ store[reply.id] = Here
  /\ pc = "post" => reply.kind # "entry"
  /\ pc = "get" /\ entityID # NoId => store[entityID] = Here
  /\ pc = "get" => reply.kind # "id"
  /\ pc = "get" /\ reply.kind = "entry" => entityID # NoId /\ reply.entry = entries[index]

\* What was compared is registered, and nothing beyond the entry the loop is at.
Prefix ==
  /\ \A k \in 1 .. index - 1 : entries[k] \notin Empty => entries[k] \in Mine
  /\ Mine \subseteq {entries[k] : k \in 1 .. Len(entries) \intersect 1 .. index}

Inv == TypeOK /\ Position /\ NotYet /\ Answered /\ Prefix /\ OneCopyPerRun

-----------------------------------------------------------------------------
(* What the runs have stored                                                 *)

\* A step that leaves server and run alone leaves it alone.
LEMMA MineStays ==
  ASSUME UNCHANGED <<store, runs>>
  PROVE  Mine' = Mine
  BY DEF Mine

Records == [entry : Entries, run : 1 .. MaxRuns]

\* What the server has stored are records.
LEMMA StoredTypes ==
  ASSUME TypeOK, NEW i \in 1 .. Len(store)
  PROVE  store[i].entry \in Entries /\ store[i].run \in 1 .. MaxRuns
  <1>1. store \in Seq(Records)
        BY DEF TypeOK, Records
  <1>2. store[i] \in Records
        BY <1>1, ElementOfSeq
  <1> QED  BY <1>2 DEF Records

\* An entry that is stored belongs to the run.
LEMMA MineGrows ==
  ASSUME TypeOK, NEW e \in Entries, UNCHANGED runs,
         store' = Append(store, [entry |-> e, run |-> runs])
  PROVE  Mine' = Mine \union {e}
  <1>1. /\ Len(store') = Len(store) + 1 /\ Len(store) \in Nat
        /\ \A i \in 1 .. Len(store) : store'[i] = store[i]
        /\ store'[Len(store) + 1] = [entry |-> e, run |-> runs]
        BY DEF TypeOK
  <1>2. 1 .. Len(store') = 1 .. Len(store) \union {Len(store) + 1}
        BY <1>1
  <1>3. ASSUME NEW d
        PROVE  d \in Mine' <=> d \in Mine \/ d = e
    <2>1. d \in Mine' <=> \E i \in 1 .. Len(store') : store'[i].run = runs /\ store'[i].entry = d
          BY DEF Mine
    <2> QED  BY <1>1, <1>2, <2>1 DEF Mine
  <1> QED  BY <1>3

\* The entries of a file are different.
LEMMA Different ==
  ASSUME TypeOK, index <= Len(entries)
  PROVE  entries[index] \in Entries /\ entries[index] \notin Before
  <1>1. entries \in Seq(Entries) /\ index \in 1 .. Len(entries)
        BY FilesAssumption DEF TypeOK
  <1>2. \A j, k \in 1 .. Len(entries) : entries[j] = entries[k] => j = k
        BY FilesAssumption DEF TypeOK
  <1> QED  BY <1>1, <1>2 DEF Before

-----------------------------------------------------------------------------
(* The invariant                                                             *)

LEMMA InitInv == Init => Inv
  <1> SUFFICES ASSUME Init PROVE Inv
      OBVIOUS
  <1>1. Mine = {}
        BY DEF Init, Mine
  <1> QED  BY <1>1, BoundsAssumption DEF Init, Inv, TypeOK, Position, NotYet, Answered, Prefix,
                       OneCopyPerRun, Replies, NoReply, NoId, Ends

LEMMA StepType == TypeOK /\ Answered /\ Position /\ [Next]_vars => TypeOK'
  <1> SUFFICES ASSUME TypeOK, Answered, Position, [Next]_vars PROVE TypeOK'
      OBVIOUS
  <1> USE DEF TypeOK, Ends, NoId
  <1>1. CASE Load  BY <1>1, FilesAssumption DEF Load, Position
  <1>2. CASE Loop  BY <1>2 DEF Loop
  <1>3. CASE Created
        BY <1>3 DEF Created, Answered, Replies, NoReply, Error, Nil, Text, Lost
  <1>4. CASE Validated
        BY <1>4 DEF Validated, Position, Replies
  <1>5. CASE Serve
    <2>1. entries[index] \in Entries
          BY <1>5, Different DEF Serve, Position
    <2>2. PICK r \in Records : store' = store \/ store' = Append(store, r)
      <3>1. [entry |-> entries[index], run |-> runs] \in Records
            BY <2>1 DEF Records
      <3> QED  BY <1>5, <3>1 DEF Serve
    <2>3. store \in Seq(Records)
          BY DEF Records
    <2>4. store' \in Seq(Records) /\ Len(store') >= Len(store)
      <3> HIDE DEF TypeOK
      <3> QED  BY <2>2, <2>3, AppendProperties
    <2>5. reply' \in Replies /\ faults' \in 0 .. MaxFaults
          BY <1>5, <2>4, BoundsAssumption DEF Serve, Faulty, Replies, IdOf
    <2> QED  BY <1>5, <2>4, <2>5 DEF Serve, Records
  <1>6. CASE Find
    <2>1. entityID # NoId => store[entityID].entry \in Entries
          BY StoredTypes
    <2>2. reply' \in Replies
          BY <1>6, <2>1 DEF Find, Replies, Found
    <2>3. faults' \in 0 .. MaxFaults
          BY <1>6, BoundsAssumption DEF Find, Faulty
    <2> QED  BY <1>6, <2>2, <2>3 DEF Find
  <1>7. CASE Kill  BY <1>7, BoundsAssumption DEF Kill, Faulty, Replies
  <1>8. CASE RunAgain  BY <1>8, BoundsAssumption DEF RunAgain
  <1>9. CASE UNCHANGED vars  BY <1>9 DEF vars
  <1> QED  BY <1>1, <1>2, <1>3, <1>4, <1>5, <1>6, <1>7, <1>8, <1>9 DEF Next, Tool, Server

LEMMA StepInv == Inv /\ [Next]_vars => Inv'
  <1> SUFFICES ASSUME Inv, [Next]_vars PROVE Inv'
      OBVIOUS
  <1>1. TypeOK'
        BY StepType DEF Inv
  <1>2. /\ index \in Nat /\ runs \in Nat /\ Len(store) \in Nat /\ Len(entries) \in Nat
        /\ index \in 1 .. Len(entries) + 1 /\ entityID \in 0 .. Len(store)
        BY BoundsAssumption, FilesAssumption DEF Inv, TypeOK
  <1> USE DEF Inv
  \* Without a request and a new run only the position changes.
  <1>3. CASE Load \/ Loop \/ Kill \/ UNCHANGED vars
    <2>1. UNCHANGED <<store, runs>> /\ Mine' = Mine
          BY <1>3, MineStays DEF Load, Loop, Kill, vars
    <2>2. Position'
          BY <1>2, <1>3, <2>1 DEF Position, Load, Loop, Kill, vars, Ends, NoReply
    <2>3. NotYet'
          BY <1>2, <1>3, <2>1 DEF Position, NotYet, Before, Load, Loop, Kill, vars, Ends
    <2>4. Answered'
          BY <1>3, <2>1 DEF Position, Answered, Here, Load, Loop, Kill, vars, Ends, NoReply
    <2>5. Prefix'
      <3>1. CASE Load
        <4>1. Mine' = {} /\ index' = 1
              BY <2>1, <3>1 DEF Load, Position
        <4> QED  BY <4>1 DEF Prefix
      <3>2. CASE UNCHANGED <<entries, index>>
            BY <2>1, <3>2 DEF Prefix
      <3>3. Load \/ UNCHANGED <<entries, index>>
            BY <1>3 DEF Loop, Kill, vars
      <3> QED  BY <3>1, <3>2, <3>3
    <2>6. OneCopyPerRun'
          BY <2>1 DEF OneCopyPerRun
    <2> QED  BY <1>1, <2>2, <2>3, <2>4, <2>5, <2>6
  <1>4. CASE Created
    <2>1. UNCHANGED <<store, runs, entries, index>> /\ Mine' = Mine
          BY <1>4, MineStays DEF Created
    <2>2. Position'
          BY <1>2, <1>4, <2>1 DEF Position, Created
    <2>3. NotYet'
          BY <1>4, <2>1 DEF NotYet, Created
    <2>4. Answered'
          BY <1>4, <2>1 DEF Answered, Here, Created, TypeOK, Replies, NoReply, Text, Lost, Nil, Error
    <2>5. Prefix' /\ OneCopyPerRun'
          BY <2>1 DEF Prefix, OneCopyPerRun
    <2> QED  BY <1>1, <2>2, <2>3, <2>4, <2>5
  <1>5. CASE Validated
    <2>1. UNCHANGED <<store, runs, entries, entityID>> /\ Mine' = Mine
          BY <1>5, MineStays DEF Validated
    <2>2. Position'
          BY <1>2, <1>5, <2>1 DEF Position, Validated
    <2>3. Answered'
          BY <1>5, <2>1 DEF Answered, Validated, NoReply
    \* What was compared is what this run has stored.
    <2>4. index' = index + 1 /\ entries[index] \notin Empty => entries[index] \in Mine
      <3> SUFFICES ASSUME index' = index + 1, entries[index] \notin Empty
                   PROVE  entries[index] \in Mine
          OBVIOUS
      <3>1. reply \notin {Text, Lost, NoReply} /\ Fetched = entries[index]
            BY <1>2, <1>5 DEF Validated
      <3>2. reply.kind = "entry"
            BY <1>5, <3>1 DEF TypeOK, Replies, Answered, Validated, Fetched, NoReply, Text, Lost,
                              Nil, Error, Empty
      <3>3. entityID # NoId /\ store[entityID] = Here
            BY <1>5, <3>2 DEF Answered, Validated
      <3> QED  BY <1>2, <3>3 DEF Here, Mine, NoId
    <2>5. Before' \subseteq Before \union {entries[index]} /\ Before \subseteq Before'
      <3>1. CASE index' = index
            BY <2>1, <3>1 DEF Before
      <3>2. CASE index' = index + 1
        <4>1. \A k : k \in 1 .. index' - 1 <=> k \in 1 .. index - 1 \/ k = index
              BY <1>2, <3>2
        <4> QED  BY <2>1, <4>1 DEF Before
      <3>3. index' = index \/ index' = index + 1
            BY <1>5 DEF Validated
      <3> QED  BY <3>1, <3>2, <3>3
    <2>6. NotYet' /\ Prefix'
          BY <1>2, <1>5, <2>1, <2>4 DEF NotYet, Prefix, Before, Validated, Position
    <2>7. OneCopyPerRun'
          BY <2>1 DEF OneCopyPerRun
    <2> QED  BY <1>1, <2>2, <2>3, <2>6, <2>7
  <1>6. CASE Serve
    <2>1. UNCHANGED <<runs, entries, index, entityID, pc>> /\ pc = "post"
          BY <1>6 DEF Serve
    <2>2. entries[index] \in Entries /\ entries[index] \notin Before /\ Mine \subseteq Before
          BY <1>6, Different DEF Serve, Position, NotYet
    <2>3. CASE store' = Append(store, Here) /\ reply' \in {IdOf(Len(store')), Lost}
      <3>1. Mine' = Mine \union {entries[index]}
            BY <2>1, <2>2, <2>3, MineGrows DEF Here
      <3>2. /\ Len(store') = Len(store) + 1 /\ store'[Len(store) + 1] = Here
            /\ \A i \in 1 .. Len(store) : store'[i] = store[i]
            BY <2>3 DEF TypeOK
      <3>3. Here \in Records /\ \A i \in 1 .. Len(store) : store[i] # Here
        <4>1. Here \in Records
              BY <2>2 DEF Records, Here, TypeOK
        <4>2. ASSUME NEW i \in 1 .. Len(store), store[i] = Here PROVE FALSE
          <5>1. store[i].entry = entries[index] /\ store[i].run = runs
                BY <4>2 DEF Here
          <5>2. entries[index] \in Mine
                BY <5>1 DEF Mine
          <5> QED  BY <2>2, <5>2
        <4> QED  BY <4>1, <4>2
      <3>4. Position'
            BY <1>2, <2>1, <3>2 DEF Position, Here
      <3>5. NotYet'
            BY <2>1, <2>3 DEF NotYet, IdOf, Lost, NoReply
      <3>6. Answered'
            BY <1>2, <2>1, <2>3, <3>2 DEF Answered, Here, IdOf, Lost
      <3>7. Prefix'
            BY <1>2, <2>1, <2>2, <3>1 DEF Prefix, Position
      <3>8. OneCopyPerRun'
            BY <1>2, <3>2, <3>3 DEF OneCopyPerRun
      <3> QED  BY <1>1, <3>4, <3>5, <3>6, <3>7, <3>8
    <2>4. CASE store' = store /\ reply' \in {Error, Nil, Text, Lost}
      <3>1. Mine' = Mine
            BY <2>1, <2>4, MineStays
      <3>2. Position' /\ Prefix' /\ OneCopyPerRun'
            BY <2>1, <2>4, <3>1 DEF Position, Prefix, OneCopyPerRun
      <3>3. NotYet' /\ Answered'
            BY <2>1, <2>4 DEF NotYet, Answered, Here, Error, Nil, Text, Lost, NoReply
      <3> QED  BY <1>1, <3>2, <3>3
    <2> QED  BY <1>6, <2>3, <2>4 DEF Serve, Here
  <1>7. CASE Find
    <2>1. UNCHANGED <<store, runs, entries, index, entityID, pc>> /\ pc = "get" /\ Mine' = Mine
          BY <1>7, MineStays DEF Find
    <2>2. Position' /\ NotYet' /\ Prefix' /\ OneCopyPerRun'
          BY <2>1 DEF Position, NotYet, Prefix, OneCopyPerRun
    <2>3. Answered'
          BY <1>7, <2>1 DEF Answered, Find, Found, Error, Nil, Text, Lost, Here
    <2> QED  BY <1>1, <2>2, <2>3
  <1>8. CASE RunAgain
    <2>1. store' = store /\ runs' = runs + 1 /\ index' = 1 /\ entries' = <<>> /\ pc' = "start"
          BY <1>8 DEF RunAgain
    <2>2. Mine' = {}
          BY <1>2, <2>1 DEF Mine, Position
    <2>3. entityID' = NoId /\ reply' = NoReply
          BY <1>8 DEF Position, RunAgain, Ends
    <2>4. \A i \in 1 .. Len(store) : store[i].run <= runs + 1
          BY <1>2, StoredTypes, BoundsAssumption DEF Position
    <2>5. Position' /\ NotYet' /\ Answered'
          BY <2>1, <2>2, <2>3, <2>4 DEF Position, NotYet, Answered
    <2>6. Prefix' /\ OneCopyPerRun'
          BY <2>1, <2>2 DEF Prefix, OneCopyPerRun
    <2> QED  BY <1>1, <2>5, <2>6
  <1> QED  BY <1>3, <1>4, <1>5, <1>6, <1>7, <1>8 DEF Next, Tool, Server

-----------------------------------------------------------------------------
(* The theorems                                                              *)

\* Every variable keeps its type: the loop never leaves the entries, an ID is never one that
\* the server has not given.
THEOREM TypeCorrect == Spec => []TypeOK
  <1>1. Inv => TypeOK
        BY DEF Inv
  <1> QED  BY InitInv, StepInv, <1>1, PTL DEF Spec

\* What the tool calls OK is registered, whatever the server answers and whatever is lost, for
\* any file; and wherever a run is stopped, at most one entry more.
THEOREM OkIsTrue == Spec => []OkMeansRegistered
  <1>1. Inv => OkMeansRegistered
    <2> SUFFICES ASSUME Inv, NEW k \in CalledOk, entries[k] \notin Empty
                 PROVE  entries[k] \in Mine
        BY DEF OkMeansRegistered, Inv, Prefix
    <2>1. index \in Nat /\ Len(entries) \in Nat /\ (pc = "ok" => index > Len(entries))
          BY FilesAssumption DEF Inv, TypeOK, Position
    <2>2. k \in 1 .. index - 1
          BY <2>1 DEF CalledOk
    <2> QED  BY <2>2 DEF Inv, Prefix
  <1> QED  BY InitInv, StepInv, <1>1, PTL DEF Spec

\* No run stores an entry twice, provided that no file names one twice.
THEOREM NoCopies == Spec => []OneCopyPerRun
  <1>1. Inv => OneCopyPerRun
        BY DEF Inv
  <1> QED  BY InitInv, StepInv, <1>1, PTL DEF Spec
=============================================================================
