------------------------------ MODULE Registration ------------------------------
(***************************************************************************)
(* The registration tool of rosemary (registration.go): it creates the        *)
(* entries of registration.json one by one at the SPIRE server, over HTTP, and *)
(* fetches each of them to compare it.  It looks at what it can decode of an   *)
(* answer, never at its status.  Whoever runs it runs it again if it failed.   *)
(***************************************************************************)
EXTENDS Naturals, Sequences

CONSTANTS Entries,      \* what the file can name
          Blank,        \* an entry without fields: "{}", or one of which no field has its type
          Null,         \* JSON's null, which Go decodes as nil: as the file, or an entry of it
          Files,        \* lists of entries, none of them twice
          Missing,      \* no file
          Broken,       \* a file that is not JSON
          MaxFaults,    \* bound: failures of server and network, interrupts
          MaxRuns       \* bound: runs of the tool

ASSUME EntriesAssumption == {Blank, Null} \subseteq Entries /\ Blank # Null
ASSUME FilesAssumption   ==
  /\ Files \subseteq Seq(Entries) /\ {Missing, Broken, Null} \intersect Files = {}
  /\ Missing # Broken /\ Null \notin {Missing, Broken}
  /\ \A f \in Files : \A j, k \in 1 .. Len(f) : f[j] = f[k] => j = k
ASSUME BoundsAssumption  == MaxFaults \in Nat /\ MaxRuns \in Nat \ {0}

VARIABLES
  file,      \* the entries in it
  entries,   \* entries.Entries
  index,     \* of the entry the loop is at
  pc,        \* what the tool does, or how it ended
  reply,     \* the answer to its request
  entityID,
  store,     \* external: what the server has stored, by ID; and in which run
  runs,      \* runs begun
  faults     \* faults so far

vars == <<file, entries, index, pc, reply, entityID, store, runs, faults>>

Ends == {"ok", "mismatch", "panic", "killed"}

\* Answers: an ID or a stored entry, JSON that has none of the fields, null, and other text.
NoReply  == [kind |-> "none"]
Error    == [kind |-> "error"]
Nil      == [kind |-> "null"]
Text     == [kind |-> "text"]
Lost     == [kind |-> "lost"]
IdOf(i)  == [kind |-> "id", id |-> i]
Found(e) == [kind |-> "entry", entry |-> e]

\* Entries that no server stores.
Empty == {Blank, Null}

\* The ID of an answer that has none is the empty string.
NoId == 0

Init ==
  /\ file \in Files \union {Missing, Broken, Null}
  /\ entries = <<>> /\ index = 1 /\ pc = "start"
  /\ reply = NoReply /\ entityID = NoId
  /\ store = <<>> /\ runs = 1 /\ faults = 0

-----------------------------------------------------------------------------
(* The server and the network, external                                      *)

Faulty == faults < MaxFaults /\ faults' = faults + 1

\* POST /entry: the entry is stored, and its ID may be lost on the way back; one without
\* fields is refused; and any may fail.
Serve ==
  /\ pc = "post" /\ reply = NoReply
  /\ \/ /\ entries[index] \notin Empty
        /\ store' = Append(store, [entry |-> entries[index], run |-> runs])
        /\ \/ reply' = IdOf(Len(store')) /\ UNCHANGED faults
           \/ reply' = Lost /\ Faulty
     \/ entries[index] \in Empty /\ reply' \in {Error, Text} /\ UNCHANGED <<store, faults>>
     \/ reply' \in {Error, Nil, Text, Lost} /\ Faulty /\ UNCHANGED store
  /\ UNCHANGED <<file, entries, index, pc, entityID, runs>>

\* GET /entry/ID.
Find ==
  /\ pc = "get" /\ reply = NoReply
  /\ \/ entityID # NoId /\ reply' = Found(store[entityID].entry) /\ UNCHANGED faults
     \/ entityID = NoId /\ reply' \in {Error, Text} /\ UNCHANGED faults
     \/ reply' \in {Error, Nil, Text, Lost} /\ Faulty
  /\ UNCHANGED <<file, entries, index, pc, entityID, store, runs>>

-----------------------------------------------------------------------------
(* The tool                                                                  *)

\* The file is read and decoded: without JSON nothing is, and nobody is told; null makes
\* entries a nil pointer.
Load ==
  /\ pc = "start"
  /\ entries' = IF file \in Files THEN file ELSE <<>>
  /\ pc' = IF file \in {Missing, Null} THEN "panic" ELSE "loop"
  /\ UNCHANGED <<file, index, reply, entityID, store, runs, faults>>

\* The loop over the entries; after the last one, "All OK!".
Loop ==
  /\ pc = "loop"
  /\ pc' = IF index > Len(entries) THEN "ok" ELSE "post"
  /\ UNCHANGED <<file, entries, index, reply, entityID, store, runs, faults>>

\* Defect: a lost answer is waited for.
CreatedLate ==
  /\ pc = "post" /\ reply \notin {NoReply, Lost}
  /\ IF reply \in {Text, Nil}
       THEN pc' = "panic" /\ UNCHANGED entityID
       ELSE pc' = "get" /\ entityID' = IF reply = Error THEN NoId ELSE reply.id
  /\ reply' = NoReply
  /\ UNCHANGED <<file, entries, index, store, runs, faults>>

\* Defect: an answer that cannot be used is asked for again.
CreatedAgain ==
  /\ pc = "post" /\ reply # NoReply
  /\ IF reply \in {Text, Lost, Nil}
       THEN UNCHANGED <<pc, entityID>>
       ELSE pc' = "get" /\ entityID' = IF reply = Error THEN NoId ELSE reply.id
  /\ reply' = NoReply
  /\ UNCHANGED <<file, entries, index, store, runs, faults>>

\* createEntry has its answer: an error of the connection, or text that is no JSON, is one of
\* createEntry; of null the field id cannot be taken, of any other answer it is.
Created ==
  /\ pc = "post" /\ reply # NoReply
  /\ IF reply \in {Text, Lost, Nil}
       THEN pc' = "panic" /\ UNCHANGED entityID
       ELSE pc' = "get" /\ entityID' = IF reply = Error THEN NoId ELSE reply.id
  /\ reply' = NoReply
  /\ UNCHANGED <<file, entries, index, store, runs, faults>>

Fetched == CASE reply = Error -> Blank [] reply = Nil -> Null [] OTHER -> reply.entry

\* Defect: what was fetched is not compared.
ValidatedAlways ==
  /\ pc = "get" /\ reply # NoReply
  /\ IF reply \in {Text, Lost}
       THEN pc' = "panic" /\ UNCHANGED index
       ELSE pc' = "loop" /\ index' = index + 1
  /\ reply' = NoReply
  /\ UNCHANGED <<file, entries, entityID, store, runs, faults>>

\* validateEntry has its answer: the entry that it decodes must be the one created.
Validated ==
  /\ pc = "get" /\ reply # NoReply
  /\ CASE reply \in {Text, Lost} -> pc' = "panic" /\ UNCHANGED index
       [] reply \notin {Text, Lost} /\ Fetched = entries[index] ->
            pc' = "loop" /\ index' = index + 1
       [] OTHER -> pc' = "mismatch" /\ UNCHANGED index
  /\ reply' = NoReply
  /\ UNCHANGED <<file, entries, entityID, store, runs, faults>>

\* Somebody interrupts it.
Kill ==
  /\ pc \notin Ends /\ Faulty
  /\ pc' = "killed" /\ reply' = NoReply
  /\ UNCHANGED <<file, entries, index, entityID, store, runs>>

\* It is run again: the file is there by now, and what was stored remains.
RunAgain ==
  /\ pc \in Ends \ {"ok"} /\ runs < MaxRuns
  /\ runs' = runs + 1
  /\ file' \in IF file = Missing THEN Files ELSE {file}
  /\ entries' = <<>> /\ index' = 1 /\ pc' = "start" /\ entityID' = NoId
  /\ UNCHANGED <<reply, store, faults>>

-----------------------------------------------------------------------------
Tool == Load \/ Loop \/ Created \/ Validated

Server == Serve \/ Find

Next == Tool \/ Server \/ Kill \/ RunAgain

Spec == Init /\ [][Next]_vars

\* The tool goes on, the server answers or the connection breaks, and somebody cares.
Fairness == WF_vars(Tool) /\ WF_vars(Server) /\ WF_vars(RunAgain)

FairSpec == Spec /\ Fairness

-----------------------------------------------------------------------------
(* Properties *)

Replies == {NoReply, Error, Nil, Text, Lost} \union [kind : {"id"}, id : Nat]
             \union [kind : {"entry"}, entry : Entries]

TypeOK ==
  /\ file \in Files \union {Missing, Broken, Null} /\ entries \in Files \union {<<>>}
  /\ index \in 1 .. Len(entries) + 1
  /\ pc \in Ends \union {"start", "loop", "post", "get"}
  /\ reply \in Replies /\ entityID \in 0 .. Len(store)
  /\ store \in Seq([entry : Entries, run : 1 .. MaxRuns])
  /\ runs \in 1 .. MaxRuns /\ faults \in 0 .. MaxFaults

\* The entries that this run has had stored.
Mine == {store[i].entry : i \in {j \in 1 .. Len(store) : store[j].run = runs}}

\* Of the entries it has decoded, those it has called OK: one by one, or all at the end.
CalledOk == 1 .. IF pc = "ok" THEN Len(entries) ELSE index - 1

\* What the tool calls OK is registered, if it has any fields, though no status was looked at;
\* and wherever a run is stopped, the server has at most one entry more of it, the one that it
\* is at.
OkMeansRegistered ==
  /\ \A k \in CalledOk : entries[k] \notin Empty => entries[k] \in Mine
  /\ Mine \subseteq {entries[k] : k \in 1 .. Len(entries) \intersect 1 .. index}

\* A run stores no entry twice, whatever answers it loses: copies come of repeated runs only.
OneCopyPerRun == \A i, j \in 1 .. Len(store) : store[i] = store[j] => i = j

\* If it is run again until it says so, all is OK in the end, unless the file has an entry
\* without fields.
Recovers ==
  (file \in Files /\ \A k \in 1 .. Len(file) : file[k] \notin Empty) ~> pc = "ok"
=============================================================================
