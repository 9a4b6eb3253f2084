------------------------------- MODULE MutualTls -------------------------------
(***************************************************************************)
(* A Java process of the demo: the handshakes of SpiffeProvider, whose         *)
(* ACLService, ACLSpiffeService, asks ACLManager (AclManager) about the peer.  *)
(* ACLManager is a singleton in a static field, so that the first handshake    *)
(* to ask runs its constructor, and those that ask meanwhile wait for it.      *)
(***************************************************************************)
EXTENDS Integers

CONSTANTS Handshakes, CAs, NoCa, Ids, NoId, MaxUpdates,
          Editors, MaxTime, MaxEdits

VARIABLES phase, timeStamp, exists, content, mtime, editing, clock, edits, hidden,
          allowed,  \* allowedSpiffeIds, the answers of the ACLService
          answers, svid, bundle, step, role, todo, key, chain, peerCa, peerId,
          current, since, seenCas, seenIds,
          named     \* history: the IDs a handshake may trust, those named by the file since it
                    \* began, and those of a list that was out of date by then

\* A list is the set of the IDs in it.
Acl == INSTANCE AclManager WITH Lists <- SUBSET Ids, EmptyList <- {}
Tls == INSTANCE SpiffeProvider

ASSUME PartsAssumption == Acl!Assumptions /\ Tls!Assumptions

\* The variables of each part without allowed, which they share, and seenIds.
fileVars == <<exists, content, mtime, editing, edits>>
aclVars  == <<phase, timeStamp, fileVars, clock, hidden>>
tlsVars  == <<answers, svid, bundle, step, role, todo, key, chain, peerCa, peerId, current,
              since, seenCas>>
vars     == <<aclVars, allowed, tlsVars, seenIds, named>>

Init ==
  /\ Acl!Init /\ Tls!Init
  /\ named = [h \in Handshakes |-> {}]

-----------------------------------------------------------------------------
(* The provider                                                              *)

Begin(h) ==
  LET upToDate == phase = "load" \/ (phase = "idle" /\ exists /\ timeStamp = mtime /\ ~hidden)
  IN  /\ Tls!Begin(h)
      /\ named' = [named EXCEPT ![h] = content \union IF upToDate THEN {} ELSE allowed]
      /\ UNCHANGED aclVars

Update == (Tls!Update \/ Tls!UpdateFails) /\ UNCHANGED <<aclVars, named>>

\* A handshake goes on.  For isAllowed() the constructor must have returned; after one that
\* threw, the class cannot be used: the handshake fails, as with an empty list.
Handshake(h) ==
  /\ \/ Tls!KeyManager(h) \/ Tls!Validate(h)
     \/ phase \notin {"load", "stamp"} /\ Tls!CheckSpiffeId(h)
  /\ UNCHANGED <<aclVars, named>>

-----------------------------------------------------------------------------
(* ACLManager and its file                                                   *)

\* What the handshakes have seen, after a step that may have changed the list.
Learn ==
  /\ seenIds' = IF allowed' = allowed THEN seenIds
                ELSE [h \in Handshakes |-> seenIds[h] \union allowed']
  /\ UNCHANGED <<tlsVars, named>>

\* Defect: the constructor does not return.
ConstructForEver == Acl!LoadFirst /\ Learn

\* getInstance() of the first handshake that asks: one of these or another of the process.
Construct == (Acl!LoadFirst \/ Acl!StampFirst) /\ Learn

Watch == (Acl!SeeChange \/ Acl!Reload) /\ Learn

Edit ==
  /\ Acl!Append \/ Acl!Truncate \/ Acl!RenameAway \/ Acl!Finish
  /\ named' = [h \in Handshakes |-> named[h] \union content']
  /\ UNCHANGED <<tlsVars, seenIds>>

Tick == Acl!Tick /\ UNCHANGED <<tlsVars, seenIds, named>>

-----------------------------------------------------------------------------
Next ==
  \/ \E h \in Handshakes : Begin(h) \/ Handshake(h)
  \/ Update \/ Construct \/ Watch \/ Edit \/ Tick

Spec == Init /\ [][Next]_vars

\* The threads of the handshakes go on, also in the constructor; the timer and whoever
\* edits the file do (AclManager).
Fairness ==
  /\ \A h \in Handshakes : WF_vars(Handshake(h))
  /\ WF_vars(Construct /\ (phase = "load" => \E h \in Handshakes : step[h] = "acl"))
  /\ WF_vars(Watch) /\ WF_vars(Tick)
  /\ WF_vars(Edit /\ edits' = edits)

FairSpec == Spec /\ Fairness

-----------------------------------------------------------------------------
(* Properties *)

TypeOK ==
  /\ Acl!TypeOK /\ Tls!TypeOK
  /\ named \in [Handshakes -> SUBSET Ids]

\* A list that is out of date is taken for the current one only after a write that the time
\* stamp hides (AclManager), although the file may be edited at any time, also while the
\* first handshake makes ACLManager load it.
NoMissedChange == Acl!NoMissedChange

\* What a handshake presents is neither null nor superseded (SpiffeProvider).
IdentityPresented == Tls!IdentityPresented

\* A peer is accepted only if its CA and ID were in force during the handshake
\* (SpiffeProvider).
PeerTrusted == Tls!PeerTrusted

\* An ID that was removed from the file, and the removal noticed, before a handshake began is
\* of no use in it, whatever editing and reloading goes on meanwhile.
RemovedIdRefused ==
  \A h \in Handshakes : step[h] = "done" => peerId[h] \in named[h]

\* Every handshake comes to an end, also those that wait for one that loads the list.
HandshakesEnd ==
  \A h \in Handshakes : step[h] # "idle" ~> step[h] \in {"done", "failed"}

\* A list that was loaded follows the file (AclManager).
Followed == <>[](phase = "load") \/ Acl!Followed
=============================================================================
