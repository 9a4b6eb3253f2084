-------------------------- MODULE SpiffeProviderProof --------------------------
(***************************************************************************)
(* Theorems about SpiffeProvider for any number of handshakes, CAs, IDs and *)
(* answers of the Workload API.                                             *)
(***************************************************************************)
EXTENDS SpiffeProvider, TLAPS

\* The initial state is of the right types.
LEMMA InitTypeOK == Assumptions /\ Init => TypeOK
BY DEF Assumptions, Init, TypeOK, Steps, Reads

\* Every step preserves the types.
LEMMA NextTypeOK == ASSUME Assumptions, TypeOK, [Next]_vars PROVE TypeOK'
  <1> USE DEF Assumptions, TypeOK, storeVars, historyVars
  <1>1. CASE Update
        BY <1>1 DEF Update, Bundle
  <1>2. CASE UpdateFails
        BY <1>2 DEF UpdateFails
  <1>3. CASE ChangeAcl
        BY <1>3 DEF ChangeAcl
  <1>4. ASSUME NEW h \in Handshakes, Begin(h) PROVE TypeOK'
        BY <1>4 DEF Begin, Steps
  <1>5. ASSUME NEW h \in Handshakes, ChooseAlias(h) PROVE TypeOK'
        BY <1>5 DEF ChooseAlias, Steps
  <1>6. ASSUME NEW h \in Handshakes, GetPrivateKey(h) PROVE TypeOK'
        BY <1>6 DEF GetPrivateKey, Asked, Steps
  <1>7. ASSUME NEW h \in Handshakes, GetCertificateChain(h) PROVE TypeOK'
        BY <1>7 DEF GetCertificateChain, Asked, Steps
  <1>8. ASSUME NEW h \in Handshakes, Validate(h) PROVE TypeOK'
        BY <1>8 DEF Validate, Steps
  <1>9. ASSUME NEW h \in Handshakes, CheckSpiffeId(h) PROVE TypeOK'
        BY <1>9 DEF CheckSpiffeId, AfterPeer, Steps
  <1>10. CASE UNCHANGED vars
         BY <1>10 DEF vars
  <1> QED  BY <1>1, <1>2, <1>3, <1>4, <1>5, <1>6, <1>7, <1>8, <1>9, <1>10
           DEF Next, KeyManager, TrustManager

\* The variables always have their types; spiffeSVID is one of the answers so far.
THEOREM TypeCorrect == ASSUME Assumptions PROVE Spec => []TypeOK
  <1>1. Init => TypeOK  BY InitTypeOK
  <1>2. TypeOK /\ [Next]_vars => TypeOK'  BY NextTypeOK
  <1> QED  BY <1>1, <1>2, PTL DEF Spec

-----------------------------------------------------------------------------
\* An alias is a promise: once one was chosen there is an SVID to read, and nobody takes
\* it away or goes back to an earlier one.
Fresh ==
  \A h \in Handshakes :
    /\ since[h] <= svid
    /\ step[h] = "credentials" => svid > 0
    /\ "key" \notin todo[h]   => key[h] > 0 /\ key[h] >= since[h]
    /\ "chain" \notin todo[h] => chain[h] > 0 /\ chain[h] >= since[h]
    /\ step[h] = "idle" => todo[h] = Reads

LEMMA FreshInit == Init => Fresh
  <1>1. ASSUME Init, NEW h \in Handshakes
        PROVE  since[h] = 0 /\ svid = 0 /\ step[h] = "idle" /\ todo[h] = Reads
        BY <1>1 DEF Init
  <1> SUFFICES ASSUME Init, NEW h \in Handshakes
               PROVE  /\ since[h] <= svid
                      /\ step[h] # "credentials"
                      /\ "key" \in todo[h] /\ "chain" \in todo[h]
                      /\ todo[h] = Reads
      BY DEF Fresh
  <1> QED  BY <1>1 DEF Reads

\* Every step preserves it.
LEMMA FreshNext == ASSUME Assumptions, TypeOK, Fresh, [Next]_vars PROVE Fresh'
  <1> USE DEF Assumptions, TypeOK, Fresh, storeVars, historyVars
  <1>1. CASE Update
    <2>1. svid' > svid /\ svid' > 0
          BY <1>1 DEF Update
    <2> QED  BY <1>1, <2>1 DEF Update
  <1>2. CASE UpdateFails
        BY <1>2 DEF UpdateFails
  <1>3. CASE ChangeAcl
        BY <1>3 DEF ChangeAcl
  <1>4. ASSUME NEW h \in Handshakes, Begin(h) PROVE Fresh'
    <2>1. todo[h] = Reads
          BY <1>4 DEF Begin
    <2> QED  BY <1>4, <2>1 DEF Begin, Reads
  <1>5. ASSUME NEW h \in Handshakes, ChooseAlias(h) PROVE Fresh'
        BY <1>5 DEF ChooseAlias
  <1>6. ASSUME NEW h \in Handshakes, GetPrivateKey(h) PROVE Fresh'
        BY <1>6 DEF GetPrivateKey, Asked
  <1>7. ASSUME NEW h \in Handshakes, GetCertificateChain(h) PROVE Fresh'
        BY <1>7 DEF GetCertificateChain, Asked
  <1>8. ASSUME NEW h \in Handshakes, Validate(h) PROVE Fresh'
        BY <1>8 DEF Validate
  <1>9. ASSUME NEW h \in Handshakes, CheckSpiffeId(h) PROVE Fresh'
        BY <1>9 DEF CheckSpiffeId, AfterPeer
  <1>10. CASE UNCHANGED vars
         BY <1>10 DEF vars
  <1> QED  BY <1>1, <1>2, <1>3, <1>4, <1>5, <1>6, <1>7, <1>8, <1>9, <1>10
           DEF Next, KeyManager, TrustManager

\* However updates and the calls of any number of handshakes interleave, no handshake
\* presents null or an SVID that was superseded when it began.
THEOREM FreshIdentity == ASSUME Assumptions PROVE Spec => []IdentityPresented
  <1>1. TypeOK /\ Fresh /\ [Next]_vars => Fresh'
        BY FreshNext
  <1>2. Fresh => IdentityPresented
        BY DEF Fresh, IdentityPresented
  <1> QED  BY FreshInit, <1>1, <1>2, TypeCorrect, PTL DEF Spec

-----------------------------------------------------------------------------
\* What each handshake has already established of its peer.  A client is given its own
\* credentials after it has checked the server.
Validated(h)  == \/ step[h] \in {"acl", "done"}
                 \/ role[h] = "client" /\ step[h] \in {"alias", "credentials"}
Identified(h) == \/ step[h] = "done"
                 \/ role[h] = "client" /\ step[h] \in {"alias", "credentials"}

\* The bundle is that of the last well-formed answer.  From its beginning on, a
\* handshake's history holds what is in force now; and it holds the CA and the ID of a
\* peer that passed.
Vetted ==
  /\ bundle = current
  /\ \A h \in Handshakes :
       /\ step[h] # "idle" => bundle \subseteq seenCas[h] /\ allowed \subseteq seenIds[h]
       /\ Validated(h) => peerCa[h] \in seenCas[h]
       /\ Identified(h) => peerId[h] \in seenIds[h]

\* Every step preserves it.
LEMMA VettedNext == TypeOK /\ Vetted /\ [Next]_vars => Vetted'
  <1> SUFFICES ASSUME TypeOK, Vetted, [Next]_vars PROVE Vetted'
      OBVIOUS
  <1> USE DEF TypeOK, Vetted, Validated, Identified, storeVars, historyVars
  <1>1. CASE Update
    <2>1. PICK new \in SUBSET CAs :
            /\ bundle' = new /\ current' = new
            /\ seenCas' = [h \in Handshakes |-> seenCas[h] \union new]
          BY <1>1 DEF Update, Bundle
    <2>2. \A h \in Handshakes : seenCas[h] \subseteq seenCas'[h] /\ bundle' \subseteq seenCas'[h]
          BY <2>1
    <2>3. UNCHANGED <<allowed, step, role, peerCa, peerId, seenIds>>
          BY <1>1 DEF Update
    <2> QED  BY <2>1, <2>2, <2>3
  <1>2. CASE UpdateFails
        BY <1>2 DEF UpdateFails
  <1>3. CASE ChangeAcl
        BY <1>3 DEF ChangeAcl
  <1>4. ASSUME NEW h \in Handshakes, Begin(h) PROVE Vetted'
        BY <1>4 DEF Begin
  <1>5. ASSUME NEW h \in Handshakes, ChooseAlias(h) PROVE Vetted'
        BY <1>5 DEF ChooseAlias
  <1>6. ASSUME NEW h \in Handshakes, GetPrivateKey(h) PROVE Vetted'
        BY <1>6 DEF GetPrivateKey, Asked
  <1>7. ASSUME NEW h \in Handshakes, GetCertificateChain(h) PROVE Vetted'
        BY <1>7 DEF GetCertificateChain, Asked
  <1>8. ASSUME NEW h \in Handshakes, Validate(h) PROVE Vetted'
        BY <1>8 DEF Validate
  <1>9. ASSUME NEW h \in Handshakes, CheckSpiffeId(h) PROVE Vetted'
    <2>1. UNCHANGED <<bundle, current, allowed, role, peerCa, peerId, seenCas, seenIds>>
          BY <1>9 DEF CheckSpiffeId, AfterPeer
    <2>2. step[h] = "acl" /\ step'[h] \in {"failed", "done", "alias"}
          BY <1>9 DEF CheckSpiffeId, AfterPeer
    <2>3. step'[h] # "failed" => peerId[h] \in allowed
          BY <1>9 DEF CheckSpiffeId, AfterPeer
    <2>4. \A g \in Handshakes \ {h} : step'[g] = step[g]
          BY <1>9 DEF CheckSpiffeId, AfterPeer
    <2>5. peerCa[h] \in seenCas[h] /\ allowed \subseteq seenIds[h]
          BY <2>2
    <2> QED  BY <2>1, <2>2, <2>3, <2>4, <2>5
  <1>10. CASE UNCHANGED vars
    <2>1. UNCHANGED <<bundle, current, allowed, step, role, peerCa, peerId, seenCas,
                     seenIds>>
          BY <1>10 DEF vars
    <2> QED  BY <2>1
  <1> QED  BY <1>1, <1>2, <1>3, <1>4, <1>5, <1>6, <1>7, <1>8, <1>9, <1>10
           DEF Next, KeyManager, TrustManager

\* A peer that is accepted was trusted, by CA and by ID, at some time during the handshake,
\* though the two checks read the state at different times.
THEOREM OnlyTrustedPeers == ASSUME Assumptions PROVE Spec => []PeerTrusted
  <1>1. Init => Vetted
        BY DEF Init, Vetted, Validated, Identified
  <1>2. TypeOK /\ Vetted /\ [Next]_vars => Vetted'
        BY VettedNext
  <1>3. Vetted => PeerTrusted
        BY DEF Vetted, Validated, Identified, PeerTrusted
  <1> QED  BY <1>1, <1>2, <1>3, TypeCorrect, PTL DEF Spec
-----------------------------------------------------------------------------
(* The rotation of SVIDs.                                                    *)

\* Nobody is given a key or a chain without asking.
Unread ==
  \A h \in Handshakes :
    /\ "key" \in todo[h]   => key[h] = 0
    /\ "chain" \in todo[h] => chain[h] = 0

LEMMA UnreadNext == ASSUME TypeOK, Unread, [Next]_vars PROVE Unread'
  <1> USE DEF TypeOK, Unread, Reads
  <1>1. CASE UNCHANGED <<todo, key, chain>>
        BY <1>1
  <1>2. ASSUME NEW h \in Handshakes, GetPrivateKey(h) PROVE Unread'
        BY <1>2 DEF GetPrivateKey, Asked
  <1>3. ASSUME NEW h \in Handshakes, GetCertificateChain(h) PROVE Unread'
        BY <1>3 DEF GetCertificateChain, Asked
  <1>4. ASSUME NEW h \in Handshakes,
               Begin(h) \/ ChooseAlias(h) \/ Validate(h) \/ CheckSpiffeId(h)
        PROVE  Unread'
        BY <1>1, <1>4 DEF Begin, ChooseAlias, Validate, CheckSpiffeId
  <1>5. CASE Update \/ UpdateFails \/ ChangeAcl
        BY <1>1, <1>5 DEF Update, UpdateFails, ChangeAcl
  <1>6. CASE UNCHANGED vars
        BY <1>1, <1>6 DEF vars
  <1> QED  BY <1>2, <1>3, <1>4, <1>5, <1>6 DEF Next, KeyManager, TrustManager

\* What the reader <<h, what>> was given.
Given == [r \in Handshakes \X Reads |-> IF r[2] = "key" THEN key[r[1]] ELSE chain[r[1]]]

\* A read of the key, and one of the chain, is a reader being given the SVID in force.
LEMMA KeyGiven ==
  ASSUME TypeOK, Fresh, Unread, NEW h \in Handshakes, GetPrivateKey(h)
  PROVE  Svids!Give(<<h, "key">>)
  <1>1. svid # 0 /\ key[h] = 0 /\ key' = [key EXCEPT ![h] = svid]
        BY DEF GetPrivateKey, Asked, Fresh, Unread, TypeOK
  <1>2. chain' = chain /\ answers' = answers /\ svid' = svid
        BY DEF GetPrivateKey, storeVars
  <1>3. <<h, "key">> \in Handshakes \X Reads /\ Given[<<h, "key">>] = 0
        BY <1>1 DEF Given, Reads
  <1>4. Given' = [Given EXCEPT ![<<h, "key">>] = svid]
    <2>1. ASSUME NEW g \in Handshakes, NEW what \in Reads
          PROVE  Given'[<<g, what>>] = IF <<g, what>> = <<h, "key">> THEN svid
                                       ELSE Given[<<g, what>>]
          BY <1>1, <1>2 DEF Given, Reads, TypeOK
    <2>2. ASSUME NEW r \in Handshakes \X Reads
          PROVE  Given'[r] = IF r = <<h, "key">> THEN svid ELSE Given[r]
      <3>1. PICK g \in Handshakes, what \in Reads : r = <<g, what>>
            OBVIOUS
      <3> QED  BY <2>1, <3>1
    <2>3. Given' = [r \in Handshakes \X Reads |-> Given'[r]]
          BY Zenon DEF Given
    <2>4. [Given EXCEPT ![<<h, "key">>] = svid]
            = [r \in Handshakes \X Reads |-> IF r = <<h, "key">> THEN svid ELSE Given[r]]
          BY DEF Given
    <2> QED  BY <2>2, <2>3, <2>4
  <1> QED  BY <1>1, <1>2, <1>3, <1>4 DEF Svids!Give, Given

LEMMA ChainGiven ==
  ASSUME TypeOK, Fresh, Unread, NEW h \in Handshakes, GetCertificateChain(h)
  PROVE  Svids!Give(<<h, "chain">>)
  <1>1. svid # 0 /\ chain[h] = 0 /\ chain' = [chain EXCEPT ![h] = svid]
        BY DEF GetCertificateChain, Asked, Fresh, Unread, TypeOK
  <1>2. key' = key /\ answers' = answers /\ svid' = svid
        BY DEF GetCertificateChain, storeVars
  <1>3. <<h, "chain">> \in Handshakes \X Reads /\ Given[<<h, "chain">>] = 0
        BY <1>1 DEF Given, Reads
  <1>4. Given' = [Given EXCEPT ![<<h, "chain">>] = svid]
    <2>1. ASSUME NEW g \in Handshakes, NEW what \in Reads
          PROVE  Given'[<<g, what>>] = IF <<g, what>> = <<h, "chain">> THEN svid
                                       ELSE Given[<<g, what>>]
          BY <1>1, <1>2 DEF Given, Reads, TypeOK
    <2>2. ASSUME NEW r \in Handshakes \X Reads
          PROVE  Given'[r] = IF r = <<h, "chain">> THEN svid ELSE Given[r]
      <3>1. PICK g \in Handshakes, what \in Reads : r = <<g, what>>
            OBVIOUS
      <3> QED  BY <2>1, <3>1
    <2>3. Given' = [r \in Handshakes \X Reads |-> Given'[r]]
          BY Zenon DEF Given
    <2>4. [Given EXCEPT ![<<h, "chain">>] = svid]
            = [r \in Handshakes \X Reads |-> IF r = <<h, "chain">> THEN svid ELSE Given[r]]
          BY DEF Given
    <2> QED  BY <2>2, <2>3, <2>4
  <1> QED  BY <1>1, <1>2, <1>3, <1>4 DEF Svids!Give, Given

\* Every step is one of Rotation, or none.
LEMMA SvidSteps ==
  ASSUME TypeOK, Fresh, Unread, [Next]_vars PROVE [Svids!Next]_(Svids!vars)
  <1>1. CASE UNCHANGED <<answers, svid, key, chain>>
        BY <1>1 DEF Svids!vars
  <1>2. CASE Update \/ UpdateFails
        BY <1>2 DEF Update, UpdateFails, Svids!Next, Svids!Renew
  <1>3. CASE ChangeAcl
        BY <1>1, <1>3 DEF ChangeAcl, storeVars
  <1>4. ASSUME NEW h \in Handshakes, GetPrivateKey(h) PROVE Svids!Next
    <2>1. <<h, "key">> \in Handshakes \X Reads
          BY DEF Reads
    <2> QED  BY <1>4, <2>1, KeyGiven DEF Svids!Next
  <1>5. ASSUME NEW h \in Handshakes, GetCertificateChain(h) PROVE Svids!Next
    <2>1. <<h, "chain">> \in Handshakes \X Reads
          BY DEF Reads
    <2> QED  BY <1>5, <2>1, ChainGiven DEF Svids!Next
  <1>6. ASSUME NEW h \in Handshakes,
               Begin(h) \/ ChooseAlias(h) \/ Validate(h) \/ CheckSpiffeId(h)
        PROVE  UNCHANGED <<answers, svid, key, chain>>
        BY <1>6 DEF Begin, ChooseAlias, Validate, CheckSpiffeId, storeVars
  <1>7. CASE UNCHANGED vars
        BY <1>1, <1>7 DEF vars, storeVars
  <1> QED  BY <1>1, <1>2, <1>3, <1>4, <1>5, <1>6, <1>7 DEF Next, KeyManager, TrustManager

\* For any number of handshakes the SVID manager and key manager implement Rotation: an
\* answer that is not well-formed changes nothing, no SVID is taken back, and each read of
\* a key or of a chain gets the SVID in force, never null.
THEOREM SvidsRotate == ASSUME Assumptions PROVE Spec => Rotates
  <1>1. Init => Svids!Init /\ Fresh /\ Unread
    <2>1. Init => Svids!Init
          BY DEF Init, Svids!Init, Reads
    <2>2. Init => Fresh
          BY FreshInit
    <2>3. Init => Unread
          BY DEF Init, Unread
    <2> QED  BY <2>1, <2>2, <2>3
  <1>2. TypeOK /\ Fresh /\ [Next]_vars => Fresh'
        BY FreshNext
  <1>3. TypeOK /\ Unread /\ [Next]_vars => Unread'
        BY UnreadNext
  <1>4. TypeOK /\ Fresh /\ Unread /\ [Next]_vars => [Svids!Next]_(Svids!vars)
        BY SvidSteps
  <1> QED  BY <1>1, <1>2, <1>3, <1>4, TypeCorrect, PTL DEF Spec, Rotates, Svids!Spec
=============================================================================
