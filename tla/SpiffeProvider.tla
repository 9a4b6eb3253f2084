---------------------------- MODULE SpiffeProvider ----------------------------
(***************************************************************************)
(* The Java security provider (java-spiffe/spiffe-security-provider).        *)
(* SpiffeSVIDManager holds the SVID that the Workload API last pushed; a      *)
(* thread of the fetcher replaces it while the threads of TLS handshakes ask  *)
(* SpiffeKeyManager for alias, key and chain and SpiffeTrustManager for its   *)
(* opinion of the peer.  Each of these calls reads spiffeSVID anew, without a *)
(* lock, so each is a step.  JSSE, which calls them, is external: a server    *)
(* chooses its credentials first and then checks the client, a client the     *)
(* other way round, and key and chain are asked for in either order.          *)
(*                                                                         *)
(* An SVID is the number of the answer it came in; 0 is null.  A read sees    *)
(* the last write (the field is not volatile; the hardware is coherent).      *)
(***************************************************************************)
EXTENDS Integers

CONSTANTS Handshakes,  \* threads, each of which makes one handshake
          CAs,         \* certificate authorities
          NoCa,        \* the issuer of a chain that validates against no CA
          Ids,         \* SPIFFE IDs of peers
          NoId,        \* a certificate without a SPIFFE ID
          MaxUpdates   \* bound: answers of the Workload API

\* What the constants are; the modules that instantiate this one assume it.
Assumptions == NoCa \notin CAs /\ NoId \notin Ids /\ MaxUpdates \in Nat

VARIABLES
  answers,  \* answers of the Workload API so far
  svid,     \* number of the SVID in spiffeSVID
  bundle,   \* its bundle
  allowed,  \* the IDs for which ACLService.isAllowed(ID, own ID) returns true
  step,     \* what each handshake does next, or how it ended
  role,     \* its end of the connection
  todo,     \* of "key" and "chain", what it has not asked for yet
  key,      \* the SVID whose private key it was given
  chain,    \* the SVID it was given as certificate chain
  peerCa,   \* the CA that issued the peer's certificate
  peerId,   \* the SPIFFE ID in it
  current,  \* history: the unexpired CAs of the last well-formed answer
  since,    \* history: spiffeSVID when it began
  seenCas,  \* history: the CAs it may trust, those in force at a time since then
  seenIds   \* history: the IDs allowed at a time since then

storeVars   == <<answers, svid, bundle>>
historyVars == <<current, since, seenCas, seenIds>>
vars == <<storeVars, allowed, step, role, todo, key, chain, peerCa, peerId, historyVars>>

Steps == {"idle", "alias", "credentials", "peer", "acl", "done", "failed"}
Reads == {"key", "chain"}

Init ==
  /\ answers = 0 /\ svid = 0 /\ bundle = {}
  /\ allowed \in SUBSET Ids
  /\ step = [h \in Handshakes |-> "idle"]
  /\ role \in [Handshakes -> {"client", "server"}]
  /\ todo = [h \in Handshakes |-> Reads]
  /\ key = [h \in Handshakes |-> 0]
  /\ chain = [h \in Handshakes |-> 0]
  /\ peerCa \in [Handshakes -> CAs \union {NoCa}]
  /\ peerId \in [Handshakes -> Ids \union {NoId}]
  /\ current = {}
  /\ since = [h \in Handshakes |-> 0]
  /\ seenCas = [h \in Handshakes |-> {}]
  /\ seenIds = [h \in Handshakes |-> {}]

-----------------------------------------------------------------------------
(* SpiffeSVIDManager                                                         *)

\* Defect: the CAs of an answer are added to those of the one before.
BundleAccumulated(cas, outdated) == bundle \union (cas \ outdated)

\* filterOutdated: what is kept of the CAs of an answer.
Bundle(cas, outdated) == cas \ outdated

\* The answer is one well-formed SVID, and replaces the one before.
Update ==
  /\ answers < MaxUpdates
  /\ answers' = answers + 1
  /\ svid' = answers'
  /\ \E cas \in SUBSET CAs : \E outdated \in SUBSET cas :
       /\ bundle' = Bundle(cas, outdated)
       /\ current' = cas \ outdated
       /\ seenCas' = [h \in Handshakes |-> seenCas[h] \union current']
  /\ UNCHANGED <<allowed, step, role, todo, key, chain, peerCa, peerId, since, seenIds>>

\* Defect: the field is cleared before the answer is parsed.
UpdateFailsClearing ==
  /\ answers < MaxUpdates
  /\ answers' = answers + 1
  /\ svid' = 0
  /\ UNCHANGED <<bundle, allowed, step, role, todo, key, chain, peerCa, peerId, historyVars>>

\* Several identities, or one that cannot be parsed: the updater throws before it
\* assigns the field.
UpdateFails ==
  /\ answers < MaxUpdates
  /\ answers' = answers + 1
  /\ UNCHANGED <<svid, bundle, allowed, step, role, todo, key, chain, peerCa, peerId,
                 historyVars>>

-----------------------------------------------------------------------------
(* A handshake                                                               *)

\* An end of a connection begins (JSSE).  Its history begins with it.
Begin(h) ==
  /\ step[h] = "idle"
  /\ step' = [step EXCEPT ![h] = IF role[h] = "server" THEN "alias" ELSE "peer"]
  /\ since' = [since EXCEPT ![h] = svid]
  /\ seenCas' = [seenCas EXCEPT ![h] = current]
  /\ seenIds' = [seenIds EXCEPT ![h] = allowed]
  /\ UNCHANGED <<storeVars, allowed, role, todo, key, chain, peerCa, peerId, current>>

\* getAlias: getPrivateKey().getAlgorithm() throws without an SVID; no alias unless the
\* peer takes keys of that algorithm.
ChooseAlias(h) ==
  /\ step[h] = "alias"
  /\ \/ svid # 0 /\ step' = [step EXCEPT ![h] = "credentials"]
     \/ step' = [step EXCEPT ![h] = "failed"]
  /\ UNCHANGED <<storeVars, allowed, role, todo, key, chain, peerCa, peerId, historyVars>>

\* JSSE has asked for what; after the second answer it goes on.
Asked(h, what) ==
  /\ step[h] = "credentials" /\ what \in todo[h]
  /\ todo' = [todo EXCEPT ![h] = @ \ {what}]
  /\ step' = IF todo[h] = {what}
               THEN [step EXCEPT ![h] = IF role[h] = "server" THEN "peer" ELSE "done"]
               ELSE step

GetPrivateKey(h) ==
  /\ Asked(h, "key")
  /\ key' = [key EXCEPT ![h] = svid]
  /\ UNCHANGED <<storeVars, allowed, role, chain, peerCa, peerId, historyVars>>

GetCertificateChain(h) ==
  /\ Asked(h, "chain")
  /\ chain' = [chain EXCEPT ![h] = svid]
  /\ UNCHANGED <<storeVars, allowed, role, key, peerCa, peerId, historyVars>>

\* checkPeer up to the ACL: CertificateUtils.validate against the bundle of this moment,
\* which fails without a bundle.
Validate(h) ==
  /\ step[h] = "peer"
  /\ step' = [step EXCEPT ![h] = IF peerCa[h] \in bundle THEN "acl" ELSE "failed"]
  /\ UNCHANGED <<storeVars, allowed, role, todo, key, chain, peerCa, peerId, historyVars>>

\* A server already has its credentials, a client is asked for them now.
AfterPeer(h) == IF role[h] = "server" THEN "done" ELSE "alias"

\* checkSpiffeId: a peer without an ID fails, and so does one that the ACLService refuses.
CheckSpiffeId(h) ==
  /\ step[h] = "acl"
  /\ step' = [step EXCEPT ![h] = IF peerId[h] \in allowed THEN AfterPeer(h) ELSE "failed"]
  /\ UNCHANGED <<storeVars, allowed, role, todo, key, chain, peerCa, peerId, historyVars>>

-----------------------------------------------------------------------------
\* The ACLService changes its mind at any time (AclManager is one).
ChangeAcl ==
  /\ \E ids \in (SUBSET Ids) \ {allowed} :
       /\ allowed' = ids
       /\ seenIds' = [h \in Handshakes |-> seenIds[h] \union ids]
  /\ UNCHANGED <<storeVars, step, role, todo, key, chain, peerCa, peerId, current, since,
                 seenCas>>

-----------------------------------------------------------------------------
KeyManager(h)   == ChooseAlias(h) \/ GetPrivateKey(h) \/ GetCertificateChain(h)
TrustManager(h) == Validate(h) \/ CheckSpiffeId(h)

Next ==
  \/ Update \/ UpdateFails \/ ChangeAcl
  \/ \E h \in Handshakes : Begin(h) \/ KeyManager(h) \/ TrustManager(h)

Spec == Init /\ [][Next]_vars

-----------------------------------------------------------------------------
(* Properties *)

TypeOK ==
  /\ answers \in 0 .. MaxUpdates /\ svid \in 0 .. answers
  /\ bundle \subseteq CAs /\ current \subseteq CAs /\ allowed \subseteq Ids
  /\ step \in [Handshakes -> Steps]
  /\ role \in [Handshakes -> {"client", "server"}]
  /\ todo \in [Handshakes -> SUBSET Reads]
  /\ key \in [Handshakes -> 0 .. MaxUpdates] /\ chain \in [Handshakes -> 0 .. MaxUpdates]
  /\ peerCa \in [Handshakes -> CAs \union {NoCa}]
  /\ peerId \in [Handshakes -> Ids \union {NoId}]
  /\ since \in [Handshakes -> 0 .. MaxUpdates]
  /\ seenCas \in [Handshakes -> SUBSET CAs]
  /\ seenIds \in [Handshakes -> SUBSET Ids]

\* What a handshake presents, read field by field while updates come in well-formed or
\* not, is never null and never older than the SVID held when the handshake began.
IdentityPresented ==
  \A h \in Handshakes :
    /\ "key" \notin todo[h]   => key[h] > 0 /\ key[h] >= since[h]
    /\ "chain" \notin todo[h] => chain[h] > 0 /\ chain[h] >= since[h]

\* Key and chain are two reads of what the SVID manager holds: it promises each of them the
\* SVID of its moment, no more (of the two together, see KeyOfChain).
Svids == INSTANCE Rotation WITH
           Readers <- Handshakes \X Reads, newest <- answers, held <- svid,
           given   <- [r \in Handshakes \X Reads |->
                         IF r[2] = "key" THEN key[r[1]] ELSE chain[r[1]]]

Rotates == Svids!Spec

\* A handshake that succeeds has a peer of a CA, unexpired on receipt, of an SVID held
\* during that handshake, and of an ID allowed at a time during it: a CA or an ID
\* withdrawn before a handshake begins is of no more use.
PeerTrusted ==
  \A h \in Handshakes :
    step[h] = "done" => peerCa[h] \in seenCas[h] /\ peerId[h] \in seenIds[h]

\* The private key belongs to the certificate that is presented with it.
KeyOfChain == \A h \in Handshakes : todo[h] = {} => key[h] = chain[h]
=============================================================================

