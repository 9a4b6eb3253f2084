----------------------------- MODULE MutualTlsProof -----------------------------
(***************************************************************************)
(* Theorems about MutualTls, for any number of handshakes and any lists: the  *)
(* composition implements its two parts, so that what is proved of these       *)
(* (AclManagerProof, SpiffeProviderProof) holds of it, and an ID that was      *)
(* removed from the list is refused.                                           *)
(***************************************************************************)
EXTENDS MutualTls, TLAPS

AclProof == INSTANCE AclManagerProof WITH Lists <- SUBSET Ids, EmptyList <- {}
TlsProof == INSTANCE SpiffeProviderProof

\* The assumptions of the parts.
LEMMA PartsAssumed == AclProof!Assumptions /\ TlsProof!Assumptions
  BY PartsAssumption DEF Acl!Assumptions, AclProof!Assumptions, Tls!Assumptions,
                         TlsProof!Assumptions

-----------------------------------------------------------------------------
(* The ACL manager                                                           *)

\* Every step is one of AclManager, or none.
LEMMA AclStep == [Next]_vars => [Acl!Next]_(Acl!vars)
  <1> SUFFICES ASSUME [Next]_vars PROVE [Acl!Next]_(Acl!vars)
      OBVIOUS
  <1> USE DEF aclVars, fileVars, Acl!vars, Acl!managerVars, Acl!fileVars
  <1>1. ASSUME NEW h \in Handshakes, Begin(h) PROVE UNCHANGED Acl!vars
        BY <1>1 DEF Begin, Tls!Begin
  <1>2. ASSUME NEW h \in Handshakes, Handshake(h) PROVE UNCHANGED Acl!vars
        BY <1>2 DEF Handshake, Tls!KeyManager, Tls!ChooseAlias, Tls!GetPrivateKey,
                    Tls!GetCertificateChain, Tls!Validate, Tls!CheckSpiffeId
  <1>3. CASE Update
        BY <1>3 DEF Update, Tls!Update, Tls!UpdateFails
  <1>4. CASE Construct \/ Watch \/ Edit \/ Tick
        BY <1>4 DEF Construct, Watch, Edit, Tick, Acl!Next, Acl!Manager
  <1>5. CASE UNCHANGED vars
        BY <1>5 DEF vars
  <1> QED  BY <1>1, <1>2, <1>3, <1>4, <1>5 DEF Next

\* The process is an AclManager to its file.
LEMMA ImplementsAcl == Spec => Acl!Spec
  <1>1. Init => Acl!Init
        BY DEF Init
  <1> QED  BY <1>1, AclStep, PTL DEF Spec, Acl!Spec

\* The two instances of AclManager are the same.
LEMMA SameAcl == Acl!Spec => AclProof!Spec
  <1>1. Acl!Init => AclProof!Init
        BY DEF Acl!Init, AclProof!Init
  <1>2. [Acl!Next]_(Acl!vars) => [AclProof!Next]_(AclProof!vars)
    <2> USE DEF Acl!vars, Acl!managerVars, Acl!fileVars,
                AclProof!vars, AclProof!managerVars, AclProof!fileVars
    <2>1. Acl!Manager => AclProof!Manager
          BY DEF Acl!Manager, Acl!LoadFirst, Acl!StampFirst, Acl!SeeChange, Acl!Reload,
                 Acl!LastModified, AclProof!Manager, AclProof!LoadFirst, AclProof!StampFirst,
                 AclProof!SeeChange, AclProof!Reload, AclProof!LastModified
    <2>2. Acl!Append \/ Acl!Truncate \/ Acl!RenameAway \/ Acl!Finish
             => AclProof!Append \/ AclProof!Truncate \/ AclProof!RenameAway \/ AclProof!Finish
          BY DEF Acl!Append, Acl!Truncate, Acl!RenameAway, Acl!Finish, Acl!Begin, Acl!Write,
                 AclProof!Append, AclProof!Truncate, AclProof!RenameAway,
                 AclProof!Finish, AclProof!Begin, AclProof!Write
    <2>3. Acl!Tick => AclProof!Tick
          BY DEF Acl!Tick, AclProof!Tick
    <2> QED  BY <2>1, <2>2, <2>3 DEF Acl!Next, AclProof!Next
  <1> QED  BY <1>1, <1>2, PTL DEF Acl!Spec, AclProof!Spec

\* AclManager's types, which the provider relies on for what its ACLService answers.
LEMMA AclTypes == Spec => []Acl!TypeOK
  <1>1. AclProof!Spec => []AclProof!TypeOK
        BY PartsAssumed, AclProof!TypeCorrect, PTL
  <1>2. AclProof!TypeOK => Acl!TypeOK
        BY DEF AclProof!TypeOK, AclProof!DataTypeOK, Acl!TypeOK, Acl!DataTypeOK
  <1> QED  BY <1>1, <1>2, ImplementsAcl, SameAcl, PTL

-----------------------------------------------------------------------------
(* The provider                                                              *)

\* Whatever becomes of the list, the provider has an ACLService that may change its mind.
LEMMA LearnIsChange == ASSUME Acl!TypeOK', Learn PROVE [Tls!Next]_(Tls!vars)
  <1> USE DEF Learn, tlsVars, Tls!vars, Tls!storeVars, Tls!historyVars
  <1>1. CASE allowed' = allowed
        BY <1>1
  <1>2. CASE allowed' # allowed
    <2>1. allowed' \in (SUBSET Ids) \ {allowed}
          BY <1>2 DEF Acl!TypeOK, Acl!DataTypeOK
    <2> QED  BY <1>2, <2>1 DEF Tls!Next, Tls!ChangeAcl
  <1> QED  BY <1>1, <1>2

\* Every step is one of SpiffeProvider, or none.
LEMMA TlsStep == Acl!TypeOK' /\ [Next]_vars => [Tls!Next]_(Tls!vars)
  <1> SUFFICES ASSUME Acl!TypeOK', [Next]_vars PROVE [Tls!Next]_(Tls!vars)
      OBVIOUS
  <1>1. ASSUME NEW h \in Handshakes, Begin(h) \/ Handshake(h) PROVE Tls!Next
        BY <1>1 DEF Begin, Handshake, Tls!Next, Tls!TrustManager
  <1>2. CASE Update
        BY <1>2 DEF Update, Tls!Next
  <1>3. CASE Construct \/ Watch
        BY <1>3, LearnIsChange DEF Construct, Watch
  <1>4. CASE Edit \/ Tick
        BY <1>4 DEF Edit, Tick, tlsVars, Tls!vars, Tls!storeVars, Tls!historyVars, Acl!Append,
                    Acl!Truncate, Acl!RenameAway, Acl!Finish, Acl!Tick, Acl!managerVars
  <1>5. CASE UNCHANGED vars
        BY <1>5 DEF vars, tlsVars, Tls!vars, Tls!storeVars, Tls!historyVars
  <1> QED  BY <1>1, <1>2, <1>3, <1>4, <1>5 DEF Next

\* The process is a SpiffeProvider whose ACLService may answer what it likes.
LEMMA ImplementsTls == Spec => Tls!Spec
  <1>1. Init => Tls!Init
        BY DEF Init
  <1> QED  BY <1>1, TlsStep, AclTypes, PTL DEF Spec, Tls!Spec

\* The two instances of SpiffeProvider are the same.
LEMMA SameTls == Tls!Spec => TlsProof!Spec
  <1>1. Tls!Init => TlsProof!Init
        BY DEF Tls!Init, Tls!Reads, TlsProof!Init, TlsProof!Reads
  <1>2. [Tls!Next]_(Tls!vars) => [TlsProof!Next]_(TlsProof!vars)
    <2> USE DEF Tls!vars, Tls!storeVars, Tls!historyVars,
                TlsProof!vars, TlsProof!storeVars, TlsProof!historyVars
    <2>1. Tls!Update \/ Tls!UpdateFails \/ Tls!ChangeAcl
             => TlsProof!Update \/ TlsProof!UpdateFails \/ TlsProof!ChangeAcl
          BY DEF Tls!Update, Tls!UpdateFails, Tls!ChangeAcl, Tls!Bundle, TlsProof!Update,
                 TlsProof!UpdateFails, TlsProof!ChangeAcl, TlsProof!Bundle
    <2>2. ASSUME NEW h \in Handshakes
          PROVE  /\ Tls!Begin(h) => TlsProof!Begin(h)
                 /\ Tls!TrustManager(h) => TlsProof!TrustManager(h)
          BY DEF Tls!Begin, TlsProof!Begin, Tls!TrustManager, TlsProof!TrustManager,
                 Tls!Validate, TlsProof!Validate, Tls!CheckSpiffeId, TlsProof!CheckSpiffeId,
                 Tls!AfterPeer, TlsProof!AfterPeer
    <2>3. ASSUME NEW h \in Handshakes
          PROVE  Tls!KeyManager(h) => TlsProof!KeyManager(h)
          BY DEF Tls!KeyManager, TlsProof!KeyManager, Tls!ChooseAlias, TlsProof!ChooseAlias,
                 Tls!GetPrivateKey, TlsProof!GetPrivateKey, Tls!GetCertificateChain,
                 TlsProof!GetCertificateChain, Tls!Asked, TlsProof!Asked
    <2> QED  BY <2>1, <2>2, <2>3 DEF Tls!Next, TlsProof!Next
  <1> QED  BY <1>1, <1>2, PTL DEF Tls!Spec, TlsProof!Spec

-----------------------------------------------------------------------------
(* What is so of the parts is so of the whole                                *)

\* A change of the list is missed, also in the process that makes handshakes and whether or
\* not the file is edited while the first of them loads it, only if the write was hidden
\* from the time stamp.
THEOREM NothingMissed == Spec => []NoMissedChange
  <1>1. AclProof!Spec => []AclProof!NoMissedChange
        BY PartsAssumed, AclProof!NothingMissed, PTL
  <1>2. AclProof!NoMissedChange => NoMissedChange
        BY DEF AclProof!NoMissedChange, NoMissedChange, Acl!NoMissedChange
  <1> QED  BY <1>1, <1>2, ImplementsAcl, SameAcl, PTL

\* A handshake presents nothing null or outdated.
THEOREM FreshIdentity == Spec => []IdentityPresented
  <1>1. TlsProof!Spec => []TlsProof!IdentityPresented
        BY PartsAssumed, TlsProof!FreshIdentity, PTL
  <1>2. TlsProof!IdentityPresented => IdentityPresented
        BY DEF TlsProof!IdentityPresented, IdentityPresented, Tls!IdentityPresented
  <1> QED  BY <1>1, <1>2, ImplementsTls, SameTls, PTL

\* A peer that is accepted was trusted and on the list at a time during the handshake.
THEOREM OnlyTrustedPeers == Spec => []PeerTrusted
  <1>1. TlsProof!Spec => []TlsProof!PeerTrusted
        BY PartsAssumed, TlsProof!OnlyTrustedPeers, PTL
  <1>2. TlsProof!PeerTrusted => PeerTrusted
        BY DEF TlsProof!PeerTrusted, PeerTrusted, Tls!PeerTrusted
  <1> QED  BY <1>1, <1>2, ImplementsTls, SameTls, PTL

\* Every variable has its type.
THEOREM TypeCorrect == Spec => []TypeOK
  <1>1. Spec => []Tls!TypeOK
    <2>1. TlsProof!Spec => []TlsProof!TypeOK
          BY PartsAssumed, TlsProof!TypeCorrect, PTL
    <2>2. TlsProof!TypeOK => Tls!TypeOK
          BY DEF TlsProof!TypeOK, TlsProof!Steps, TlsProof!Reads, Tls!TypeOK, Tls!Steps,
                 Tls!Reads
    <2> QED  BY <2>1, <2>2, ImplementsTls, SameTls, PTL
  <1> DEFINE NamedType == named \in [Handshakes -> SUBSET Ids]
  <1>2. Init => NamedType
        BY DEF Init
  <1>3. Acl!TypeOK /\ Acl!TypeOK' /\ NamedType /\ [Next]_vars => NamedType'
    <2> SUFFICES ASSUME Acl!TypeOK, Acl!TypeOK', NamedType, [Next]_vars PROVE NamedType'
        OBVIOUS
    <2>1. /\ allowed \subseteq Ids /\ content \subseteq Ids /\ content' \subseteq Ids
          BY DEF Acl!TypeOK, Acl!DataTypeOK
    <2>2. ASSUME NEW h \in Handshakes, Begin(h) PROVE NamedType'
          BY <2>1, <2>2 DEF Begin
    <2>3. CASE Edit
          BY <2>1, <2>3 DEF Edit
    <2>4. CASE UNCHANGED named
          BY <2>4
    <2> QED  BY <2>2, <2>3, <2>4 DEF Next, Handshake, Update, Construct, Watch, Learn, Tick, vars
  <1>4. Acl!TypeOK /\ Tls!TypeOK /\ NamedType => TypeOK
        BY DEF TypeOK
  <1> QED  BY <1>1, <1>2, <1>3, <1>4, AclTypes, PTL DEF Spec

-----------------------------------------------------------------------------
(* What was removed                                                          *)

\* The peer of h has passed the trust manager.
Accepted(h) == step[h] = "done" \/ (role[h] = "client" /\ step[h] \in {"alias", "credentials"})

\* A handshake may be asked about what the file and the list name, and no more.
Listed ==
  /\ phase = "load" => allowed = {}
  /\ \A h \in Handshakes : step[h] # "idle" => content \union allowed \subseteq named[h]
  /\ \A h \in Handshakes : Accepted(h) => peerId[h] \in named[h]

LEMMA ListedNext ==
  ASSUME Tls!TypeOK, named \in [Handshakes -> SUBSET Ids], NoMissedChange, Listed, [Next]_vars
  PROVE  Listed'
  <1> USE DEF Tls!TypeOK, Listed, Accepted
  <1>1. ASSUME NEW h \in Handshakes, Begin(h) PROVE Listed'
    <2>1. UNCHANGED <<phase, allowed, content>>
          BY <1>1 DEF Begin, aclVars, fileVars, Tls!Begin
    <2>2. content \union allowed \subseteq named'[h]
          BY <1>1 DEF Begin, NoMissedChange, Acl!NoMissedChange
    <2>3. ~Accepted(h)'
          BY <1>1 DEF Begin, Tls!Begin
    <2>4. ASSUME NEW g \in Handshakes \ {h}
          PROVE  named'[g] = named[g] /\ step'[g] = step[g]
          BY <1>1 DEF Begin, Tls!Begin
    <2>5. UNCHANGED <<role, peerId>>
          BY <1>1 DEF Begin, Tls!Begin
    <2> QED  BY <2>1, <2>2, <2>3, <2>4, <2>5
  <1>2. ASSUME NEW h \in Handshakes, Handshake(h) PROVE Listed'
    <2>1. UNCHANGED <<phase, allowed, content, named, role, peerId>>
          BY <1>2 DEF Handshake, aclVars, fileVars, Tls!KeyManager, Tls!ChooseAlias,
                      Tls!GetPrivateKey, Tls!GetCertificateChain, Tls!Validate,
                      Tls!CheckSpiffeId
    <2>2. step[h] # "idle" /\ \A g \in Handshakes \ {h} : step'[g] = step[g]
          BY <1>2 DEF Handshake, Tls!KeyManager, Tls!ChooseAlias, Tls!GetPrivateKey,
                      Tls!GetCertificateChain, Tls!Asked, Tls!Validate, Tls!CheckSpiffeId
    <2>3. Accepted(h)' => Accepted(h) \/ peerId[h] \in allowed
          BY <1>2 DEF Handshake, Tls!KeyManager, Tls!ChooseAlias, Tls!GetPrivateKey,
                      Tls!GetCertificateChain, Tls!Asked, Tls!Validate, Tls!CheckSpiffeId,
                      Tls!AfterPeer
    <2> QED  BY <2>1, <2>2, <2>3
  <1>3. CASE Update
        BY <1>3 DEF Update, aclVars, fileVars, Tls!Update, Tls!UpdateFails
  <1>4. CASE Construct \/ Watch
    <2>1. UNCHANGED <<content, named, step, role, peerId>>
          BY <1>4 DEF Construct, Watch, Learn, tlsVars, Acl!LoadFirst, Acl!StampFirst,
                      Acl!SeeChange, Acl!Reload, Acl!fileVars
    <2>2. allowed' \in {allowed, content}
          BY <1>4 DEF Construct, Watch, Acl!LoadFirst, Acl!StampFirst, Acl!SeeChange, Acl!Reload
    <2>3. phase' # "load"
          BY <1>4 DEF Construct, Watch, Acl!LoadFirst, Acl!StampFirst, Acl!SeeChange, Acl!Reload
    <2> QED  BY <2>1, <2>2, <2>3
  <1>5. CASE Edit
    <2>1. UNCHANGED <<phase, allowed, step, role, peerId>>
          BY <1>5 DEF Edit, tlsVars, Acl!Append, Acl!Truncate, Acl!RenameAway, Acl!Finish,
                      Acl!managerVars
    <2>2. named' = [h \in Handshakes |-> named[h] \union content']
          BY <1>5 DEF Edit
    <2> QED  BY <2>1, <2>2
  <1>6. CASE Tick
        BY <1>6 DEF Tick, tlsVars, Acl!Tick, Acl!managerVars, Acl!fileVars
  <1>7. CASE UNCHANGED vars
        BY <1>7 DEF vars, aclVars, fileVars, tlsVars
  <1> QED  BY <1>1, <1>2, <1>3, <1>4, <1>5, <1>6, <1>7 DEF Next

\* An ID that had been removed, and the removal noticed, before a handshake began is refused in
\* it.
THEOREM RemovedIds == Spec => []RemovedIdRefused
  <1>1. Init => Listed
        BY DEF Init, Listed, Accepted, Acl!Init, Tls!Init
  <1>2. TypeOK /\ NoMissedChange /\ Listed /\ [Next]_vars => Listed'
        BY ListedNext DEF TypeOK
  <1>3. Listed => RemovedIdRefused
        BY DEF Listed, Accepted, RemovedIdRefused
  <1> QED  BY <1>1, <1>2, <1>3, TypeCorrect, NothingMissed, PTL DEF Spec
=============================================================================
