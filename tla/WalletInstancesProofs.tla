----------------------- MODULE WalletInstancesProofs -----------------------
(***************************************************************************)
(* What the runs of WalletInstances check, for any numbers of instances,   *)
(* requests, nonces and faults.  The invariant says of each request what   *)
(* it may count on wherever it is (RequestInv), and of the requests        *)
(* together that valid instances, superseded credentials and used-up       *)
(* nonces are accounted for.  A step is a step of one request or of the    *)
(* world: the one that moves is looked at action by action (the ...Actor   *)
(* lemmas), and the others keep what they count on because the world only  *)
(* goes on (WorldGoesOn): instances are not deleted and not made valid     *)
(* again, and a certificate stays revoked.                                 *)
(***************************************************************************)
EXTENDS WalletInstances, FiniteSetTheorems, TLAPS

----------------------------------------------------------------------------
(* There is an instance for the requests that name none.                   *)
LEMMA AnyIsWalletInstance == AnyWalletInstance \in WalletInstanceIds
BY BoundsAssumption DEF AnyWalletInstance

(* Each kind of request makes the calls of its handler and no others.      *)
PcFitsKind(r) ==
  /\ kind[r] = "create" =>
       pc[r] \in {"nonce", "validating", "inserting", "finding", "patching",
                  "credentials", "mail", "done", "refused", "stopped"}
  /\ kind[r] = "renew" =>
       pc[r] \in {"nonce", "validating", "inserting", "finding", "patching",
                  "credentials", "done", "refused", "stopped"}
  /\ kind[r] = "attest" =>
       pc[r] \in {"nonce", "reading", "asserting", "signing", "granted",
                  "refused", "stopped"}
  /\ kind[r] = "status" =>
       pc[r] \in {"reading", "revocation list", "credentials", "patching",
                  "valid", "revoked", "refused", "stopped"}
  /\ kind[r] = "setStatus" =>
       pc[r] \in {"credentials", "patching", "mail", "done", "stopped"}
  /\ kind[r] = "setAll" =>
       pc[r] \in {"idle", "finding", "patching", "done", "stopped"}

(* A request that has not begun has looked at nothing, sent nothing and    *)
(* failed in nothing.                                                      *)
NotStarted(r) ==
  pc[r] = "idle" => atStart[r] = "clean" /\ mail[r] = "none" /\ r \notin troubled

(* createWalletInstance goes on to the older instances only once its own   *)
(* is in the database.                                                     *)
HasInserted(r) ==
  kind[r] \in Creations
    /\ pc[r] \in {"finding", "patching", "credentials", "mail", "done"}
  => instance[target[r]] # "absent"

(* A creation a call of which failed does not go on to the next write: it  *)
(* has ended, or is about to tell the user.                                *)
TroubleEndsIt(r) ==
  kind[r] \in Creations /\ r \in troubled =>
    pc[r] \in {"refused", "stopped", "mail", "done"}

(* What a request has seen when it began to look is still so; only a       *)
(* revocation by the user names an instance that does not exist.           *)
AtStartHolds(r) ==
  /\ atStart[r] = "revoked" => Revoked(target[r])
  /\ atStart[r] = "compromised" => target[r] \in compromised
  /\ atStart[r] = "absent" => kind[r] = "setStatus"

(* An attestation under way has read an instance that was valid, hence one *)
(* that was not revoked when the request began.                            *)
ValidIsRead(r) ==
  pc[r] \in {"asserting", "signing", "granted"} => atStart[r] # "revoked"

(* What getWalletInstanceStatus has read and is going to report.           *)
StatusIsRead(r) ==
  /\ kind[r] = "status" /\ pc[r] \in {"revocation list", "credentials", "patching"} =>
       /\ instance[target[r]] # "absent"
       /\ atStart[r] \in {"clean", "compromised"}
  /\ kind[r] = "status" /\ pc[r] \in {"credentials", "patching"} =>
       read[r] = {target[r]}
  /\ pc[r] = "revoked" => Revoked(target[r])
  /\ pc[r] = "valid" => \/ atStart[r] = "clean"
                        \/ atStart[r] = "compromised" /\ r \in troubled

(* setWalletInstanceStatus revokes the instance it names, which existed    *)
(* when it began or may not exist at all.                                  *)
TargetIsRead(r) ==
  kind[r] = "setStatus" =>
    /\ read[r] = {target[r]}
    /\ instance[target[r]] = "absent" => atStart[r] = "absent"

(* A message is put in its queue as the last call, when what it tells has  *)
(* been written.                                                           *)
MailIsTrue(r) ==
  /\ mail[r] # "none" => pc[r] \in {"done", "stopped"}
  /\ pc[r] = "mail" \/ mail[r] # "none" =>
       IF kind[r] = "create" THEN instance[target[r]] # "absent"
       ELSE Revoked(target[r]) \/ atStart[r] = "absent"

(* What one request may count on.                                          *)
RequestInv(r) ==
  /\ PcFitsKind(r) /\ NotStarted(r) /\ HasInserted(r) /\ TroubleEndsIt(r)
  /\ AtStartHolds(r) /\ ValidIsRead(r) /\ StatusIsRead(r)
  /\ TargetIsRead(r) /\ MailIsTrue(r)

(* What all of them may count on.                                          *)
RequestsInv == \A r \in Requests : RequestInv(r)

(* The inductive invariant.                                                *)
InstancesInv ==
  TypeOK /\ nonces \subseteq askedNonces /\ RequestsInv
    /\ OneValidInstance /\ OldCredentialsAreRevoked /\ NonceOnce

----------------------------------------------------------------------------
(* The initial states have the types of the variables.                     *)
LEMMA InitType == Init => TypeOK
<1> SUFFICES ASSUME Init PROVE TypeOK
  OBVIOUS
<1>1. faults \in 0..MaxFaults
  BY BoundsAssumption DEF Init
<1>2. QED
  BY <1>1, AnyIsWalletInstance, Zenon DEF Init, TypeOK, Kind, Awaiting, Ended, RevocationReason

(* Going on to the next call keeps the type of pc.                         *)
LEMMA GotoType ==
  ASSUME TypeOK, NEW r \in Requests, NEW next \in {"idle"} \cup Awaiting \cup Ended,
         Goto(r, next)
  PROVE  pc' \in [Requests -> {"idle"} \cup Awaiting \cup Ended]
BY Zenon DEF TypeOK, Goto

(* A failed call stays within the bound on faults.                         *)
LEMMA TroubleType ==
  ASSUME TypeOK, NEW r \in Requests, Trouble(r) \/ UNCHANGED <<faults, troubled>>
  PROVE  faults' \in 0..MaxFaults /\ troubled' \in SUBSET Requests
BY BoundsAssumption DEF TypeOK, Trouble

(* However a call ends, the types are kept.                                *)
LEMMA AnsweredType ==
  ASSUME TypeOK, NEW r \in Requests,
         NEW next \in {"idle"} \cup Awaiting \cup Ended,
         NEW otherwise \in {"idle"} \cup Awaiting \cup Ended,
         Answered(r, next, otherwise)
  PROVE  /\ pc' \in [Requests -> {"idle"} \cup Awaiting \cup Ended]
         /\ faults' \in 0..MaxFaults /\ troubled' \in SUBSET Requests
BY GotoType, TroubleType DEF Answered

(* What a request sees when it begins to look has its type.                *)
LEMMA LookType ==
  ASSUME TypeOK, NEW r \in Requests, Look(r)
  PROVE  atStart' \in [Requests -> {"clean", "compromised", "revoked", "absent"}]
BY DEF TypeOK, Look

(* Any set of ids has the type of what a request reads.                    *)
LEMMA ReadType ==
  ASSUME TypeOK, NEW r \in Requests, NEW ids \in SUBSET WalletInstanceIds
  PROVE  [read EXCEPT ![r] = ids] \in [Requests -> SUBSET WalletInstanceIds]
BY Zenon DEF TypeOK

(* Wherever a request goes next, it is a call or an end of it; the reason  *)
(* of a patch is a revocation reason for every kind that patches.          *)
LEMMA NextPcs ==
  ASSUME TypeOK, NEW r \in Requests
  PROVE  /\ AfterNonce(r) \in Awaiting
         /\ (PcFitsKind(r) /\ pc[r] = "patching") =>
              AfterPatch(r) \in Awaiting \cup Ended /\ Reason(r) \in RevocationReason
         /\ AfterCredentials(r) \in Awaiting \cup Ended
         /\ NothingToRevoke(r) \in Awaiting \cup Ended
         /\ NoAnswerToPatch(r) \in Awaiting \cup Ended
         /\ Failed(r) \in Awaiting \cup Ended
<1>1. kind[r] \in Kind
  BY DEF TypeOK
<1>2. AfterNonce(r) \in Awaiting
  BY DEF AfterNonce, Awaiting
<1>3. (PcFitsKind(r) /\ pc[r] = "patching") => AfterPatch(r) \in Awaiting \cup Ended
  BY <1>1 DEF AfterPatch, PcFitsKind, Kind, Creations, Awaiting, Ended
<1>4. AfterCredentials(r) \in Awaiting \cup Ended
  BY DEF AfterCredentials, Awaiting, Ended
<1>5. NothingToRevoke(r) \in Awaiting \cup Ended
  BY <1>4 DEF NothingToRevoke, Ended
<1>6. NoAnswerToPatch(r) \in Awaiting \cup Ended
  BY DEF NoAnswerToPatch, Ended
<1>7. Failed(r) \in Awaiting \cup Ended
  BY <1>4, <1>6 DEF Failed, Ended
<1>8. (PcFitsKind(r) /\ pc[r] = "patching") => Reason(r) \in RevocationReason
  BY <1>1 DEF Reason, PcFitsKind, RevocationReason, Kind, Creations
<1>9. QED
  BY <1>2, <1>3, <1>4, <1>5, <1>6, <1>7, <1>8

(* Each step keeps the types.                                              *)
LEMMA StepType == TypeOK /\ RequestsInv /\ [Next]_vars => TypeOK'
<1> SUFFICES ASSUME TypeOK, RequestsInv, [Next]_vars PROVE TypeOK'
  OBVIOUS
<1> DEFINE Pcs == {"idle"} \cup Awaiting \cup Ended
<1>0. ASSUME NEW r \in Requests
      PROVE  /\ AfterNonce(r) \in Pcs /\ AfterCredentials(r) \in Pcs
             /\ NothingToRevoke(r) \in Pcs /\ NoAnswerToPatch(r) \in Pcs
             /\ Failed(r) \in Pcs
             /\ pc[r] = "patching" =>
                  AfterPatch(r) \in Pcs /\ Reason(r) \in RevocationReason
  BY NextPcs DEF RequestsInv, RequestInv
<1>1. ASSUME NEW r \in Requests, Start(r) PROVE TypeOK'
  <2>1. PICK k \in Kind, i \in WalletInstanceIds :
          /\ kind' = [kind EXCEPT ![r] = k]
          /\ target' = [target EXCEPT ![r] = i]
          /\ read' = [read EXCEPT ![r] = IF k = "setStatus" THEN {i} ELSE {}]
          /\ Goto(r, FirstStep(k))
          /\ atStart' = IF k = "setStatus" /\ instance[i] = "absent"
                        THEN [atStart EXCEPT ![r] = "absent"] ELSE atStart
    BY <1>1 DEF Start
  <2>2. FirstStep(k) \in Pcs
    BY DEF FirstStep, Kind, Creations, Awaiting
  <2>3. /\ pc' \in [Requests -> Pcs]
        /\ kind' \in [Requests -> Kind]
        /\ target' \in [Requests -> WalletInstanceIds]
        /\ read' \in [Requests -> SUBSET WalletInstanceIds]
        /\ atStart' \in [Requests -> {"clean", "compromised", "revoked", "absent"}]
    BY <2>1, <2>2 DEF TypeOK, Goto
  <2>4. QED
    BY <1>1, <2>3 DEF Start, TypeOK, database, outside
<1>2. ASSUME NEW r \in Requests, ConsumeNonce(r) PROVE TypeOK'
  <2>1. nonces' \in SUBSET Nonces
    BY <1>2 DEF ConsumeNonce, TypeOK
  <2>2. /\ pc' \in [Requests -> Pcs]
        /\ faults' \in 0..MaxFaults /\ troubled' \in SUBSET Requests
    BY <1>0, <1>2, AnsweredType, GotoType, TroubleType DEF ConsumeNonce, Ended
  <2>3. atStart' \in [Requests -> {"clean", "compromised", "revoked", "absent"}]
    BY <1>2, LookType DEF ConsumeNonce
  <2>4. QED
    BY <1>2, <2>1, <2>2, <2>3 DEF ConsumeNonce, TypeOK, outside, request
<1>3. ASSUME NEW r \in Requests, NEW next \in Pcs, Goto(r, next),
             UNCHANGED <<database, outside, request, read, mail, faults, troubled>>,
             Look(r) \/ UNCHANGED atStart
      PROVE  TypeOK'
  BY <1>3, GotoType, LookType DEF TypeOK, database, outside, request
<1>4. ASSUME NEW r \in Requests,
             \/ ValidateAttestation(r) \/ CreateAttestation(r) \/ ReadStatus(r)
      PROVE  TypeOK'
  <2>1. \E next \in Pcs : Goto(r, next)
    BY <1>4 DEF ValidateAttestation, CreateAttestation, GetValidWalletInstance,
       ValidateAssertion, SignAttestation, ReadStatus, Awaiting, Ended, Revoked, Valid, TypeOK
  <2>2. /\ UNCHANGED <<database, outside, request, read, mail, faults, troubled>>
        /\ Look(r) \/ UNCHANGED atStart
    BY <1>4 DEF ValidateAttestation, CreateAttestation, GetValidWalletInstance,
       ValidateAssertion, SignAttestation, ReadStatus, ghosts
  <2>3. QED
    BY <1>3, <2>1, <2>2
<1>5. ASSUME NEW r \in Requests, InsertWalletInstance(r) PROVE TypeOK'
  <2>1. instance' \in [WalletInstanceIds -> RevocationReason \cup {"absent", "valid"}]
    BY <1>5 DEF InsertWalletInstance, TypeOK
  <2>2. /\ pc' \in [Requests -> Pcs]
        /\ faults' \in 0..MaxFaults /\ troubled' \in SUBSET Requests
    BY <1>5, AnsweredType, GotoType, TroubleType DEF InsertWalletInstance, Ended, Awaiting
  <2>3. QED
    BY <1>5, <2>1, <2>2 DEF InsertWalletInstance, TypeOK, outside, request
<1>6. ASSUME NEW r \in Requests, FindValidWalletInstances(r) PROVE TypeOK'
  <2>1. pc' \in [Requests -> Pcs]
    BY <1>0, <1>6, GotoType DEF FindValidWalletInstances, Awaiting
  <2>2. read' \in [Requests -> SUBSET WalletInstanceIds]
    <3>1. ToRevoke(r) \in SUBSET WalletInstanceIds
      BY DEF ToRevoke
    <3>2. read' = [read EXCEPT ![r] = ToRevoke(r)]
      BY <1>6 DEF FindValidWalletInstances
    <3>3. QED
      BY <3>1, <3>2, ReadType
  <2>3. QED
    BY <1>6, <2>1, <2>2 DEF FindValidWalletInstances, TypeOK, database, outside, request, ghosts
<1>7. ASSUME NEW r \in Requests, RevokeUserWalletInstances(r) PROVE TypeOK'
  <2>1. instance' \in [WalletInstanceIds -> RevocationReason \cup {"absent", "valid"}]
    BY <1>0, <1>7 DEF RevokeUserWalletInstances, TypeOK
  <2>2. /\ pc' \in [Requests -> Pcs]
        /\ faults' \in 0..MaxFaults /\ troubled' \in SUBSET Requests
    BY <1>0, <1>7, AnsweredType DEF RevokeUserWalletInstances
  <2>3. QED
    BY <1>7, <2>1, <2>2 DEF RevokeUserWalletInstances, TypeOK, outside, request
<1>8. ASSUME NEW r \in Requests, RevokeAllCredentials(r) PROVE TypeOK'
  <2>1. pc' \in [Requests -> Pcs]
    BY <1>0, <1>8, GotoType DEF RevokeAllCredentials
  <2>2. faults' \in 0..MaxFaults /\ troubled' \in SUBSET Requests
    BY <1>8, TroubleType DEF RevokeAllCredentials
  <2>3. credentials' \in SUBSET WalletInstanceIds
    BY <1>8 DEF RevokeAllCredentials, TypeOK
  <2>4. QED
    BY <1>8, <2>1, <2>2, <2>3 DEF RevokeAllCredentials, TypeOK, database, request
<1>9. ASSUME NEW r \in Requests, EnqueueMail(r) PROVE TypeOK'
  <2>1. /\ pc' \in [Requests -> Pcs]
        /\ faults' \in 0..MaxFaults /\ troubled' \in SUBSET Requests
    BY <1>9, AnsweredType DEF EnqueueMail, Ended
  <2>2. mail' \in [Requests -> {"none", "queued", "sent"}]
    BY <1>9 DEF EnqueueMail, TypeOK
  <2>3. QED
    BY <1>9, <2>1, <2>2 DEF EnqueueMail, TypeOK, database, outside, request
<1>10. ASSUME NEW r \in Requests, CheckAttestationRevocation(r) PROVE TypeOK'
  <2>1. pc' \in [Requests -> Pcs]
    BY <1>10, GotoType DEF CheckAttestationRevocation, Awaiting, Ended
  <2>2. read' \in [Requests -> SUBSET WalletInstanceIds]
    <3>1. target[r] \in WalletInstanceIds /\ {target[r]} \in SUBSET WalletInstanceIds
      BY DEF TypeOK
    <3>2. read' \in {read, [read EXCEPT ![r] = {target[r]}]}
      BY <1>10, Zenon DEF CheckAttestationRevocation
    <3>3. QED
      BY <3>1, <3>2, ReadType DEF TypeOK
  <2>3. QED
    BY <1>10, <2>1, <2>2
    DEF CheckAttestationRevocation, TypeOK, database, outside, request, ghosts
<1>11. ASSUME NEW r \in Requests, FailCall(r) PROVE TypeOK'
  <2>1. pc' \in [Requests -> Pcs]
    BY <1>0, <1>11, GotoType DEF FailCall, Ended
  <2>2. faults' \in 0..MaxFaults /\ troubled' \in SUBSET Requests
    BY <1>11, TroubleType DEF FailCall
  <2>3. QED
    BY <1>11, <2>1, <2>2 DEF FailCall, TypeOK, database, outside, request
<1>12. ASSUME NEW r \in Requests, Deliver(r) \/ PoisonMail(r) PROVE TypeOK'
  BY <1>12 DEF Deliver, PoisonMail, TypeOK, database, outside, request, ghosts
<1>13. ASSUME NEW n \in Nonces, GetNonce(n) \/ ExpireNonce(n) PROVE TypeOK'
  BY <1>13 DEF GetNonce, ExpireNonce, TypeOK, outside, request, ghosts
<1>14. ASSUME NEW i \in WalletInstanceIds, IssueCredentials(i) \/ RevokeCertificate(i)
       PROVE  TypeOK'
  BY <1>14 DEF IssueCredentials, RevokeCertificate, TypeOK, database, request, ghosts
<1>15. CASE UNCHANGED vars
  BY <1>15 DEF vars, TypeOK, database, outside, request, ghosts
<1>16. QED
  BY <1>1, <1>2, <1>4, <1>5, <1>6, <1>7, <1>8, <1>9, <1>10, <1>11, <1>12, <1>13, <1>14, <1>15
  DEF Next, CreateWalletInstance, Revocation, GetWalletInstanceStatus, Mail,
      SendEmailOnWalletInstanceCreation, SendEmailOnWalletInstanceRevocation

----------------------------------------------------------------------------
(* Nothing a request has seen of the world is undone.                      *)
WorldGoesOn ==
  /\ \A i \in WalletInstanceIds :
       /\ instance[i] # "absent" => instance'[i] # "absent"
       /\ Revoked(i) => instance'[i] \in RevocationReason
  /\ compromised \subseteq compromised'

(* Request u is where it was.                                              *)
Unmoved(u) ==
  /\ pc'[u] = pc[u] /\ kind'[u] = kind[u] /\ target'[u] = target[u]
  /\ read'[u] = read[u] /\ mail'[u] = mail[u] /\ atStart'[u] = atStart[u]
  /\ u \in troubled' <=> u \in troubled

(* A request that does not move can still count on what it did.            *)
LEMMA UnmovedKeeps ==
  ASSUME TypeOK, WorldGoesOn, NEW u \in Requests, Unmoved(u), RequestInv(u)
  PROVE  RequestInv(u)'
<1>1. /\ target[u] \in WalletInstanceIds
      /\ instance[target[u]] # "absent" => instance'[target[u]] # "absent"
      /\ Revoked(target[u]) => instance'[target[u]] \in RevocationReason
      /\ target[u] \in compromised => target[u] \in compromised'
  BY DEF TypeOK, WorldGoesOn
<1>2. Revoked(target[u])' = (instance'[target'[u]] \in RevocationReason)
  BY DEF Revoked
<1>3. /\ PcFitsKind(u)' /\ NotStarted(u)' /\ HasInserted(u)' /\ TroubleEndsIt(u)'
  BY <1>1 DEF Unmoved, RequestInv, PcFitsKind, NotStarted, HasInserted, TroubleEndsIt
<1>4. AtStartHolds(u)' /\ ValidIsRead(u)' /\ StatusIsRead(u)'
  BY <1>1, <1>2 DEF Unmoved, RequestInv, AtStartHolds, ValidIsRead, StatusIsRead, Revoked
<1>5. TargetIsRead(u)' /\ MailIsTrue(u)'
  BY <1>1, <1>2 DEF Unmoved, RequestInv, TargetIsRead, MailIsTrue, Revoked
<1>6. QED
  BY <1>3, <1>4, <1>5 DEF RequestInv

(* A step of request r: what Next lets it do.                              *)
Step(r) ==
  \/ Start(r) \/ ConsumeNonce(r)
  \/ CreateWalletInstance(r) \/ Revocation(r)
  \/ CreateAttestation(r) \/ GetWalletInstanceStatus(r)
  \/ Mail(r) \/ FailCall(r)

(* What a request may write of the documents and of the world.             *)
LEMMA StepWrites ==
  ASSUME NEW r \in Requests, Step(r)
  PROVE  /\ instance' = instance \/ InsertWalletInstance(r) \/ RevokeUserWalletInstances(r)
         /\ compromised' = compromised /\ credentials' \in {{}, credentials}
         /\ askedNonces' = askedNonces
         /\ nonces' = nonces \/ \E n \in askedNonces : nonces' = nonces \ {n}
BY DEF Step, Start, ConsumeNonce, CreateWalletInstance, ValidateAttestation,
   InsertWalletInstance, RevokeUserWalletInstances,
   Revocation, FindValidWalletInstances, RevokeAllCredentials, CreateAttestation,
   GetValidWalletInstance, ValidateAssertion, SignAttestation,
   GetWalletInstanceStatus, ReadStatus, CheckAttestationRevocation, Mail,
   EnqueueMail, PoisonMail, SendEmailOnWalletInstanceCreation,
   SendEmailOnWalletInstanceRevocation, Deliver, FailCall, database, outside

(* What a patch writes is a revocation.                                    *)
LEMMA ReasonRevokes ==
  ASSUME TypeOK, NEW r \in Requests, PcFitsKind(r), pc[r] = "patching"
  PROVE  Reason(r) \in RevocationReason
BY NextPcs

(* No step undoes what a request has seen.                                 *)
LEMMA StepWorld ==
  TypeOK /\ RequestsInv /\ [Next]_vars => WorldGoesOn
<1> SUFFICES ASSUME TypeOK, RequestsInv, [Next]_vars PROVE WorldGoesOn
  OBVIOUS
<1>1. "absent" \notin RevocationReason /\ "valid" \notin RevocationReason
  BY DEF RevocationReason
<1>2. ASSUME NEW r \in Requests, InsertWalletInstance(r) PROVE WorldGoesOn
  BY <1>1, <1>2 DEF InsertWalletInstance, WorldGoesOn, outside, Revoked, TypeOK
<1>3. ASSUME NEW r \in Requests, RevokeUserWalletInstances(r) PROVE WorldGoesOn
  <2>1. Reason(r) \in RevocationReason
    BY <1>3, ReasonRevokes DEF RevokeUserWalletInstances, RequestsInv, RequestInv
  <2>2. \A i \in WalletInstanceIds :
          instance'[i] = instance[i] \/ (instance[i] # "absent" /\ instance'[i] = Reason(r))
    BY <1>3 DEF RevokeUserWalletInstances
  <2>3. QED
    BY <1>1, <1>3, <2>1, <2>2 DEF RevokeUserWalletInstances, WorldGoesOn, outside, Revoked
<1>4. CASE instance' = instance /\ compromised \subseteq compromised'
  BY <1>4 DEF WorldGoesOn, Revoked
<1>5. ASSUME NEW i \in WalletInstanceIds, IssueCredentials(i) \/ RevokeCertificate(i)
      PROVE  WorldGoesOn
  BY <1>4, <1>5 DEF IssueCredentials, RevokeCertificate, database
<1>6. ASSUME NEW r \in Requests, Step(r) PROVE WorldGoesOn
  <2>1. \/ InsertWalletInstance(r) \/ RevokeUserWalletInstances(r)
        \/ instance' = instance /\ compromised' = compromised
    BY <1>6, StepWrites
  <2>2. QED
    BY <1>2, <1>3, <1>4, <2>1
<1>7. ASSUME NEW n \in Nonces, GetNonce(n) \/ ExpireNonce(n) PROVE WorldGoesOn
  BY <1>4, <1>7 DEF GetNonce, ExpireNonce, outside
<1>8. CASE UNCHANGED vars
  BY <1>4, <1>8 DEF vars, database, outside
<1>9. QED
  BY <1>5, <1>6, <1>7, <1>8 DEF Next, Step

(* A step of one request does not move the others.                         *)
LEMMA OthersUnmoved ==
  ASSUME TypeOK, NEW r \in Requests, Step(r), NEW u \in Requests, u # r
  PROVE  Unmoved(u)
<1>1. /\ kind'[u] = kind[u] /\ target'[u] = target[u] /\ mail'[u] = mail[u]
  BY DEF Step, Start, ConsumeNonce, CreateWalletInstance, ValidateAttestation,
     InsertWalletInstance, RevokeUserWalletInstances,
     Revocation, FindValidWalletInstances, RevokeAllCredentials, CreateAttestation,
     GetValidWalletInstance, ValidateAssertion, SignAttestation,
     GetWalletInstanceStatus, ReadStatus, CheckAttestationRevocation, Mail,
     EnqueueMail, PoisonMail, SendEmailOnWalletInstanceCreation,
     SendEmailOnWalletInstanceRevocation, Deliver, FailCall, request, TypeOK
<1>2. pc'[u] = pc[u]
  BY DEF Step, Start, ConsumeNonce, CreateWalletInstance, ValidateAttestation,
     InsertWalletInstance, RevokeUserWalletInstances,
     Revocation, FindValidWalletInstances, RevokeAllCredentials, CreateAttestation,
     GetValidWalletInstance, ValidateAssertion, SignAttestation,
     GetWalletInstanceStatus, ReadStatus, CheckAttestationRevocation, Mail,
     EnqueueMail, PoisonMail, SendEmailOnWalletInstanceCreation,
     SendEmailOnWalletInstanceRevocation, Deliver, FailCall, Goto, Answered, TypeOK
<1>3. read'[u] = read[u]
  BY DEF Step, Start, ConsumeNonce, CreateWalletInstance, ValidateAttestation,
     InsertWalletInstance, RevokeUserWalletInstances,
     Revocation, FindValidWalletInstances, RevokeAllCredentials, CreateAttestation,
     GetValidWalletInstance, ValidateAssertion, SignAttestation,
     GetWalletInstanceStatus, ReadStatus, CheckAttestationRevocation, Mail,
     EnqueueMail, PoisonMail, SendEmailOnWalletInstanceCreation,
     SendEmailOnWalletInstanceRevocation, Deliver, FailCall, TypeOK
<1>4. atStart'[u] = atStart[u]
  BY DEF Step, Start, ConsumeNonce, CreateWalletInstance, ValidateAttestation,
     InsertWalletInstance, RevokeUserWalletInstances,
     Revocation, FindValidWalletInstances, RevokeAllCredentials, CreateAttestation,
     GetValidWalletInstance, ValidateAssertion, SignAttestation,
     GetWalletInstanceStatus, ReadStatus, CheckAttestationRevocation, Mail,
     EnqueueMail, PoisonMail, SendEmailOnWalletInstanceCreation,
     SendEmailOnWalletInstanceRevocation, Deliver, FailCall, Look, ghosts, TypeOK
<1>5. u \in troubled' <=> u \in troubled
  BY DEF Step, Start, ConsumeNonce, CreateWalletInstance, ValidateAttestation,
     InsertWalletInstance, RevokeUserWalletInstances,
     Revocation, FindValidWalletInstances, RevokeAllCredentials, CreateAttestation,
     GetValidWalletInstance, ValidateAssertion, SignAttestation,
     GetWalletInstanceStatus, ReadStatus, CheckAttestationRevocation, Mail,
     EnqueueMail, PoisonMail, SendEmailOnWalletInstanceCreation,
     SendEmailOnWalletInstanceRevocation, Deliver, FailCall, Answered, Trouble, ghosts
<1>6. QED
  BY <1>1, <1>2, <1>3, <1>4, <1>5 DEF Unmoved

----------------------------------------------------------------------------
(* Goto moves the request to the call it names.                            *)
LEMMA GotoHere ==
  ASSUME TypeOK, NEW r \in Requests, NEW next, Goto(r, next)
  PROVE  pc'[r] = next
BY DEF TypeOK, Goto

(* An answer moves the request on; without one it has been in trouble.     *)
LEMMA AnsweredHere ==
  ASSUME TypeOK, NEW r \in Requests, NEW next, NEW otherwise,
         Answered(r, next, otherwise)
  PROVE  \/ pc'[r] = next /\ troubled' = troubled
         \/ pc'[r] = otherwise /\ troubled' = troubled \cup {r}
BY GotoHere DEF Answered, Trouble

(* WorldGoesOn for the instance a request names.                           *)
LEMMA TargetGoesOn ==
  ASSUME TypeOK, WorldGoesOn, NEW r \in Requests, target'[r] = target[r]
  PROVE  /\ instance[target[r]] # "absent" => instance'[target'[r]] # "absent"
         /\ Revoked(target[r]) => Revoked(target[r])'
         /\ Revoked(target[r])' => instance'[target'[r]] # "absent"
         /\ target[r] \in compromised => target'[r] \in compromised'
BY DEF TypeOK, WorldGoesOn, Revoked, RevocationReason

(* A request begins with nothing read and nothing sent.                    *)
LEMMA StartActor ==
  ASSUME TypeOK, WorldGoesOn, NEW r \in Requests, RequestInv(r), Start(r)
  PROVE  RequestInv(r)'
<1>1. PICK k \in Kind, i \in WalletInstanceIds :
        /\ k = "setAll" => i = AnyWalletInstance
        /\ kind' = [kind EXCEPT ![r] = k]
        /\ target' = [target EXCEPT ![r] = i]
        /\ read' = [read EXCEPT ![r] = IF k = "setStatus" THEN {i} ELSE {}]
        /\ Goto(r, FirstStep(k))
        /\ atStart' = IF k = "setStatus" /\ instance[i] = "absent"
                      THEN [atStart EXCEPT ![r] = "absent"] ELSE atStart
  BY DEF Start
<1>2. /\ kind'[r] = k /\ target'[r] = i /\ pc'[r] = FirstStep(k)
      /\ k = "setStatus" => read'[r] = {i}
      /\ atStart'[r] = IF k = "setStatus" /\ instance[i] = "absent"
                       THEN "absent" ELSE "clean"
      /\ mail'[r] = "none" /\ r \notin troubled' /\ r \notin troubled
      /\ instance' = instance
  BY <1>1, GotoHere DEF Start, TypeOK, RequestInv, NotStarted, database
<1>3. PcFitsKind(r)' /\ NotStarted(r)' /\ HasInserted(r)' /\ TroubleEndsIt(r)'
  BY <1>2 DEF PcFitsKind, NotStarted, HasInserted, TroubleEndsIt, FirstStep, Kind, Creations
<1>4. AtStartHolds(r)' /\ ValidIsRead(r)' /\ StatusIsRead(r)'
  BY <1>2 DEF AtStartHolds, ValidIsRead, StatusIsRead, FirstStep, Kind, Creations
<1>5. TargetIsRead(r)' /\ MailIsTrue(r)'
  BY <1>2 DEF TargetIsRead, MailIsTrue, FirstStep, Kind, Creations
<1>6. QED
  BY <1>3, <1>4, <1>5 DEF RequestInv

(* A request past its nonce has seen the instance it names.                *)
LEMMA ConsumeNonceActor ==
  ASSUME TypeOK, WorldGoesOn, NEW r \in Requests, RequestInv(r), ConsumeNonce(r)
  PROVE  RequestInv(r)'
<1>1. pc[r] = "nonce" /\ kind[r] \in Kind /\ kind[r] \in {"create", "renew", "attest"}
  BY DEF ConsumeNonce, TypeOK, RequestInv, PcFitsKind, Kind, Creations
<1>2. /\ kind'[r] = kind[r] /\ target'[r] = target[r] /\ read'[r] = read[r]
      /\ mail'[r] = mail[r] /\ mail[r] = "none"
      /\ instance' = instance /\ compromised' = compromised
  BY <1>1 DEF ConsumeNonce, request, outside, RequestInv, MailIsTrue
<1>3. \/ pc'[r] = AfterNonce(r) /\ troubled' = troubled
      \/ pc'[r] = "refused"
  BY GotoHere, AnsweredHere DEF ConsumeNonce
<1>4. atStart'[r] = IF kind[r] = "attest" /\ Revoked(target[r]) THEN "revoked" ELSE "clean"
  BY <1>1 DEF ConsumeNonce, Look, TypeOK, Creations
<1>5. PcFitsKind(r)' /\ NotStarted(r)' /\ HasInserted(r)' /\ TroubleEndsIt(r)'
  BY <1>1, <1>2, <1>3 DEF PcFitsKind, NotStarted, HasInserted, TroubleEndsIt, AfterNonce,
     Creations, RequestInv
<1>6. AtStartHolds(r)' /\ ValidIsRead(r)' /\ StatusIsRead(r)'
  BY <1>1, <1>2, <1>3, <1>4 DEF AtStartHolds, ValidIsRead, StatusIsRead, AfterNonce,
     Creations, Revoked
<1>7. TargetIsRead(r)' /\ MailIsTrue(r)'
  BY <1>1, <1>2, <1>3 DEF TargetIsRead, MailIsTrue, AfterNonce, Creations
<1>8. QED
  BY <1>5, <1>6, <1>7 DEF RequestInv

(* A creation goes on once its instance is there.                          *)
LEMMA CreateWalletInstanceActor ==
  ASSUME TypeOK, WorldGoesOn, NEW r \in Requests, RequestInv(r), CreateWalletInstance(r)
  PROVE  RequestInv(r)'
<1>1. pc[r] \in {"validating", "inserting"} /\ kind[r] \in Creations
  BY DEF CreateWalletInstance, ValidateAttestation, InsertWalletInstance, TypeOK,
     RequestInv, PcFitsKind, Kind, Creations
<1>2. /\ kind'[r] = kind[r] /\ target'[r] = target[r] /\ read'[r] = read[r]
      /\ mail'[r] = mail[r] /\ mail[r] = "none" /\ atStart'[r] = atStart[r]
  BY <1>1 DEF CreateWalletInstance, ValidateAttestation, InsertWalletInstance, request,
     RequestInv, MailIsTrue, ghosts
<1>3. /\ \/ pc'[r] \in {"inserting", "refused"} /\ troubled' = troubled
         \/ pc'[r] = "finding" /\ troubled' = troubled /\ instance'[target'[r]] # "absent"
         \/ pc'[r] = "stopped"
  <2>1. ASSUME InsertWalletInstance(r), instance[target[r]] = "absent"
        PROVE  instance'[target[r]] = "valid"
    BY <2>1 DEF InsertWalletInstance, TypeOK
  <2>2. CASE InsertWalletInstance(r)
    BY <1>2, <2>1, <2>2, GotoHere, AnsweredHere DEF InsertWalletInstance
  <2>3. CASE ValidateAttestation(r)
    BY <2>3, GotoHere DEF ValidateAttestation, ghosts
  <2>4. QED
    BY <2>2, <2>3 DEF CreateWalletInstance
<1>4. PcFitsKind(r)' /\ NotStarted(r)' /\ HasInserted(r)' /\ TroubleEndsIt(r)'
  BY <1>1, <1>2, <1>3 DEF PcFitsKind, NotStarted, HasInserted, TroubleEndsIt, Creations,
     RequestInv
<1>5. AtStartHolds(r)' /\ ValidIsRead(r)' /\ StatusIsRead(r)'
  BY <1>1, <1>2, <1>3, TargetGoesOn DEF AtStartHolds, ValidIsRead, StatusIsRead, Creations,
     RequestInv
<1>6. TargetIsRead(r)' /\ MailIsTrue(r)'
  BY <1>1, <1>2, <1>3 DEF TargetIsRead, MailIsTrue, Creations
<1>7. QED
  BY <1>4, <1>5, <1>6 DEF RequestInv

(* The query of the older instances changes nothing that is counted on.    *)
LEMMA FindActor ==
  ASSUME TypeOK, WorldGoesOn, NEW r \in Requests, RequestInv(r),
         FindValidWalletInstances(r)
  PROVE  RequestInv(r)'
<1>1. pc[r] = "finding" /\ kind[r] \in {"create", "renew", "setAll"}
  BY DEF FindValidWalletInstances, TypeOK, RequestInv, PcFitsKind, Kind, Creations
<1>2. /\ kind'[r] = kind[r] /\ target'[r] = target[r]
      /\ mail'[r] = mail[r] /\ mail[r] = "none" /\ atStart'[r] = atStart[r]
      /\ instance' = instance /\ troubled' = troubled
      /\ pc'[r] \in {NothingToRevoke(r), "patching"}
  BY <1>1, GotoHere DEF FindValidWalletInstances, request, database, ghosts,
     RequestInv, MailIsTrue
<1>3. PcFitsKind(r)' /\ NotStarted(r)' /\ HasInserted(r)' /\ TroubleEndsIt(r)'
  BY <1>1, <1>2 DEF PcFitsKind, NotStarted, HasInserted, TroubleEndsIt, Creations,
     RequestInv, NothingToRevoke, AfterCredentials
<1>4. AtStartHolds(r)' /\ ValidIsRead(r)' /\ StatusIsRead(r)'
  BY <1>1, <1>2, TargetGoesOn DEF AtStartHolds, ValidIsRead, StatusIsRead, Creations,
     RequestInv, NothingToRevoke, AfterCredentials
<1>5. TargetIsRead(r)' /\ MailIsTrue(r)'
  BY <1>1, <1>2 DEF TargetIsRead, MailIsTrue, Creations, NothingToRevoke,
     AfterCredentials, RequestInv, HasInserted
<1>6. QED
  BY <1>3, <1>4, <1>5 DEF RequestInv

(* The patch revokes what was read, and nothing becomes valid by it.       *)
LEMMA PatchActor ==
  ASSUME TypeOK, WorldGoesOn, NEW r \in Requests, RequestInv(r),
         RevokeUserWalletInstances(r)
  PROVE  RequestInv(r)'
<1>1. /\ pc[r] = "patching" /\ target[r] \in WalletInstanceIds
      /\ kind[r] \in {"create", "renew", "status", "setStatus", "setAll"}
  BY DEF RevokeUserWalletInstances, TypeOK, RequestInv, PcFitsKind, Kind, Creations
<1>2. /\ kind'[r] = kind[r] /\ target'[r] = target[r] /\ read'[r] = read[r]
      /\ mail'[r] = mail[r] /\ mail[r] = "none" /\ atStart'[r] = atStart[r]
      /\ \/ pc'[r] = AfterPatch(r) /\ troubled' = troubled
         \/ pc'[r] = NoAnswerToPatch(r) /\ troubled' = troubled \cup {r}
  BY <1>1, AnsweredHere DEF RevokeUserWalletInstances, request, RequestInv, MailIsTrue
<1>3. kind[r] \in {"status", "setStatus"} =>
        IF instance[target[r]] = "absent"
        THEN instance'[target'[r]] = "absent" ELSE Revoked(target[r])'
  <2>1. kind[r] \in {"status", "setStatus"} => target[r] \in read[r]
    BY <1>1 DEF RequestInv, StatusIsRead, TargetIsRead
  <2>2. Reason(r) \in RevocationReason
    BY <1>1, ReasonRevokes DEF RequestInv
  <2>3. target[r] \in read[r] =>
          instance'[target[r]] = IF instance[target[r]] # "absent" THEN Reason(r)
                                 ELSE instance[target[r]]
    BY <1>1 DEF RevokeUserWalletInstances
  <2>4. QED
    BY <1>2, <2>1, <2>2, <2>3 DEF Revoked
<1>4. PcFitsKind(r)' /\ NotStarted(r)' /\ HasInserted(r)' /\ TroubleEndsIt(r)'
  BY <1>1, <1>2, TargetGoesOn DEF PcFitsKind, NotStarted, HasInserted, TroubleEndsIt,
     Creations, RequestInv, AfterPatch, NoAnswerToPatch
<1>5. AtStartHolds(r)' /\ ValidIsRead(r)' /\ StatusIsRead(r)'
  BY <1>1, <1>2, <1>3, TargetGoesOn DEF AtStartHolds, ValidIsRead, StatusIsRead, Creations,
     RequestInv, AfterPatch, NoAnswerToPatch
<1>6. TargetIsRead(r)' /\ MailIsTrue(r)'
  BY <1>1, <1>2, <1>3, TargetGoesOn DEF TargetIsRead, MailIsTrue, Creations, RequestInv,
     AfterPatch, NoAnswerToPatch, HasInserted
<1>7. QED
  BY <1>4, <1>5, <1>6 DEF RequestInv

(* Whatever the PID issuer answers, the request goes on.                   *)
LEMMA CredentialsActor ==
  ASSUME TypeOK, WorldGoesOn, NEW r \in Requests, RequestInv(r),
         RevokeAllCredentials(r)
  PROVE  RequestInv(r)'
<1>1. /\ pc[r] = "credentials"
      /\ kind[r] \in {"create", "renew", "status", "setStatus"}
  BY DEF RevokeAllCredentials, TypeOK, RequestInv, PcFitsKind, Kind, Creations
<1>2. /\ kind'[r] = kind[r] /\ target'[r] = target[r] /\ read'[r] = read[r]
      /\ mail'[r] = mail[r] /\ mail[r] = "none" /\ atStart'[r] = atStart[r]
      /\ instance' = instance /\ pc'[r] = AfterCredentials(r)
      /\ troubled' = troubled \/ troubled' = troubled \cup {r}
  BY <1>1, GotoHere DEF RevokeAllCredentials, request, database, RequestInv, MailIsTrue,
     Trouble
<1>3. PcFitsKind(r)' /\ NotStarted(r)' /\ HasInserted(r)' /\ TroubleEndsIt(r)'
  BY <1>1, <1>2 DEF PcFitsKind, NotStarted, HasInserted, TroubleEndsIt, Creations,
     RequestInv, AfterCredentials
<1>4. AtStartHolds(r)' /\ ValidIsRead(r)' /\ StatusIsRead(r)'
  BY <1>1, <1>2, TargetGoesOn DEF AtStartHolds, ValidIsRead, StatusIsRead, Creations,
     RequestInv, AfterCredentials
<1>5. TargetIsRead(r)' /\ MailIsTrue(r)'
  BY <1>1, <1>2 DEF TargetIsRead, MailIsTrue, Creations, AfterCredentials, RequestInv,
     HasInserted
<1>6. QED
  BY <1>3, <1>4, <1>5 DEF RequestInv

(* What is enqueued is true, and delivery does not change it.              *)
LEMMA MailActor ==
  ASSUME TypeOK, WorldGoesOn, NEW r \in Requests, RequestInv(r), Mail(r)
  PROVE  RequestInv(r)'
<1>1. /\ kind'[r] = kind[r] /\ target'[r] = target[r] /\ read'[r] = read[r]
      /\ atStart'[r] = atStart[r] /\ instance' = instance /\ compromised' = compromised
  BY DEF Mail, EnqueueMail, PoisonMail, SendEmailOnWalletInstanceCreation, Deliver,
     SendEmailOnWalletInstanceRevocation, request, ghosts, database, outside
<1>2. \/ /\ pc[r] = "mail" /\ pc'[r] \in {"done", "stopped"}
      \/ /\ mail[r] = "queued" /\ mail'[r] \in {"none", "sent"}
         /\ pc' = pc /\ troubled' = troubled
  BY AnsweredHere DEF Mail, EnqueueMail, PoisonMail, SendEmailOnWalletInstanceCreation,
     Deliver, SendEmailOnWalletInstanceRevocation, ghosts, TypeOK
<1>3. pc[r] \in {"mail", "done", "stopped"}
  BY <1>2 DEF RequestInv, MailIsTrue
<1>4. kind[r] \in Kind
  BY DEF TypeOK
<1>5. PcFitsKind(r)' /\ NotStarted(r)' /\ HasInserted(r)' /\ TroubleEndsIt(r)'
  BY <1>1, <1>2, <1>3, <1>4 DEF PcFitsKind, NotStarted, HasInserted, TroubleEndsIt,
     Creations, Kind, RequestInv
<1>6. AtStartHolds(r)' /\ ValidIsRead(r)' /\ StatusIsRead(r)'
  BY <1>1, <1>2, <1>3, TargetGoesOn DEF AtStartHolds, ValidIsRead, StatusIsRead, RequestInv
<1>7. TargetIsRead(r)' /\ MailIsTrue(r)'
  BY <1>1, <1>2, <1>3, TargetGoesOn DEF TargetIsRead, MailIsTrue, RequestInv
<1>8. QED
  BY <1>5, <1>6, <1>7 DEF RequestInv

(* An attestation is signed only after the instance was read as valid.     *)
LEMMA AttestationActor ==
  ASSUME TypeOK, WorldGoesOn, NEW r \in Requests, RequestInv(r), CreateAttestation(r)
  PROVE  RequestInv(r)'
<1>1. /\ pc[r] \in {"reading", "asserting", "signing"} /\ kind[r] = "attest"
      /\ kind'[r] = kind[r] /\ target'[r] = target[r] /\ read'[r] = read[r]
      /\ mail'[r] = mail[r] /\ mail[r] = "none" /\ atStart'[r] = atStart[r]
      /\ instance' = instance /\ compromised' = compromised /\ troubled' = troubled
  BY DEF CreateAttestation, GetValidWalletInstance, ValidateAssertion, SignAttestation,
     request, ghosts, database, outside, RequestInv, MailIsTrue, PcFitsKind, TypeOK,
     Kind, Creations
<1>2. /\ pc'[r] \in {"asserting", "signing", "granted", "refused"}
      /\ pc[r] = "reading" => pc'[r] = "refused" \/ Valid(target[r])
  BY GotoHere DEF CreateAttestation, GetValidWalletInstance, ValidateAssertion,
     SignAttestation
<1>3. PcFitsKind(r)' /\ NotStarted(r)' /\ HasInserted(r)' /\ TroubleEndsIt(r)'
  BY <1>1, <1>2 DEF PcFitsKind, NotStarted, HasInserted, TroubleEndsIt, Creations
<1>4. AtStartHolds(r)' /\ ValidIsRead(r)' /\ StatusIsRead(r)'
  BY <1>1, <1>2 DEF AtStartHolds, ValidIsRead, StatusIsRead, RequestInv, Valid, Revoked,
     RevocationReason
<1>5. TargetIsRead(r)' /\ MailIsTrue(r)'
  BY <1>1, <1>2 DEF TargetIsRead, MailIsTrue
<1>6. QED
  BY <1>3, <1>4, <1>5 DEF RequestInv

(* The status is the one read, or the one being written.                   *)
LEMMA StatusActor ==
  ASSUME TypeOK, WorldGoesOn, NEW r \in Requests, RequestInv(r),
         GetWalletInstanceStatus(r)
  PROVE  RequestInv(r)'
<1>1. /\ pc[r] \in {"reading", "revocation list"} /\ kind[r] = "status"
      /\ target[r] \in WalletInstanceIds
      /\ kind'[r] = kind[r] /\ target'[r] = target[r]
      /\ mail'[r] = mail[r] /\ mail[r] = "none"
      /\ instance' = instance /\ compromised' = compromised /\ troubled' = troubled
  BY DEF GetWalletInstanceStatus, ReadStatus, CheckAttestationRevocation,
     request, ghosts, database, outside, RequestInv, MailIsTrue, PcFitsKind, TypeOK,
     Kind, Creations
<1>2. CASE ReadStatus(r)
  <2>1. /\ pc'[r] = CASE instance[target[r]] = "absent" -> "refused"
                      [] Revoked(target[r]) -> "revoked"
                      [] Valid(target[r]) -> "revocation list"
        /\ atStart'[r] = IF Revoked(target[r]) THEN "revoked"
                         ELSE IF target[r] \in compromised THEN "compromised" ELSE "clean"
    BY <1>1, <1>2, GotoHere DEF ReadStatus, Look, TypeOK, Creations
  <2>2. /\ instance[target[r]] = "absent" => pc'[r] = "refused"
        /\ Revoked(target[r]) => pc'[r] = "revoked"
        /\ Valid(target[r]) => pc'[r] = "revocation list"
        /\ instance[target[r]] = "absent" \/ Revoked(target[r]) \/ Valid(target[r])
    BY <1>1, <2>1 DEF Revoked, Valid, RevocationReason, TypeOK
  <2>3. PcFitsKind(r)' /\ NotStarted(r)' /\ HasInserted(r)' /\ TroubleEndsIt(r)'
    BY <1>1, <2>2 DEF PcFitsKind, NotStarted, HasInserted, TroubleEndsIt, Creations
  <2>4. AtStartHolds(r)' /\ ValidIsRead(r)' /\ StatusIsRead(r)'
    BY <1>1, <2>1, <2>2 DEF AtStartHolds, ValidIsRead, StatusIsRead, Revoked, Valid,
       RevocationReason
  <2>5. TargetIsRead(r)' /\ MailIsTrue(r)'
    BY <1>1, <2>2 DEF TargetIsRead, MailIsTrue
  <2>6. QED
    BY <2>3, <2>4, <2>5 DEF RequestInv
<1>3. CASE CheckAttestationRevocation(r)
  <2>1. /\ pc[r] = "revocation list" /\ atStart'[r] = atStart[r]
        /\ IF target[r] \in compromised
           THEN read'[r] = {target[r]} /\ pc'[r] = "credentials"
           ELSE pc'[r] = "valid"
    BY <1>3, GotoHere DEF CheckAttestationRevocation, ghosts, TypeOK
  <2>2. PcFitsKind(r)' /\ NotStarted(r)' /\ HasInserted(r)' /\ TroubleEndsIt(r)'
    BY <1>1, <2>1 DEF PcFitsKind, NotStarted, HasInserted, TroubleEndsIt, Creations
  <2>3. AtStartHolds(r)' /\ ValidIsRead(r)' /\ StatusIsRead(r)'
    BY <1>1, <2>1 DEF AtStartHolds, ValidIsRead, StatusIsRead, Revoked, RequestInv
  <2>4. TargetIsRead(r)' /\ MailIsTrue(r)'
    BY <1>1, <2>1 DEF TargetIsRead, MailIsTrue
  <2>5. QED
    BY <2>2, <2>3, <2>4 DEF RequestInv
<1>4. QED
  BY <1>2, <1>3 DEF GetWalletInstanceStatus

(* A request a call of which failed has ended or goes on as if it had not. *)
LEMMA FailActor ==
  ASSUME TypeOK, WorldGoesOn, NEW r \in Requests, RequestInv(r), FailCall(r)
  PROVE  RequestInv(r)'
<1>1. /\ pc[r] \in Awaiting /\ target[r] \in WalletInstanceIds /\ kind[r] \in Kind
      /\ kind'[r] = kind[r] /\ target'[r] = target[r] /\ read'[r] = read[r]
      /\ mail'[r] = mail[r] /\ mail[r] = "none" /\ atStart'[r] = atStart[r]
      /\ instance' = instance /\ compromised' = compromised
      /\ troubled' = troubled \cup {r}
      /\ pc'[r] \in {Failed(r), "stopped"}
  BY GotoHere DEF FailCall, Trouble, request, database, outside, RequestInv, MailIsTrue,
     TypeOK, Awaiting
<1>2. PcFitsKind(r)' /\ NotStarted(r)' /\ HasInserted(r)' /\ TroubleEndsIt(r)'
  BY <1>1 DEF PcFitsKind, NotStarted, HasInserted, TroubleEndsIt, Creations, Kind,
     RequestInv, Failed, AfterCredentials, NoAnswerToPatch, Awaiting
<1>3. AtStartHolds(r)' /\ ValidIsRead(r)' /\ StatusIsRead(r)'
  BY <1>1 DEF AtStartHolds, ValidIsRead, StatusIsRead, Creations, Kind, PcFitsKind,
     RequestInv, Failed, AfterCredentials, NoAnswerToPatch, Revoked, Awaiting
<1>4. TargetIsRead(r)' /\ MailIsTrue(r)'
  BY <1>1 DEF TargetIsRead, MailIsTrue, Creations, Kind, PcFitsKind, HasInserted,
     RequestInv, Failed, AfterCredentials, NoAnswerToPatch, Awaiting, Revoked
<1>5. QED
  BY <1>2, <1>3, <1>4 DEF RequestInv

(* Each step keeps what every request counts on.                           *)
LEMMA StepRequests ==
  TypeOK /\ RequestsInv /\ [Next]_vars => RequestsInv'
<1> SUFFICES ASSUME TypeOK, RequestsInv, [Next]_vars, NEW u \in Requests
             PROVE  RequestInv(u)'
  BY DEF RequestsInv
<1>1. WorldGoesOn /\ RequestInv(u)
  BY StepWorld DEF RequestsInv
<1>2. ASSUME Step(u) PROVE RequestInv(u)'
  BY <1>1, <1>2, StartActor, ConsumeNonceActor, CreateWalletInstanceActor, FindActor,
     PatchActor, CredentialsActor, AttestationActor, StatusActor, MailActor, FailActor
  DEF Step, Revocation
<1>3. ASSUME NEW r \in Requests, Step(r), r # u PROVE RequestInv(u)'
  BY <1>1, <1>3, OthersUnmoved, UnmovedKeeps
<1>4. ASSUME UNCHANGED <<pc, request, read, mail, ghosts>> PROVE RequestInv(u)'
  BY <1>1, <1>4, UnmovedKeeps DEF Unmoved, request, ghosts
<1>5. ASSUME NEW n \in Nonces, GetNonce(n) \/ ExpireNonce(n) PROVE RequestInv(u)'
  BY <1>4, <1>5 DEF GetNonce, ExpireNonce
<1>6. ASSUME NEW i \in WalletInstanceIds, IssueCredentials(i) \/ RevokeCertificate(i)
      PROVE  RequestInv(u)'
  BY <1>4, <1>6 DEF IssueCredentials, RevokeCertificate
<1>7. CASE UNCHANGED vars
  BY <1>4, <1>7 DEF vars
<1>8. QED
  BY <1>2, <1>3, <1>5, <1>6, <1>7 DEF Next, Step

----------------------------------------------------------------------------
(* A creation that still has to revoke an instance finds it, revokes it,   *)
(* or stops.                                                               *)
LEMMA MayStillRevokeActor ==
  ASSUME TypeOK, NEW r \in Requests, RequestInv(r), Step(r),
         NEW i \in WalletInstanceIds, NEW j \in WalletInstanceIds,
         i # j, Valid(j), MayStillRevoke(r, i, j)
  PROVE  MayStillRevoke(r, i, j)' \/ ~Valid(j)'
<1>1. /\ kind[r] \in Creations /\ target[r] = i
      /\ \/ pc[r] \in {"finding", "stopped"}
         \/ pc[r] = "patching" /\ j \in read[r]
  BY DEF MayStillRevoke
<1>2. CASE FindValidWalletInstances(r)
  <2>1. j \in ToRevoke(r)
    BY <1>1 DEF ToRevoke
  <2>2. /\ kind'[r] = kind[r] /\ target'[r] = target[r]
        /\ pc'[r] = "patching" /\ read'[r] = ToRevoke(r)
    BY <1>2, <2>1, GotoHere DEF FindValidWalletInstances, request, TypeOK
  <2>3. QED
    BY <1>1, <2>1, <2>2 DEF MayStillRevoke
<1>3. CASE RevokeUserWalletInstances(r)
  <2>1. instance'[j] = Reason(r) /\ Reason(r) \in RevocationReason
    BY <1>1, <1>3, ReasonRevokes DEF RevokeUserWalletInstances, Valid, RequestInv
  <2>2. QED
    BY <2>1 DEF Valid, RevocationReason
<1>4. CASE FailCall(r)
  <2>1. kind'[r] = kind[r] /\ target'[r] = target[r] /\ pc'[r] \in {Failed(r), "stopped"}
    BY <1>4, GotoHere DEF FailCall, request
  <2>2. pc[r] \in {"finding", "patching"} => Failed(r) = "stopped"
    BY <1>1 DEF Failed, NoAnswerToPatch, Creations
  <2>3. QED
    BY <1>1, <1>4, <2>1, <2>2 DEF MayStillRevoke, FailCall, Awaiting
<1>5. CASE Mail(r)
  <2>1. kind'[r] = kind[r] /\ target'[r] = target[r] /\ pc'[r] = pc[r] /\ read'[r] = read[r]
    BY <1>1, <1>5 DEF Mail, EnqueueMail, PoisonMail, SendEmailOnWalletInstanceCreation,
       SendEmailOnWalletInstanceRevocation, Deliver, request
  <2>2. QED
    BY <1>1, <2>1 DEF MayStillRevoke
<1>6. QED
  BY <1>1, <1>2, <1>3, <1>4, <1>5
  DEF Step, Start, ConsumeNonce, CreateWalletInstance, ValidateAttestation,
      InsertWalletInstance, Revocation, RevokeAllCredentials, CreateAttestation,
      GetValidWalletInstance, ValidateAssertion, SignAttestation,
      GetWalletInstanceStatus, ReadStatus, CheckAttestationRevocation

(* A creation that does not move still has to revoke.                      *)
LEMMA UnmovedMayStillRevoke ==
  ASSUME NEW u \in Requests, Unmoved(u), NEW i, NEW j, MayStillRevoke(u, i, j)
  PROVE  MayStillRevoke(u, i, j)'
BY DEF Unmoved, MayStillRevoke

(* Only an insert makes an instance valid: one that was not there.         *)
LEMMA BecomesValid ==
  ASSUME TypeOK, RequestsInv, [Next]_vars, NEW i \in WalletInstanceIds,
         Valid(i)', ~Valid(i)
  PROVE  \E r \in Requests :
           InsertWalletInstance(r) /\ target[r] = i /\ instance[i] = "absent"
<1>1. ASSUME NEW r \in Requests, RevokeUserWalletInstances(r) PROVE FALSE
  <2>1. Reason(r) \in RevocationReason
    BY <1>1, ReasonRevokes DEF RequestsInv, RequestInv, RevokeUserWalletInstances
  <2>2. instance'[i] = instance[i] \/ instance'[i] = Reason(r)
    BY <1>1 DEF RevokeUserWalletInstances
  <2>3. QED
    BY <2>1, <2>2 DEF Valid, RevocationReason
<1>2. ASSUME NEW r \in Requests, InsertWalletInstance(r)
      PROVE  target[r] = i /\ instance[i] = "absent"
  BY <1>2 DEF InsertWalletInstance, Valid, TypeOK
<1>3. instance' # instance
  BY DEF Valid
<1>4. ASSUME NEW r \in Requests, Step(r)
      PROVE  InsertWalletInstance(r) \/ RevokeUserWalletInstances(r)
  BY <1>3, <1>4, StepWrites
<1>5. \E r \in Requests : Step(r)
  BY <1>3 DEF Next, Step, vars, database, GetNonce, ExpireNonce, IssueCredentials,
     RevokeCertificate
<1>6. QED
  BY <1>1, <1>2, <1>4, <1>5

(* Whoever inserts an instance still has to revoke all the others.         *)
LEMMA InsertMayStillRevoke ==
  ASSUME TypeOK, NEW r \in Requests, RequestInv(r), InsertWalletInstance(r),
         instance[target[r]] = "absent", NEW j
  PROVE  MayStillRevoke(r, target[r], j)'
<1>1. kind[r] \in Creations
  BY DEF InsertWalletInstance, TypeOK, RequestInv, PcFitsKind, Kind, Creations
<1>2. kind'[r] = kind[r] /\ target'[r] = target[r] /\ pc'[r] \in {"finding", "stopped"}
  BY AnsweredHere DEF InsertWalletInstance, request
<1>3. QED
  BY <1>1, <1>2 DEF MayStillRevoke

(* Each step accounts for the pairs of valid instances: a pair is made by  *)
(* an insert, which has still to revoke the other one.                     *)
LEMMA StepOneValid ==
  TypeOK /\ RequestsInv /\ OneValidInstance /\ [Next]_vars => OneValidInstance'
<1> SUFFICES ASSUME TypeOK, RequestsInv, OneValidInstance, [Next]_vars,
                    NEW i \in WalletInstanceIds, NEW j \in WalletInstanceIds,
                    i # j, Valid(i)', Valid(j)'
             PROVE  \E r \in Requests : MayStillRevoke(r, i, j)' \/ MayStillRevoke(r, j, i)'
  BY DEF OneValidInstance, Valid
<1>1. CASE Valid(i) /\ Valid(j)
  <2>1. PICK u \in Requests : MayStillRevoke(u, i, j) \/ MayStillRevoke(u, j, i)
    BY <1>1 DEF OneValidInstance
  <2>2. CASE Step(u)
    BY <1>1, <2>1, <2>2, MayStillRevokeActor DEF RequestsInv
  <2>3. CASE Unmoved(u)
    BY <2>1, <2>3, UnmovedMayStillRevoke
  <2>4. ASSUME NEW r \in Requests, Step(r), r # u PROVE Unmoved(u)
    BY <2>4, OthersUnmoved
  <2>5. (\E r \in Requests : Step(r)) \/ UNCHANGED <<pc, request, read, mail, ghosts>>
    BY DEF Next, Step, vars, GetNonce, ExpireNonce, IssueCredentials, RevokeCertificate
  <2>6. UNCHANGED <<pc, request, read, mail, ghosts>> => Unmoved(u)
    BY DEF Unmoved, request, ghosts
  <2>7. QED
    BY <2>2, <2>3, <2>4, <2>5, <2>6
<1>2. CASE ~Valid(i)
  <2>1. PICK r \in Requests :
          InsertWalletInstance(r) /\ target[r] = i /\ instance[i] = "absent"
    BY <1>2, BecomesValid
  <2>2. MayStillRevoke(r, target[r], j)'
    BY <2>1, InsertMayStillRevoke DEF RequestsInv
  <2>3. target'[r] = target[r]
    BY <2>1 DEF InsertWalletInstance, request
  <2>4. QED
    BY <2>1, <2>2, <2>3 DEF MayStillRevoke
<1>3. CASE ~Valid(j)
  <2>1. PICK r \in Requests :
          InsertWalletInstance(r) /\ target[r] = j /\ instance[j] = "absent"
    BY <1>3, BecomesValid
  <2>2. MayStillRevoke(r, target[r], i)'
    BY <2>1, InsertMayStillRevoke DEF RequestsInv
  <2>3. target'[r] = target[r]
    BY <2>1 DEF InsertWalletInstance, request
  <2>4. QED
    BY <2>1, <2>2, <2>3 DEF MayStillRevoke
<1>4. QED
  BY <1>1, <1>2, <1>3

----------------------------------------------------------------------------
(* Creation r has superseded i, and will revoke its credentials or has     *)
(* failed in something.                                                    *)
Supersedes(r, i) ==
  /\ kind[r] \in Creations /\ i \in read[r]
  /\ pc[r] \in {"credentials"} \/ r \in troubled

(* A creation goes on from there only by revoking the credentials or by    *)
(* being in trouble.                                                       *)
LEMMA SupersedesActor ==
  ASSUME TypeOK, NEW r \in Requests, RequestInv(r), Step(r),
         NEW i, Supersedes(r, i)
  PROVE  Supersedes(r, i)' \/ credentials' = {}
<1>1. /\ kind[r] \in Creations /\ i \in read[r]
      /\ \/ pc[r] = "credentials"
         \/ pc[r] \in {"refused", "stopped", "mail", "done"} /\ r \in troubled
  BY DEF Supersedes, RequestInv, TroubleEndsIt
<1>2. \/ RevokeAllCredentials(r) \/ FailCall(r) \/ Mail(r)
  BY <1>1 DEF Step, Start, ConsumeNonce, CreateWalletInstance, ValidateAttestation,
      InsertWalletInstance, Revocation, FindValidWalletInstances,
      RevokeUserWalletInstances, CreateAttestation,
      GetValidWalletInstance, ValidateAssertion, SignAttestation,
      GetWalletInstanceStatus, ReadStatus, CheckAttestationRevocation
<1>3. kind'[r] = kind[r] /\ read'[r] = read[r]
  BY <1>2 DEF RevokeAllCredentials, FailCall, Mail, EnqueueMail, PoisonMail,
     SendEmailOnWalletInstanceCreation, SendEmailOnWalletInstanceRevocation, Deliver, request
<1>4. r \in troubled => r \in troubled'
  BY <1>2 DEF RevokeAllCredentials, FailCall, Mail, EnqueueMail, PoisonMail, Answered,
     SendEmailOnWalletInstanceCreation, SendEmailOnWalletInstanceRevocation, Deliver,
     ghosts, Trouble
<1>5. CASE pc[r] = "credentials"
  <2>1. credentials' = {} \/ r \in troubled' \/ pc'[r] = "credentials"
    BY <1>2, <1>5 DEF RevokeAllCredentials, FailCall, Mail, EnqueueMail, PoisonMail,
       SendEmailOnWalletInstanceCreation, SendEmailOnWalletInstanceRevocation, Deliver,
       Trouble
  <2>2. QED
    BY <1>1, <1>3, <2>1 DEF Supersedes
<1>6. QED
  BY <1>1, <1>3, <1>4, <1>5 DEF Supersedes

(* A patch that supersedes an instance leads to the revocation of its      *)
(* credentials.                                                            *)
LEMMA PatchSupersedes ==
  ASSUME TypeOK, NEW r \in Requests, RequestInv(r), RevokeUserWalletInstances(r),
         NEW i \in WalletInstanceIds, instance'[i] \in Superseded, instance'[i] # instance[i]
  PROVE  Supersedes(r, i)'
<1>1. pc[r] = "patching" /\ i \in read[r] /\ instance'[i] = Reason(r)
  BY DEF RevokeUserWalletInstances
<1>2. kind[r] \in Creations
  BY <1>1 DEF Reason, Superseded, Creations, TypeOK, Kind, RequestInv, PcFitsKind
<1>3. /\ kind'[r] = kind[r] /\ read'[r] = read[r]
      /\ pc'[r] = "credentials" \/ r \in troubled'
  <2>1. AfterPatch(r) = "credentials"
    BY <1>2 DEF AfterPatch, Creations
  <2>2. QED
    BY <2>1, AnsweredHere DEF RevokeUserWalletInstances, request
<1>4. QED
  BY <1>1, <1>2, <1>3 DEF Supersedes

(* Each step accounts for the credentials of superseded instances.         *)
LEMMA StepOldCredentials ==
  TypeOK /\ RequestsInv /\ OldCredentialsAreRevoked /\ [Next]_vars
    => OldCredentialsAreRevoked'
<1> SUFFICES ASSUME TypeOK, RequestsInv, OldCredentialsAreRevoked, [Next]_vars,
                    NEW i \in credentials', instance'[i] \in Superseded
             PROVE  \E r \in Requests : Supersedes(r, i)'
  BY DEF OldCredentialsAreRevoked, Supersedes
<1>1. "absent" \notin Superseded /\ "valid" \notin Superseded
  BY DEF Superseded
<1>2. CASE instance'[i] = instance[i] /\ i \in credentials
  <2>1. PICK u \in Requests : Supersedes(u, i)
    BY <1>2 DEF OldCredentialsAreRevoked, Supersedes
  <2>2. CASE Step(u)
    BY <2>1, <2>2, SupersedesActor DEF RequestsInv
  <2>3. Unmoved(u) => Supersedes(u, i)'
    BY <2>1 DEF Unmoved, Supersedes
  <2>4. ASSUME NEW r \in Requests, Step(r), r # u PROVE Unmoved(u)
    BY <2>4, OthersUnmoved
  <2>5. (\E r \in Requests : Step(r)) \/ UNCHANGED <<pc, request, read, mail, ghosts>>
    BY DEF Next, Step, vars, GetNonce, ExpireNonce, IssueCredentials, RevokeCertificate
  <2>6. UNCHANGED <<pc, request, read, mail, ghosts>> => Unmoved(u)
    BY DEF Unmoved, request, ghosts
  <2>7. QED
    BY <2>2, <2>3, <2>4, <2>5, <2>6
<1>3. ASSUME NEW x \in WalletInstanceIds, IssueCredentials(x)
      PROVE  instance'[i] = instance[i] /\ i \in credentials
  BY <1>1, <1>3 DEF IssueCredentials, database, Valid
<1>4. CASE ~(instance'[i] = instance[i] /\ i \in credentials)
  <2>1. PICK r \in Requests :
          Step(r) /\ ~(instance'[i] = instance[i] /\ i \in credentials)
    BY <1>3, <1>4 DEF Next, Step, vars, GetNonce, ExpireNonce, RevokeCertificate,
       database, outside
  <2>2. credentials' \subseteq credentials
    BY <2>1, StepWrites
  <2>3. instance'[i] # instance[i] /\ i \in WalletInstanceIds
    BY <2>1, <2>2 DEF TypeOK
  <2>4. InsertWalletInstance(r) \/ RevokeUserWalletInstances(r)
    BY <2>1, <2>3, StepWrites
  <2>5. ~InsertWalletInstance(r)
    BY <1>1, <2>3 DEF InsertWalletInstance, TypeOK
  <2>6. QED
    BY <2>3, <2>4, <2>5, PatchSupersedes DEF RequestsInv
<1>5. QED
  BY <1>2, <1>4

----------------------------------------------------------------------------
(* The nonces that have been used up or have expired.                      *)
UsedUp == askedNonces \ nonces

(* A request passes its nonce only by deleting one that is there.          *)
LEMMA UsesNonce ==
  ASSUME TypeOK, NEW r \in Requests, RequestInv(r), Step(r),
         UsedNonce(r)', ~UsedNonce(r)
  PROVE  \E n \in nonces : ConsumeNonce(r) /\ nonces' = nonces \ {n}
<1>1. kind'[r] \in Creations \cup {"attest"}
      /\ pc'[r] \notin {"idle", "nonce", "refused", "stopped"}
  BY DEF UsedNonce
<1>2. CASE Start(r)
  <2>1. PICK k \in Kind : kind' = [kind EXCEPT ![r] = k] /\ Goto(r, FirstStep(k))
    BY <1>2 DEF Start
  <2>2. kind'[r] = k /\ pc'[r] = FirstStep(k)
    BY <2>1, GotoHere DEF TypeOK
  <2>3. QED
    BY <1>1, <2>2 DEF FirstStep, Creations
<1>3. CASE ConsumeNonce(r)
  <2>1. PICK n \in askedNonces :
          /\ nonces' = nonces \ {n}
          /\ IF n \in nonces THEN Answered(r, AfterNonce(r), "refused")
             ELSE Goto(r, "refused") /\ UNCHANGED <<faults, troubled>>
    BY <1>3 DEF ConsumeNonce
  <2>2. n \in nonces
    BY <1>1, <2>1, GotoHere
  <2>3. QED
    BY <1>3, <2>1, <2>2
<1>4. CASE ~Start(r) /\ ~ConsumeNonce(r)
  <2>1. kind'[r] = kind[r]
    BY <1>4 DEF Step, CreateWalletInstance, ValidateAttestation,
       InsertWalletInstance, RevokeUserWalletInstances,
       Revocation, FindValidWalletInstances, RevokeAllCredentials, CreateAttestation,
       GetValidWalletInstance, ValidateAssertion, SignAttestation,
       GetWalletInstanceStatus, ReadStatus, CheckAttestationRevocation, Mail,
       EnqueueMail, PoisonMail, SendEmailOnWalletInstanceCreation,
       SendEmailOnWalletInstanceRevocation, Deliver, FailCall, request
  <2>2. pc[r] \in {"idle", "nonce", "refused", "stopped"}
    BY <1>1, <2>1 DEF UsedNonce
  <2>3. \/ pc'[r] = pc[r]
        \/ pc[r] = "nonce" /\ pc'[r] \in {Failed(r), "stopped"}
    BY <1>4, <2>2, GotoHere DEF Step, CreateWalletInstance, ValidateAttestation,
       InsertWalletInstance, RevokeUserWalletInstances,
       Revocation, FindValidWalletInstances, RevokeAllCredentials, CreateAttestation,
       GetValidWalletInstance, ValidateAssertion, SignAttestation,
       GetWalletInstanceStatus, ReadStatus, CheckAttestationRevocation, Mail,
       EnqueueMail, PoisonMail, SendEmailOnWalletInstanceCreation,
       SendEmailOnWalletInstanceRevocation, Deliver, FailCall, Awaiting
  <2>4. QED
    BY <1>1, <2>2, <2>3 DEF Failed
<1>5. QED
  BY <1>2, <1>3, <1>4

(* Each step keeps the count of the requests past their nonce within that  *)
(* of the used-up nonces: both grow by one or the nonces alone do.         *)
LEMMA StepNonceOnce ==
  /\ TypeOK /\ nonces \subseteq askedNonces /\ RequestsInv /\ NonceOnce /\ [Next]_vars
  => (nonces \subseteq askedNonces)' /\ NonceOnce'
<1> SUFFICES ASSUME TypeOK, nonces \subseteq askedNonces, RequestsInv, NonceOnce,
                    [Next]_vars
             PROVE  (nonces \subseteq askedNonces)' /\ NonceOnce'
  OBVIOUS
<1> DEFINE Used == {r \in Requests : UsedNonce(r)}
<1>1. /\ IsFiniteSet(Used) /\ IsFiniteSet(Used') /\ IsFiniteSet(UsedUp) /\ IsFiniteSet(UsedUp')
      /\ Cardinality(Used) \in Nat /\ Cardinality(UsedUp) \in Nat
  <2>1. /\ Used \subseteq Requests /\ Used' \subseteq Requests
        /\ UsedUp \subseteq Nonces /\ UsedUp' \subseteq Nonces
    BY StepType DEF UsedUp, TypeOK
  <2>2. QED
    BY <2>1, BoundsAssumption, FS_Subset, FS_CardinalityType
<1> HIDE DEF Used
<1>2. /\ Cardinality(Used) <= Cardinality(UsedUp)
      /\ Cardinality(Used') <= Cardinality(UsedUp') => NonceOnce'
  BY DEF NonceOnce, Used, UsedUp
<1>3. ASSUME Used' \subseteq Used, UsedUp \subseteq UsedUp' PROVE NonceOnce'
  <2>1. Cardinality(Used') <= Cardinality(Used)
    BY <1>1, <1>3, FS_Subset
  <2>2. Cardinality(UsedUp) <= Cardinality(UsedUp')
    BY <1>1, <1>3, FS_Subset
  <2>3. Cardinality(Used') \in Nat /\ Cardinality(UsedUp') \in Nat
    BY <1>1, FS_CardinalityType
  <2>4. Cardinality(Used') <= Cardinality(UsedUp')
    BY <1>1, <1>2, <2>1, <2>2, <2>3
  <2>5. QED
    BY <1>2, <2>4
<1>4. ASSUME NEW r \in Requests, Step(r)
      PROVE  (nonces \subseteq askedNonces)' /\ NonceOnce'
  <2>1. askedNonces' = askedNonces
        /\ (nonces' = nonces \/ \E n \in askedNonces : nonces' = nonces \ {n})
    BY <1>4, StepWrites
  <2>2. UsedUp \subseteq UsedUp'
    BY <2>1 DEF UsedUp
  <2>3. Used' \subseteq Used \cup {r}
    <3>1. ASSUME NEW u \in Requests, u # r PROVE UsedNonce(u)' = UsedNonce(u)
      BY <1>4, <3>1, OthersUnmoved DEF UsedNonce, Unmoved
    <3>2. QED
      BY <3>1 DEF Used
  <2>4. CASE r \notin Used' \/ r \in Used
    BY <1>3, <2>1, <2>2, <2>3, <2>4
  <2>5. CASE r \in Used' /\ r \notin Used
    <3>1. PICK n \in nonces : nonces' = nonces \ {n}
      BY <1>4, <2>5, UsesNonce DEF Used, RequestsInv
    <3>2. UsedUp' = UsedUp \cup {n} /\ n \notin UsedUp
      BY <2>1, <3>1 DEF UsedUp
    <3>3. Cardinality(UsedUp') = Cardinality(UsedUp) + 1
      BY <1>1, <3>2, FS_AddElement
    <3>4. Cardinality(Used \cup {r}) = Cardinality(Used) + 1
      BY <1>1, <2>5, FS_AddElement
    <3>5. Cardinality(Used') <= Cardinality(Used \cup {r})
      BY <1>1, <2>3, FS_AddElement, FS_Subset
    <3>6. Cardinality(Used') \in Nat
      BY <1>1, FS_CardinalityType
    <3>7. Cardinality(Used') <= Cardinality(UsedUp')
      BY <1>1, <1>2, <3>3, <3>4, <3>5, <3>6
    <3>8. NonceOnce'
      BY <1>2, <3>7
    <3>9. QED
      BY <2>1, <3>8
  <2>6. QED
    BY <2>4, <2>5
<1>5. ASSUME UNCHANGED <<pc, kind>>, UsedUp \subseteq UsedUp' PROVE NonceOnce'
  <2>1. Used' = Used
    BY <1>5 DEF Used, UsedNonce
  <2>2. QED
    BY <1>3, <1>5, <2>1
<1>6. ASSUME NEW n \in Nonces, GetNonce(n) \/ ExpireNonce(n)
      PROVE  (nonces \subseteq askedNonces)' /\ NonceOnce'
  <2>1. (nonces \subseteq askedNonces)' /\ UsedUp \subseteq UsedUp'
    BY <1>6 DEF GetNonce, ExpireNonce, UsedUp
  <2>2. UNCHANGED <<pc, kind>>
    BY <1>6 DEF GetNonce, ExpireNonce, request
  <2>3. QED
    BY <1>5, <2>1, <2>2
<1>7. ASSUME UNCHANGED database, UNCHANGED <<pc, request>>
      PROVE  (nonces \subseteq askedNonces)' /\ NonceOnce'
  BY <1>5, <1>7 DEF database, request, UsedUp
<1>8. QED
  BY <1>4, <1>6, <1>7 DEF Next, Step, IssueCredentials, RevokeCertificate, vars

----------------------------------------------------------------------------
(* The invariant holds initially.                                          *)
LEMMA InitInstances == Init => InstancesInv
<1> SUFFICES ASSUME Init PROVE InstancesInv
  OBVIOUS
<1>1. RequestsInv
  BY AnyIsWalletInstance DEF Init, RequestsInv, RequestInv, PcFitsKind, NotStarted, HasInserted, TroubleEndsIt,
     AtStartHolds, ValidIsRead, StatusIsRead, TargetIsRead, MailIsTrue, Creations
<1>2. OneValidInstance /\ OldCredentialsAreRevoked
  BY DEF Init, OneValidInstance, OldCredentialsAreRevoked, Valid
<1>3. NonceOnce
  <2>1. {r \in Requests : UsedNonce(r)} = {} /\ askedNonces \ nonces = {}
    BY DEF Init, UsedNonce
  <2>2. QED
    BY <2>1, FS_EmptySet DEF NonceOnce
<1>4. QED
  BY <1>1, <1>2, <1>3, InitType DEF InstancesInv, Init

(* Each step keeps the invariant.                                          *)
LEMMA StepInstances == InstancesInv /\ [Next]_vars => InstancesInv'
BY StepType, StepRequests, StepOneValid, StepOldCredentials, StepNonceOnce DEF InstancesInv

(* The invariant holds in every reachable state.                           *)
THEOREM WalletInstancesCorrect == Spec => []InstancesInv
BY InitInstances, StepInstances, PTL DEF Spec

(* The documents and requests have their types: no handler writes a status *)
(* that is not one, nor leaves the calls of its kind.                      *)
THEOREM WalletInstancesTypeOK == Spec => []TypeOK
<1>1. InstancesInv => TypeOK
  BY DEF InstancesInv
<1>2. QED
  BY <1>1, WalletInstancesCorrect, PTL

(* A user has two valid instances only while a creation of one of them     *)
(* still has to revoke the other, or after it stopped before it could.     *)
THEOREM WalletInstancesOneValidInstance == Spec => []OneValidInstance
<1>1. InstancesInv => OneValidInstance
  BY DEF InstancesInv
<1>2. QED
  BY <1>1, WalletInstancesCorrect, PTL

(* A superseded instance keeps its credentials only until the creation has *)
(* revoked them, unless a call of the creation failed.                     *)
THEOREM WalletInstancesOldCredentialsAreRevoked == Spec => []OldCredentialsAreRevoked
<1>1. InstancesInv => OldCredentialsAreRevoked
  BY DEF InstancesInv
<1>2. QED
  BY <1>1, WalletInstancesCorrect, PTL

(* Nothing is attested about an instance that was revoked before the       *)
(* request used its nonce up.                                              *)
THEOREM WalletInstancesAttestedWasValid == Spec => []AttestedWasValid
<1>1. InstancesInv => AttestedWasValid
  BY DEF InstancesInv, RequestsInv, RequestInv, ValidIsRead, AttestedWasValid
<1>2. QED
  BY <1>1, WalletInstancesCorrect, PTL

(* An instance reported as revoked is; one reported as valid was not       *)
(* revoked when the request began, nor its certificate, unless a call      *)
(* failed.                                                                 *)
THEOREM WalletInstancesStatusIsAccurate == Spec => []StatusIsAccurate
<1>1. InstancesInv => StatusIsAccurate
  BY DEF InstancesInv, RequestsInv, RequestInv, StatusIsRead, StatusIsAccurate
<1>2. QED
  BY <1>1, WalletInstancesCorrect, PTL

(* However the deletions of nonces interleave, the requests that are past  *)
(* their nonce are no more than the nonces used up.                        *)
THEOREM WalletInstancesNonceOnce == Spec => []NonceOnce
<1>1. InstancesInv => NonceOnce
  BY DEF InstancesInv
<1>2. QED
  BY <1>1, WalletInstancesCorrect, PTL

(* A message in a queue, or sent, tells of an instance that exists or of a *)
(* revocation that has been written, except for an instance that never     *)
(* existed.                                                                *)
THEOREM WalletInstancesMailTellsWhatHappened == Spec => []MailTellsWhatHappened
<1>1. InstancesInv => MailTellsWhatHappened
  BY DEF InstancesInv, RequestsInv, RequestInv, MailIsTrue, MailTellsWhatHappened
<1>2. QED
  BY <1>1, WalletInstancesCorrect, PTL
=============================================================================
