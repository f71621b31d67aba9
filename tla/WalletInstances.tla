-------------------------- MODULE WalletInstances --------------------------
(***************************************************************************)
(* The wallet instances of one user, and the requests that create, attest, *)
(* look up and revoke them                                                 *)
(* (apps/io-wallet-user-func/src/wallet-instance.ts, nonce.ts,             *)
(* infra/http/handlers/*.ts, infra/azure/cosmos/wallet-instance.ts and     *)
(* nonce.ts, infra/pid-issuer, infra/handlers/send-email-*.ts).            *)
(*                                                                         *)
(* A request makes one call after the other; the requests of a user run in *)
(* any order on any host, and none of them is retried by the server.  What *)
(* the checks of an attestation or assertion consist of is the subject of  *)
(* AttestationValidation; here they hold or not.  The binding of a new     *)
(* instance comes from StatusListAllocator.                                *)
(***************************************************************************)
EXTENDS Naturals, FiniteSets

CONSTANTS
  WalletInstanceIds,   \* the hardware key tags
  Requests,            \* bound: the requests that are made
  Nonces,              \* bound: the nonces that are asked for
  MaxFaults            \* bound: calls that fail, answers that are lost

ASSUME BoundsAssumption ==
  /\ MaxFaults \in Nat
  /\ IsFiniteSet(Requests) /\ IsFiniteSet(Nonces)
  /\ WalletInstanceIds # {}

VARIABLES
  instance,      \* the document of each instance
  nonces,        \* the documents of the nonces container
  askedNonces,   \* the nonces that have been given out
  credentials,   \* the instances that hold credentials of the PID issuer
  compromised,   \* the instances with a certificate that Google has revoked
  pc,            \* what each request awaits, or how it ended
  kind,          \* what it asks for
  target,        \* the instance it names
  read,          \* the ids it is going to revoke
  mail,          \* the message it has put in an e-mail queue
  faults,        \* bounded by MaxFaults
  troubled,      \* ghost: the requests a call of which has failed
  atStart        \* ghost: the target when the request began to look

database == <<instance, nonces, askedNonces>>
outside == <<credentials, compromised>>
request == <<kind, target>>
ghosts == <<troubled, atStart>>
vars == <<database, outside, pc, request, read, mail, faults, ghosts>>

----------------------------------------------------------------------------
Creations == {"create", "renew"}
Kind == Creations \cup {"attest", "status", "setStatus", "setAll"}

RevocationReason ==
  {"NEW_WALLET_INSTANCE_CREATED", "WALLET_INSTANCE_RENEWAL",
   "REVOKED_BY_USER", "USER_DECEASED", "CERTIFICATE_REVOKED_BY_ISSUER"}

Superseded == {"NEW_WALLET_INSTANCE_CREATED", "WALLET_INSTANCE_RENEWAL"}

Awaiting == {"nonce", "validating", "inserting", "finding", "patching",
             "credentials", "mail", "reading", "asserting", "signing",
             "revocation list"}
Ended == {"done", "refused", "stopped", "granted", "valid", "revoked"}

Revoked(i) == instance[i] \in RevocationReason
Valid(i) == instance[i] = "valid"
AnyWalletInstance == CHOOSE i \in WalletInstanceIds : TRUE

TypeOK ==
  /\ instance \in [WalletInstanceIds -> RevocationReason \cup {"absent", "valid"}]
  /\ nonces \in SUBSET Nonces /\ askedNonces \in SUBSET Nonces
  /\ credentials \in SUBSET WalletInstanceIds
  /\ compromised \in SUBSET WalletInstanceIds
  /\ pc \in [Requests -> {"idle"} \cup Awaiting \cup Ended]
  /\ kind \in [Requests -> Kind]
  /\ target \in [Requests -> WalletInstanceIds]
  /\ read \in [Requests -> SUBSET WalletInstanceIds]
  /\ mail \in [Requests -> {"none", "queued", "sent"}]
  /\ faults \in 0..MaxFaults
  /\ troubled \in SUBSET Requests
  /\ atStart \in [Requests -> {"clean", "compromised", "revoked", "absent"}]

Init ==
  /\ instance = [i \in WalletInstanceIds |-> "absent"]
  /\ nonces = {} /\ askedNonces = {}
  /\ credentials = {} /\ compromised = {}
  /\ pc = [r \in Requests |-> "idle"]
  /\ kind = [r \in Requests |-> "setAll"]
  /\ target = [r \in Requests |-> AnyWalletInstance]
  /\ read = [r \in Requests |-> {}]
  /\ mail = [r \in Requests |-> "none"]
  /\ faults = 0 /\ troubled = {}
  /\ atStart = [r \in Requests |-> "clean"]

----------------------------------------------------------------------------
(* How a call of request r ends: with an answer, and the request goes on   *)
(* to next; or without one, though it was applied, and it goes to          *)
(* otherwise.                                                              *)
Goto(r, next) == pc' = [pc EXCEPT ![r] = next]

Trouble(r) ==
  /\ faults < MaxFaults
  /\ faults' = faults + 1
  /\ troubled' = troubled \cup {r}

Answered(r, next, otherwise) ==
  \/ Goto(r, next) /\ UNCHANGED <<faults, troubled>>
  \/ Goto(r, otherwise) /\ Trouble(r)

Look(r) ==
  atStart' = [atStart EXCEPT ![r] =
    IF kind[r] \in Creations THEN "clean"
    ELSE IF Revoked(target[r]) THEN "revoked"
    ELSE IF kind[r] = "status" /\ target[r] \in compromised
         THEN "compromised" ELSE "clean"]

(* requireWalletInstanceRequest and the like: the request is well formed.  *)
FirstStep(k) ==
  CASE k \in Creations \cup {"attest"} -> "nonce"
    [] k = "status" -> "reading"
    [] k = "setStatus" -> "credentials"
    [] k = "setAll" -> "finding"

Start(r) ==
  /\ pc[r] = "idle"
  /\ \E k \in Kind, i \in WalletInstanceIds :
       /\ k = "setAll" => i = AnyWalletInstance
       /\ kind' = [kind EXCEPT ![r] = k]
       /\ target' = [target EXCEPT ![r] = i]
       /\ read' = [read EXCEPT ![r] = IF k = "setStatus" THEN {i} ELSE {}]
       /\ Goto(r, FirstStep(k))
       /\ atStart' = IF k = "setStatus" /\ instance[i] = "absent"
                     THEN [atStart EXCEPT ![r] = "absent"] ELSE atStart
  /\ UNCHANGED <<database, outside, mail, faults, troubled>>

(* The app asks for a nonce, which lives for 300 seconds.                  *)
GetNonce(n) ==
  /\ n \notin askedNonces
  /\ askedNonces' = askedNonces \cup {n}
  /\ nonces' = nonces \cup {n}
  /\ UNCHANGED <<instance, outside, pc, request, read, mail, faults, ghosts>>

ExpireNonce(n) ==
  /\ n \in nonces
  /\ nonces' = nonces \ {n}
  /\ UNCHANGED <<instance, askedNonces, outside, pc, request, read, mail,
                 faults, ghosts>>

AfterNonce(r) == IF kind[r] \in Creations THEN "validating" ELSE "reading"

\* Mutant: the nonce is looked up and left there.
CheckNonce(r) ==
  /\ pc[r] = "nonce"
  /\ \E n \in askedNonces :
       Goto(r, IF n \in nonces THEN AfterNonce(r) ELSE "refused")
  /\ Look(r)
  /\ UNCHANGED <<database, outside, request, read, mail, faults, troubled>>

(* The nonce is deleted without a look: there is one delete that finds it. *)
ConsumeNonce(r) ==
  /\ pc[r] = "nonce"
  /\ \E n \in askedNonces :
       /\ nonces' = nonces \ {n}
       /\ IF n \in nonces THEN Answered(r, AfterNonce(r), "refused")
          ELSE Goto(r, "refused") /\ UNCHANGED <<faults, troubled>>
  /\ Look(r)
  /\ UNCHANGED <<instance, askedNonces, outside, request, read, mail>>

----------------------------------------------------------------------------
(* createWalletInstance.                                                   *)
(* validateAttestation, which load-test users skip, then addStatus.        *)
ValidateAttestation(r) ==
  /\ pc[r] = "validating"
  /\ \E next \in {"inserting", "refused"} : Goto(r, next)
  /\ UNCHANGED <<database, outside, request, read, mail, faults, ghosts>>

(* An id that is taken is a conflict.                                      *)
InsertWalletInstance(r) ==
  /\ pc[r] = "inserting"
  /\ IF instance[target[r]] = "absent"
     THEN /\ instance' = [instance EXCEPT ![target[r]] = "valid"]
          /\ Answered(r, "finding", "stopped")
     ELSE Goto(r, "refused") /\ UNCHANGED <<instance, faults, troubled>>
  /\ UNCHANGED <<nonces, askedNonces, outside, request, read, mail, atStart>>

\* Mutant: a renewal leaves the older instances alone.
ToRevokeUnlessRenewal(r) ==
  {i \in WalletInstanceIds : Valid(i) /\ i # target[r] /\ kind[r] # "renew"}

(* getUserValidWalletInstancesIdExceptOne for a creation, and              *)
(* getUserValidWalletInstancesId for setWalletInstancesStatus.             *)
ToRevoke(r) ==
  {i \in WalletInstanceIds :
     Valid(i) /\ (kind[r] \in Creations => i # target[r])}

\* Mutant: the credentials of superseded instances are left alone.
AfterPatchOfInstance(r) ==
  CASE kind[r] \in {"create", "setStatus"} -> "mail"
    [] kind[r] \in {"renew", "setAll"} -> "done"
    [] kind[r] = "status" -> "revoked"

AfterPatch(r) ==
  CASE kind[r] \in Creations -> "credentials"
    [] kind[r] = "setStatus" -> "mail"
    [] kind[r] = "setAll" -> "done"
    [] kind[r] = "status" -> "revoked"

\* Mutant: the mail of a revocation is sent before the instance is patched.
AfterCredentialsMail(r) ==
  CASE kind[r] \in {"create", "setStatus"} -> "mail"
    [] kind[r] = "renew" -> "done"
    [] OTHER -> "patching"

AfterCredentials(r) ==
  CASE kind[r] = "create" -> "mail"
    [] kind[r] = "renew" -> "done"
    [] OTHER -> "patching"

NothingToRevoke(r) ==
  IF kind[r] \in Creations THEN AfterCredentials(r) ELSE "done"

FindValidWalletInstances(r) ==
  /\ pc[r] = "finding"
  /\ read' = [read EXCEPT ![r] = ToRevoke(r)]
  /\ Goto(r, IF ToRevoke(r) = {} THEN NothingToRevoke(r) ELSE "patching")
  /\ UNCHANGED <<database, outside, request, mail, faults, ghosts>>

Reason(r) ==
  CASE kind[r] = "create" -> "NEW_WALLET_INSTANCE_CREATED"
    [] kind[r] = "renew" -> "WALLET_INSTANCE_RENEWAL"
    [] kind[r] = "setStatus" -> "REVOKED_BY_USER"
    [] kind[r] = "setAll" -> "USER_DECEASED"
    [] kind[r] = "status" -> "CERTIFICATE_REVOKED_BY_ISSUER"

\* Mutant: a status request reports what it meant to write.
AssumePatched(r) == IF kind[r] = "status" THEN "revoked" ELSE "stopped"

(* A status request that has no answer reports the instance as valid.      *)
NoAnswerToPatch(r) == IF kind[r] = "status" THEN "valid" ELSE "stopped"

(* One transactional batch, which does not look at what it overwrites.  It *)
(* does nothing for an id that does not exist, and nobody looks at that.   *)
RevokeUserWalletInstances(r) ==
  /\ pc[r] = "patching"
  /\ instance' = [i \in WalletInstanceIds |->
       IF i \in read[r] /\ instance[i] # "absent" THEN Reason(r) ELSE instance[i]]
  /\ Answered(r, AfterPatch(r), NoAnswerToPatch(r))
  /\ UNCHANGED <<nonces, askedNonces, outside, request, read, mail, atStart>>

(* revokeAllCredentials of the user at the PID issuer.  A timeout counts   *)
(* as success and any other failure is ignored by every caller.            *)
RevokeAllCredentials(r) ==
  /\ pc[r] = "credentials"
  /\ Goto(r, AfterCredentials(r))
  /\ \/ credentials' = {} /\ UNCHANGED <<faults, troubled>>
     \/ credentials' \in {{}, credentials} /\ Trouble(r)
  /\ UNCHANGED <<database, compromised, request, read, mail, atStart>>

(* The message of a creation or revocation, enqueued at the third attempt  *)
(* at the latest.                                                          *)
EnqueueMail(r) ==
  /\ pc[r] = "mail"
  /\ mail' = [mail EXCEPT ![r] = "queued"]
  /\ Answered(r, "done", "stopped")
  /\ UNCHANGED <<database, outside, request, read, atStart>>

----------------------------------------------------------------------------
(* The three attestations: of the wallet, of the instance and of its keys. *)
\* Mutant: the attestation does not ask whether the instance is revoked.
GetWalletInstance(r) ==
  /\ pc[r] = "reading" /\ kind[r] = "attest"
  /\ Goto(r, IF instance[target[r]] = "absent" THEN "refused" ELSE "asserting")
  /\ UNCHANGED <<database, outside, request, read, mail, faults, ghosts>>

GetValidWalletInstance(r) ==
  /\ pc[r] = "reading" /\ kind[r] = "attest"
  /\ Goto(r, IF Valid(target[r]) THEN "asserting" ELSE "refused")
  /\ UNCHANGED <<database, outside, request, read, mail, faults, ghosts>>

ValidateAssertion(r) ==
  /\ pc[r] = "asserting"
  /\ \E next \in {"signing", "refused"} : Goto(r, next)
  /\ UNCHANGED <<database, outside, request, read, mail, faults, ghosts>>

SignAttestation(r) ==
  /\ pc[r] = "signing"
  /\ Goto(r, "granted")
  /\ UNCHANGED <<database, outside, request, read, mail, faults, ghosts>>

----------------------------------------------------------------------------
(* getWalletInstanceStatus.                                                *)
ReadStatus(r) ==
  /\ pc[r] = "reading" /\ kind[r] = "status"
  /\ Goto(r, CASE instance[target[r]] = "absent" -> "refused"
               [] Revoked(target[r]) -> "revoked"
               [] Valid(target[r]) -> "revocation list")
  /\ Look(r)
  /\ UNCHANGED <<database, outside, request, read, mail, faults, troubled>>

(* The list is fetched; an instance without a chain is never compromised.  *)
CheckAttestationRevocation(r) ==
  /\ pc[r] = "revocation list"
  /\ IF target[r] \in compromised
     THEN /\ read' = [read EXCEPT ![r] = {target[r]}]
          /\ Goto(r, "credentials")
     ELSE Goto(r, "valid") /\ UNCHANGED read
  /\ UNCHANGED <<database, outside, request, mail, faults, ghosts>>

----------------------------------------------------------------------------
(* A call that has no effect and no answer, or a host that stops.          *)
Failed(r) ==
  CASE pc[r] \in {"nonce", "validating", "inserting"} -> "refused"
    [] pc[r] = "credentials" -> AfterCredentials(r)
    [] pc[r] = "revocation list" -> "valid"
    [] pc[r] = "patching" -> NoAnswerToPatch(r)
    [] OTHER -> "stopped"

FailCall(r) ==
  /\ pc[r] \in Awaiting
  /\ \E next \in {Failed(r), "stopped"} : Goto(r, next)
  /\ Trouble(r)
  /\ UNCHANGED <<database, outside, request, read, mail, atStart>>

(* The handlers of the e-mail queues: the address of the user, then the    *)
(* text, by the whitelist, then the message; five failures are one too     *)
(* many.                                                                   *)
Deliver(r) ==
  /\ mail[r] = "queued"
  /\ mail' = [mail EXCEPT ![r] = "sent"]
  /\ UNCHANGED <<database, outside, pc, request, read, faults, ghosts>>

SendEmailOnWalletInstanceCreation(r) == kind[r] = "create" /\ Deliver(r)
SendEmailOnWalletInstanceRevocation(r) == kind[r] = "setStatus" /\ Deliver(r)

PoisonMail(r) ==
  /\ mail[r] = "queued"
  /\ mail' = [mail EXCEPT ![r] = "none"]
  /\ UNCHANGED <<database, outside, pc, request, read, faults, ghosts>>

(* The world around: the PID issuer, asked by a valid instance, and Google *)
(* (an instance whose certificate is revoked earlier is not registered).   *)
IssueCredentials(i) ==
  /\ Valid(i) /\ i \notin credentials
  /\ credentials' = credentials \cup {i}
  /\ UNCHANGED <<database, compromised, pc, request, read, mail, faults, ghosts>>

RevokeCertificate(i) ==
  /\ i \notin compromised /\ instance[i] # "absent"
  /\ compromised' = compromised \cup {i}
  /\ UNCHANGED <<database, credentials, pc, request, read, mail, faults, ghosts>>

----------------------------------------------------------------------------
CreateWalletInstance(r) ==
  \/ ValidateAttestation(r) \/ InsertWalletInstance(r)

Revocation(r) ==
  \/ FindValidWalletInstances(r)
  \/ RevokeUserWalletInstances(r)
  \/ RevokeAllCredentials(r)

CreateAttestation(r) ==
  \/ GetValidWalletInstance(r) \/ ValidateAssertion(r) \/ SignAttestation(r)

GetWalletInstanceStatus(r) ==
  \/ ReadStatus(r) \/ CheckAttestationRevocation(r)

Mail(r) ==
  \/ EnqueueMail(r) \/ PoisonMail(r)
  \/ SendEmailOnWalletInstanceCreation(r)
  \/ SendEmailOnWalletInstanceRevocation(r)

Next ==
  \/ \E r \in Requests :
       \/ Start(r) \/ ConsumeNonce(r)
       \/ CreateWalletInstance(r) \/ Revocation(r)
       \/ CreateAttestation(r) \/ GetWalletInstanceStatus(r)
       \/ Mail(r) \/ FailCall(r)
  \/ \E n \in Nonces : GetNonce(n) \/ ExpireNonce(n)
  \/ \E i \in WalletInstanceIds : IssueCredentials(i) \/ RevokeCertificate(i)

Spec == Init /\ [][Next]_vars

----------------------------------------------------------------------------
(* A user has two valid instances only while a creation of one of them     *)
(* still has to revoke the other, or after it failed to: whichever way two *)
(* creations run into each other, each one sees those before it.  (They    *)
(* may see each other, and then neither instance stays valid.)             *)
MayStillRevoke(r, i, j) ==
  /\ kind[r] \in Creations /\ target[r] = i
  /\ \/ pc[r] \in {"finding", "stopped"}
     \/ pc[r] = "patching" /\ j \in read[r]

OneValidInstance ==
  \A i, j \in WalletInstanceIds :
    i # j /\ Valid(i) /\ Valid(j) =>
      \E r \in Requests : MayStillRevoke(r, i, j) \/ MayStillRevoke(r, j, i)

(* An instance that a newer one has superseded keeps its credentials only  *)
(* until the creation revokes them too, unless a call of it failed.        *)
OldCredentialsAreRevoked ==
  \A i \in credentials :
    instance[i] \in Superseded =>
      \E r \in Requests :
        /\ kind[r] \in Creations /\ i \in read[r]
        /\ pc[r] \in {"credentials"} \/ r \in troubled

(* Nothing is attested about an instance that was revoked before the       *)
(* request used its nonce up, however long the request is under way.       *)
AttestedWasValid ==
  \A r \in Requests : pc[r] = "granted" => atStart[r] # "revoked"

(* The status reported is the one in the database: an instance reported as *)
(* revoked is, and one reported as valid was not revoked when the request  *)
(* began, nor its certificate, unless a call failed.                       *)
StatusIsAccurate ==
  \A r \in Requests :
    /\ pc[r] = "revoked" => Revoked(target[r])
    /\ pc[r] = "valid" => \/ atStart[r] = "clean"
                          \/ atStart[r] = "compromised" /\ r \in troubled

(* A nonce lets one request pass: those past it are no more than the       *)
(* nonces that have been used up.                                          *)
UsedNonce(r) ==
  /\ kind[r] \in Creations \cup {"attest"}
  /\ pc[r] \notin {"idle", "nonce", "refused", "stopped"}

NonceOnce ==
  Cardinality({r \in Requests : UsedNonce(r)})
    <= Cardinality(askedNonces \ nonces)

(* A user is told of what has happened: of an instance that exists, or of  *)
(* one that is not valid any more.  (A request to revoke an instance that  *)
(* does not exist is answered, and announced, as if it did.)               *)
MailTellsWhatHappened ==
  \A r \in Requests :
    mail[r] # "none" =>
      IF kind[r] = "create" THEN instance[target[r]] # "absent"
      ELSE Revoked(target[r]) \/ atStart[r] = "absent"
=============================================================================
