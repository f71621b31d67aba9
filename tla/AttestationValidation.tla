----------------------- MODULE AttestationValidation ------------------------
(***************************************************************************)
(* A device registers its hardware key with an attestation, then asks for  *)
(* attestations of its own with assertions, and for that of its keys.      *)
(* Meanwhile certificates become valid and expire, the list of revoked     *)
(* ones changes or cannot be fetched, and Google comes and goes.  What the *)
(* server answers to the evidence at hand at any moment is a function of   *)
(* the state (MobileAttestation, KeyAttestationRequest); the properties    *)
(* say what these functions are for.                                       *)
(***************************************************************************)
EXTENDS MobileAttestation, KeyAttestationRequest

CONSTANTS
  MaxChain,             \* bound: certificates of a chain
  Records,              \* key descriptions that certificates have
  IosDefects,           \* what attestations of iOS devices fail
  ResponseDefects,      \* what integrity tokens fail
  MaxSignCount,         \* bound: assertions of an iOS device
  KeysToAttest,         \* keys that requests list
  MaxKeys               \* bound: keys of a request

Record == [present : BOOLEAN, defects : SUBSET Range(KeyDescriptionChecks)]
NoRecord == [present |-> FALSE, defects |-> {}]

ASSUME BoundsAssumption ==
  /\ MaxChain \in Nat \ {0} /\ MaxSignCount \in Nat /\ MaxKeys \in Nat
  /\ KeysToAttest \subseteq KeyToAttest
  /\ Records \subseteq Record
  /\ IosDefects \subseteq SUBSET Range(AppAttestChecks)
  /\ ResponseDefects \subseteq SUBSET Range(IntegrityChecks)

VARIABLES
  allowDevelopment,   \* the user may run development builds
  evidence,           \* the attestation of a key that is being registered
  crl,                \* what fetching the list of revoked certificates gives
  walletInstance,     \* the instance that the device has registered
  assertion,          \* the assertion that is being validated
  google,             \* the state of the Play Integrity service
  request             \* the key attestation request that is being answered

vars == <<allowDevelopment, evidence, crl, walletInstance, assertion, google,
          request>>

----------------------------------------------------------------------------
Certificate ==
  [signer : {"next", "trusted", "other"},
   dates : {"not yet valid", "valid", "expired"}, serial : Serials, subject : {"any", "non-RKP root"},
   record : Records \cup {NoRecord}]

Platform == {"ios", "android"}

NoEvidence == [platform |-> "none", chain |-> <<>>, defects |-> {}]
NoInstance == [platform |-> "none", hasStatus |-> FALSE]
NoAssertion ==
  [signedFor |-> "none", bundle |-> "none", signCount |-> 0, defects |-> {}]
NoRequest == [keysToAttest |-> <<>>, platform |-> "none"]

(* The serial numbers that a fetch finds listed, none if it fails.          *)
CrlAnswers ==
  {answer \in [fetched : BOOLEAN, serials : SUBSET Serials] :
     answer.fetched \/ answer.serials = {}}
EmptyCrl == [fetched |-> TRUE, serials |-> {}]

Evidence == [platform : Platform, chain : Seq(Certificate), defects : IosDefects]
Instance == [platform : Platform \cup {"unknown"}, hasStatus : BOOLEAN]
SentAssertion ==
  [signedFor : Platform \cup {"none"}, signCount : 0..MaxSignCount,
   bundle : Range(BundleIdentifiers) \cup {"other app"}, defects : ResponseDefects]
SentRequest ==
  [keysToAttest : Seq(KeysToAttest), platform : Platform, issuerMatches : BOOLEAN,
   cnf : Jwks, signedThumbprints : Seq(Jwks), loadTest : BOOLEAN]

(* What Google answers for each package: an error when it is down, no      *)
(* payload or an error for a package that the token is not of.             *)
Answer(name) ==
  IF ~google.up \/ (assertion.bundle # name /\ google.other = "error")
  THEN [kind |-> "error", defects |-> {}]
  ELSE IF assertion.bundle # name THEN [kind |-> "no token", defects |-> {}]
  ELSE [kind |-> "token", defects |-> assertion.defects]

Google ==
  [authorized |-> google.authorized,
   answers |-> [i \in DOMAIN BundleIdentifiers |-> Answer(BundleIdentifiers[i])]]

GoogleStates == [up : BOOLEAN, authorized : BOOLEAN, other : {"no token", "error"}]
GoogleIsWell == [up |-> TRUE, authorized |-> TRUE, other |-> "no token"]

TypeOK ==
  /\ allowDevelopment \in BOOLEAN
  /\ evidence \in Evidence \cup {NoEvidence}
  /\ crl \in CrlAnswers
  /\ walletInstance \in Instance \cup {NoInstance}
  /\ assertion \in SentAssertion \cup {NoAssertion}
  /\ google \in GoogleStates
  /\ request \in SentRequest \cup {NoRequest}

Init ==
  /\ allowDevelopment \in BOOLEAN
  /\ evidence = NoEvidence /\ crl = EmptyCrl
  /\ walletInstance = NoInstance
  /\ assertion = NoAssertion /\ google = GoogleIsWell
  /\ request = NoRequest

----------------------------------------------------------------------------
(* The registration.  A chain is given from the root downwards.            *)
Unregistered == walletInstance = NoInstance

PresentRoot(platform, root, defects) ==
  /\ Unregistered /\ evidence = NoEvidence
  /\ root.signer # "next"
  /\ evidence' = [platform |-> platform, chain |-> <<root>>, defects |-> defects]
  /\ UNCHANGED <<allowDevelopment, crl, walletInstance, assertion, google, request>>

(* What is below a signature that does not verify makes no difference.     *)
AppendCertificate(certificate) ==
  /\ Unregistered /\ evidence # NoEvidence
  /\ Len(evidence.chain) < MaxChain
  /\ GetRootPublicKey(evidence.chain) /\ ChainValid(evidence.chain)
  /\ Len(evidence.chain) > 1 => evidence.chain[1].signer = "next"
  /\ evidence' = [evidence EXCEPT !.chain = <<certificate>> \o @]
  /\ UNCHANGED <<allowDevelopment, crl, walletInstance, assertion, google, request>>

(* The period of validity of a certificate begins or ends.                 *)
Age(i) ==
  /\ Unregistered /\ evidence.chain[i].dates # "expired"
  /\ evidence' = [evidence EXCEPT !.chain[i].dates =
                    IF @ = "valid" THEN "expired" ELSE "valid"]
  /\ UNCHANGED <<allowDevelopment, crl, walletInstance, assertion, google, request>>

(* Entries are added to the list and lifted; a fetch finds them, or those  *)
(* of a copy in the cache, or fails.                                       *)
ChangeCrl(answer) ==
  /\ Unregistered /\ answer # crl
  /\ crl' = answer
  /\ UNCHANGED <<allowDevelopment, evidence, walletInstance, assertion, google, request>>

AttestationVerdict ==
  ValidateAttestation(evidence, crl.serials, crl.fetched, allowDevelopment)

(* The instance keeps the platform; those that were created before do not  *)
(* have it, and some have no status either.                                *)
Register(hasStatus) ==
  /\ Unregistered /\ evidence # NoEvidence
  /\ AttestationVerdict = Accepted
  /\ walletInstance' \in [platform : {evidence.platform, "unknown"},
                          hasStatus : {hasStatus}]
  /\ evidence' = NoEvidence /\ crl' = EmptyCrl
  /\ UNCHANGED <<allowDevelopment, assertion, google, request>>

----------------------------------------------------------------------------
(* The assertions.                                                         *)
Idle == assertion = NoAssertion /\ request = NoRequest

WhitelistUser ==
  /\ ~Unregistered /\ Idle
  /\ allowDevelopment' = TRUE
  /\ UNCHANGED <<evidence, crl, walletInstance, assertion, google, request>>

SendAssertion(signedFor, bundle, signCount, defects) ==
  /\ ~Unregistered /\ Idle
  /\ assertion' = [signedFor |-> signedFor, bundle |-> bundle,
                   signCount |-> signCount, defects |-> defects]
  /\ google' = GoogleIsWell
  /\ UNCHANGED <<allowDevelopment, evidence, crl, walletInstance, request>>

GoogleChanges(state) ==
  /\ assertion # NoAssertion /\ google # state
  /\ google' = state
  /\ UNCHANGED <<allowDevelopment, evidence, crl, walletInstance, assertion, request>>

AssertionVerdict ==
  ValidateAssertion(assertion, walletInstance.platform, Google,
                    allowDevelopment, 0)

(* The device asks again with an assertion of its own.                     *)
AskAgain ==
  /\ assertion # NoAssertion /\ assertion.signCount < MaxSignCount
  /\ assertion' = [assertion EXCEPT !.signCount = @ + 1]
  /\ UNCHANGED <<allowDevelopment, evidence, crl, walletInstance, google, request>>

(* The key attestation requests: a device starts one and lists its keys,   *)
(* the hardware key signs the thumbprints of some keys.  Every stage is a  *)
(* request of its own; nothing mends one that has a malformed key.         *)
StartRequest(platform, issuerMatches, cnf, loadTest) ==
  /\ ~Unregistered /\ Idle /\ ~allowDevelopment
  /\ request' = [keysToAttest |-> <<>>, platform |-> platform,
                 issuerMatches |-> issuerMatches, cnf |-> cnf,
                 signedThumbprints |-> <<>>, loadTest |-> loadTest]
  /\ UNCHANGED <<allowDevelopment, evidence, crl, walletInstance, assertion, google>>

ListKey(key, thumbprints) ==
  /\ request # NoRequest /\ Len(request.keysToAttest) < MaxKeys
  /\ PlatformDecodes(request) /\ KeyAttestationProperties(request)
  /\ request' = [request EXCEPT !.keysToAttest = Append(@, key),
                               !.signedThumbprints = @ \o thumbprints]
  /\ UNCHANGED <<allowDevelopment, evidence, crl, walletInstance, assertion, google>>

----------------------------------------------------------------------------
(* Of an iOS chain neither the serial numbers nor the records are read.    *)
AppleCertificate ==
  LET serial == CHOOSE s \in Serials : TRUE
  IN {c \in Certificate : c.serial = serial /\ c.subject = "any" /\ c.record = NoRecord}

CertificateOf(platform) ==
  IF platform = "ios" THEN AppleCertificate ELSE Certificate

Registration ==
  \/ \E platform \in Platform, defects \in IosDefects :
       /\ platform = "android" => defects = {} /\ ~allowDevelopment
       /\ \E root \in CertificateOf(platform) : PresentRoot(platform, root, defects)
  \/ \E certificate \in CertificateOf(evidence.platform) :
       certificate.subject = "any" /\ AppendCertificate(certificate)
  \/ \E i \in DOMAIN evidence.chain : Age(i)
  \/ \E answer \in CrlAnswers : evidence.platform = "android" /\ ChangeCrl(answer)
  \/ \E hasStatus \in BOOLEAN : Register(hasStatus)

Assertion ==
  \/ \E signedFor \in Platform \cup {"none"}, signCount \in 0..MaxSignCount,
        bundle \in Range(BundleIdentifiers) \cup {"other app"},
        defects \in ResponseDefects :
       SendAssertion(signedFor, bundle, signCount, defects)
  \/ \E state \in GoogleStates : GoogleChanges(state)
  \/ AskAgain

KeyAttestation ==
  \/ \E platform \in Platform, issuerMatches, loadTest \in BOOLEAN, cnf \in Jwks :
       (loadTest => issuerMatches) /\ StartRequest(platform, issuerMatches, cnf, loadTest)
  \/ \E key \in KeysToAttest, thumbprints \in {<<>>} \cup {<<jwk>> : jwk \in Jwks} :
       ListKey(key, thumbprints)

Next == Registration \/ WhitelistUser \/ Assertion \/ KeyAttestation

Spec == Init /\ [][Next]_vars

----------------------------------------------------------------------------
(* Once the chain of an Android device would be accepted, no certificate   *)
(* that is added below changes the key that is registered: whatever record *)
(* it carries, the chain is refused or the key is the one it was.          *)
RegisteredKey == Len(evidence.chain) - KeyAttestationExtension(evidence.chain)

AppendingKeepsTheKey ==
  [][ /\ evidence.platform = "android" /\ AttestationVerdict = Accepted
      /\ Len(evidence'.chain) > Len(evidence.chain)
      /\ AttestationVerdict' = Accepted
      => RegisteredKey' = RegisteredKey ]_vars

(* Whether the dates of a certificate count: not for the users of          *)
(* development builds of iOS, and for Android neither those of leaf and    *)
(* root nor any of a chain that is not provisioned remotely.               *)
DatesCount(i) ==
  IF evidence.platform = "ios" THEN ~allowDevelopment
  ELSE ~IsNonRkpChain(evidence.chain) /\ ~IsLeafOrRoot(evidence.chain, i)

(* A period of validity that counts begins or ends, and serial numbers     *)
(* some of which a certificate of the chain has.                           *)
Turned(dates, later) ==
  \E i \in DOMAIN evidence.chain :
    /\ DatesCount(i)
    /\ evidence.chain[i].dates = dates /\ evidence'.chain[i].dates = later

Concern(serials) ==
  \E i \in DOMAIN evidence.chain, s \in serials :
    <<evidence.chain[i].serial, s>> \in Containing

ExpiredForGood ==
  \E i \in DOMAIN evidence.chain : DatesCount(i) /\ evidence.chain[i].dates = "expired"

(* The same chain gets another answer later only for a reason: a refused   *)
(* one is accepted when a certificate whose dates count becomes valid, or  *)
(* (Android) the list of revoked ones can be fetched again or a serial     *)
(* number of the chain is lifted from it; an accepted one is refused for   *)
(* the opposite of these.  One with an expired certificate whose dates     *)
(* count never registers a key, whatever happens and is appended to it.    *)
VerdictChangesForAReason ==
  [][ evidence # NoEvidence =>
      LET refused == AttestationVerdict # Accepted
          android == evidence.platform = "android"
      IN /\ ExpiredForGood => evidence' # NoEvidence /\ AttestationVerdict' # Accepted
         /\ Len(evidence'.chain) = Len(evidence.chain) =>
              /\ refused /\ AttestationVerdict' = Accepted =>
                   \/ Turned("not yet valid", "valid")
                   \/ android /\ ~crl.fetched
                   \/ android /\ Concern(crl.serials \ crl'.serials)
              /\ ~refused /\ AttestationVerdict' # Accepted =>
                   \/ Turned("valid", "expired")
                   \/ android /\ ~crl'.fetched
                   \/ android /\ Concern(crl'.serials \ crl.serials) ]_vars

(* A device is told what it deserves: its assertion is accepted only if it *)
(* is in order; if it is, it is never called bad evidence because Google   *)
(* is down; and bad signatures are never put down to Google.  (An error of *)
(* the authorization with Google is the exception: it cannot be told from  *)
(* bad evidence.)                                                          *)
InOrder ==
  /\ assertion.signedFor \in Platform
  /\ walletInstance.platform \in {assertion.signedFor, "unknown"}
  /\ assertion.bundle \in Range(BundleIdentifiers)
  /\ IF assertion.signedFor = "ios" THEN assertion.signCount > 0
     ELSE assertion.defects \subseteq
            (IF allowDevelopment THEN DevelopmentExemptions ELSE {})

VerdictIsDeserved ==
  assertion # NoAssertion =>
    /\ AssertionVerdict = Accepted => InOrder
    /\ InOrder /\ google.authorized => AssertionVerdict \in {Accepted, "external"}
    /\ AssertionVerdict = "external" =>
         /\ assertion.signedFor = "android"
         /\ ~google.up \/ google.other = "error"

(* An attestation is granted for keys that the device has bound together:  *)
(* the hardware key signed the list of them, in its order, and each key of *)
(* an Android device is the one that its own hardware attestation is for.  *)
AttestedKeysAreBound ==
  request # NoRequest =>
    LET keys == AttestedKeys(request)
    IN GenerateKeyAttestation(request, walletInstance) = "granted" =>
         /\ keys # <<>> /\ keys[1].jwk = request.cnf
         /\ \/ request.loadTest
            \/ /\ request.signedThumbprints = [i \in DOMAIN keys |-> keys[i].jwk]
               /\ request.platform = "android" =>
                    \A i \in DOMAIN keys :
                      /\ request.keysToAttest[i].genuine
                      /\ request.keysToAttest[i].attestedJwk = keys[i].jwk
                      /\ (keys[i].keyStorage = "iso_18045_moderate") <=>
                           (request.keysToAttest[i].level = 2)
=============================================================================
