-------------------- MODULE AttestationValidationProofs --------------------
(***************************************************************************)
(* What the run of AttestationValidation checks, for chains of any length, *)
(* any packages, serial numbers, records and defects, and requests of any  *)
(* number of keys. First what lists of checks and choices of the first or  *)
(* last certificate amount to; from then on a verdict is a conjunction.    *)
(* The rest is to say what a step does to the evidence.  At its end, the   *)
(* import of the whitelist that excuses its users from some of the checks  *)
(* (WhitelistedFiscalCodes).                                               *)
(***************************************************************************)
EXTENDS AttestationValidation, WhitelistedFiscalCodes, FiniteSetTheorems,
  SequenceTheorems, WellFoundedInduction, TLAPS

----------------------------------------------------------------------------
(* The first and the last *)

(* A set of indices has a least element ...                                *)
LEMMA HasLeast ==
  ASSUME NEW T \in SUBSET Nat, T # {}
  PROVE  \E x \in T : \A y \in T : x <= y
<1>1. PICK x \in T : \A y \in T : <<y, x>> \notin OpToRel(<, Nat)
  BY NatLessThanWellFounded, WFMin, Zenon
<1>2. \A y \in T : ~(y < x)
  BY <1>1 DEF OpToRel
<1>3. QED
  BY <1>2

(* ... and one of the indices of a sequence a greatest.                    *)
LEMMA HasGreatest ==
  ASSUME NEW n \in Nat, NEW T \in SUBSET (1..n), T # {}
  PROVE  \E x \in T : \A y \in T : y <= x
<1> DEFINE mirrored == {n - x : x \in T}
<1>1. mirrored \in SUBSET Nat /\ mirrored # {}
  <2>1. \A x \in T : n - x \in Nat
    OBVIOUS
  <2>2. QED
    BY <2>1, Zenon
<1>2. PICK least \in mirrored : \A y \in mirrored : least <= y
  BY <1>1, HasLeast
<1>3. PICK x \in T : least = n - x
  OBVIOUS
<1>4. \A y \in T : n - y \in mirrored
  OBVIOUS
<1>5. \A y \in T : y <= x
  BY <1>2, <1>3, <1>4
<1>6. QED
  BY <1>5

(* A list of checks is passed just when each of them holds.                *)
LEMMA FirstFailureIsAccepted ==
  ASSUME NEW checks, DOMAIN checks \in SUBSET Nat,
         \A i \in DOMAIN checks : checks[i][2] # Accepted
  PROVE  FirstFailure(checks) = Accepted <=> \A i \in DOMAIN checks : checks[i][1]
<1> DEFINE failed == {i \in DOMAIN checks : ~checks[i][1]}
<1>1. CASE failed = {}
  BY <1>1 DEF FirstFailure
<1>2. CASE failed # {}
  <2> DEFINE first == CHOOSE i \in failed : \A j \in failed : i <= j
  <2>1. \E i \in failed : \A j \in failed : i <= j
    BY <1>2, HasLeast
  <2>2. first \in failed
    BY <2>1
  <2>3. FirstFailure(checks) = checks[first][2]
    BY <1>2 DEF FirstFailure
  <2>4. QED
    BY <2>2, <2>3
<1>3. QED
  BY <1>1, <1>2

(* ... in particular the checks that a piece of evidence may not pass.     *)
LEMMA ValidateIsAccepted ==
  ASSUME NEW checks, DOMAIN checks \in SUBSET Nat, Accepted \notin Range(checks),
         NEW defects
  PROVE  Validate(checks, defects) = Accepted <=> Range(checks) \cap defects = {}
<1> DEFINE list == [i \in DOMAIN checks |-> <<checks[i] \notin defects, checks[i]>>]
<1>1. DOMAIN list = DOMAIN checks
  OBVIOUS
<1>2. \A i \in DOMAIN checks :
        list[i][1] = (checks[i] \notin defects) /\ list[i][2] = checks[i]
  OBVIOUS
<1>3. \A i \in DOMAIN list : list[i][2] # Accepted
  BY <1>1, <1>2 DEF Range
<1>4. FirstFailure(list) = Accepted <=> \A i \in DOMAIN list : list[i][1]
  <2> HIDE DEF list
  <2>1. QED
    BY <1>1, <1>3, FirstFailureIsAccepted
<1>5. FirstFailure(list) = Accepted <=> \A i \in DOMAIN checks : checks[i] \notin defects
  BY <1>1, <1>2, <1>4
<1>6. QED
  BY <1>5 DEF Validate, Range

(* ... of which the ones of an integrity token are an example: none has    *)
(* the name "accepted".                                                    *)
LEMMA IntegrityIsAccepted ==
  ASSUME NEW defects
  PROVE  Validate(IntegrityChecks, defects) = Accepted
           <=> Range(IntegrityChecks) \cap defects = {}
<1>1. IntegrityChecks = [i \in 1..17 |-> IntegrityChecks[i]]
  BY DEF IntegrityChecks
<1>2. /\ IntegrityChecks[1] # Accepted /\ IntegrityChecks[2] # Accepted
      /\ IntegrityChecks[3] # Accepted /\ IntegrityChecks[4] # Accepted
      /\ IntegrityChecks[5] # Accepted /\ IntegrityChecks[6] # Accepted
      /\ IntegrityChecks[7] # Accepted /\ IntegrityChecks[8] # Accepted
      /\ IntegrityChecks[9] # Accepted /\ IntegrityChecks[10] # Accepted
      /\ IntegrityChecks[11] # Accepted /\ IntegrityChecks[12] # Accepted
      /\ IntegrityChecks[13] # Accepted /\ IntegrityChecks[14] # Accepted
      /\ IntegrityChecks[15] # Accepted /\ IntegrityChecks[16] # Accepted
      /\ IntegrityChecks[17] # Accepted
  BY DEF IntegrityChecks, Accepted
<1>3. \A i \in 1..17 :
        \/ i = 1 \/ i = 2 \/ i = 3 \/ i = 4 \/ i = 5 \/ i = 6 \/ i = 7 \/ i = 8
        \/ i = 9 \/ i = 10 \/ i = 11 \/ i = 12 \/ i = 13 \/ i = 14 \/ i = 15
        \/ i = 16 \/ i = 17
  OBVIOUS
<1>4. DOMAIN IntegrityChecks \in SUBSET Nat /\ Accepted \notin Range(IntegrityChecks)
  BY <1>1, <1>2, <1>3 DEF Range
<1>5. QED
  BY <1>4, ValidateIsAccepted

(* The certificates pass the checks of their issuance.                     *)
IssuanceHolds(chain, skipIntermediate, skipLeafAndRoot) ==
  /\ GetRootPublicKey(chain)
  /\ DatesValid(chain, skipIntermediate, skipLeafAndRoot)
  /\ ChainValid(chain)

(* That is what ValidateIssuance comes to.                                 *)
LEMMA ValidateIssuanceIsAccepted ==
  ASSUME NEW chain, NEW skipIntermediate, NEW skipLeafAndRoot
  PROVE  ValidateIssuance(chain, skipIntermediate, skipLeafAndRoot) = Accepted
           <=> IssuanceHolds(chain, skipIntermediate, skipLeafAndRoot)
<1> DEFINE root == GetRootPublicKey(chain)
           dates == DatesValid(chain, skipIntermediate, skipLeafAndRoot)
           signed == ChainValid(chain)
           list == << <<root, "root certificate not found">>,
                      <<dates, "expired">>, <<signed, "chain is invalid">> >>
<1>1. /\ DOMAIN list = 1..3
      /\ list[1][1] = root /\ list[2][1] = dates /\ list[3][1] = signed
      /\ \A i \in 1..3 : list[i][2] # Accepted
  <2> HIDE DEF root, dates, signed
  <2>1. QED
    BY DEF Accepted
<1>2. DOMAIN list \in SUBSET Nat
  <2> HIDE DEF list
  <2>1. QED
    BY <1>1
<1>3. FirstFailure(list) = Accepted <=> \A i \in DOMAIN list : list[i][1]
  <2> HIDE DEF list
  <2>1. QED
    BY <1>1, <1>2, FirstFailureIsAccepted
<1>4. FirstFailure(list) = Accepted <=> root /\ dates /\ signed
  <2> HIDE DEF list, root, dates, signed
  <2>1. QED
    BY <1>1, <1>3
<1>5. QED
  BY <1>4 DEF ValidateIssuance, IssuanceHolds

----------------------------------------------------------------------------
(* The stages of a device                                                  *)

(* A device first registers, then sends assertions and requests; a chain   *)
(* that is presented has a root.                                           *)
StagesInv ==
  /\ evidence # NoEvidence =>
       evidence.chain # <<>> /\ walletInstance = NoInstance
  /\ assertion # NoAssertion => walletInstance # NoInstance

(* The inductive invariant.                                                *)
ValidationInv == TypeOK /\ StagesInv

(* What has not been sent is nothing that a device sends.                  *)
LEMMA NothingSent ==
  /\ NoEvidence \notin Evidence /\ NoInstance \notin Instance
  /\ NoRequest \notin SentRequest
BY DEF NoEvidence, Evidence, NoInstance, Instance, NoRequest, SentRequest, Platform

(* An empty list is something that a fetch may find.                       *)
LEMMA EmptyCrlIsAnswer == EmptyCrl \in CrlAnswers
BY DEF EmptyCrl, CrlAnswers

(* At first nothing is sent.                                               *)
LEMMA InitValidation == Init => ValidationInv
<1>1. GoogleIsWell \in GoogleStates
  BY DEF GoogleIsWell, GoogleStates
<1>2. QED
  BY <1>1, EmptyCrlIsAnswer DEF Init, ValidationInv, TypeOK, StagesInv

(* A root is presented.                                                    *)
LEMMA PresentRootInv ==
  ASSUME ValidationInv, NEW platform \in Platform, NEW defects \in IosDefects,
         NEW root \in CertificateOf(platform), PresentRoot(platform, root, defects)
  PROVE  ValidationInv'
<1>1. root \in Certificate
  BY DEF CertificateOf, AppleCertificate
<1>2. <<root>> \in Seq(Certificate) /\ <<root>> # <<>>
  BY <1>1
<1>3. evidence' \in Evidence /\ evidence'.chain # <<>>
  BY <1>2 DEF PresentRoot, Evidence
<1>4. TypeOK'
  BY <1>3 DEF PresentRoot, ValidationInv, TypeOK
<1>5. StagesInv'
  BY <1>3 DEF PresentRoot, ValidationInv, StagesInv, Unregistered
<1>6. QED
  BY <1>4, <1>5 DEF ValidationInv

(* What appending does to a chain: certificates move one place.            *)
LEMMA Appended ==
  ASSUME NEW chain \in Seq(Certificate), NEW certificate \in Certificate,
         NEW longer, longer = <<certificate>> \o chain
  PROVE  /\ longer \in Seq(Certificate) /\ longer # <<>>
         /\ Len(longer) = Len(chain) + 1
         /\ \A i \in 1..Len(chain) : longer[i + 1] = chain[i]
<1>1. <<certificate>> \in Seq(Certificate) /\ Len(<<certificate>>) = 1
  OBVIOUS
<1>2. /\ longer \in Seq(Certificate)
      /\ Len(longer) = 1 + Len(chain)
      /\ \A i \in 1..1 + Len(chain) :
           longer[i] = IF i <= 1 THEN <<certificate>>[i] ELSE chain[i - 1]
  BY <1>1, ConcatProperties
<1>3. Len(chain) \in Nat
  OBVIOUS
<1>4. QED
  BY <1>2, <1>3

(* A certificate is appended below.                                        *)
LEMMA AppendCertificateInv ==
  ASSUME ValidationInv, NEW certificate \in CertificateOf(evidence.platform),
         AppendCertificate(certificate)
  PROVE  /\ ValidationInv'
         /\ evidence' = [evidence EXCEPT !.chain = <<certificate>> \o @]
         /\ certificate \in Certificate
<1>1. certificate \in Certificate
  BY DEF CertificateOf, AppleCertificate
<1>2. evidence \in Evidence /\ evidence.chain \in Seq(Certificate)
  BY DEF ValidationInv, TypeOK, AppendCertificate, Evidence
<1>3. evidence' \in Evidence /\ evidence'.chain # <<>>
  BY <1>1, <1>2, Appended DEF AppendCertificate, Evidence
<1>4. TypeOK' /\ StagesInv'
  BY <1>3 DEF AppendCertificate, ValidationInv, TypeOK, StagesInv, Unregistered
<1>5. QED
  BY <1>1, <1>4 DEF ValidationInv, AppendCertificate

(* What the dates of a certificate become.                                 *)
Later(dates) == IF dates = "valid" THEN "expired" ELSE "valid"

(* The period of validity of a certificate begins or ends.                 *)
LEMMA AgeInv ==
  ASSUME ValidationInv, NEW i \in DOMAIN evidence.chain, Age(i)
  PROVE  /\ ValidationInv'
         /\ evidence \in Evidence
         /\ evidence.chain[i].dates # "expired"
         /\ evidence' = [evidence EXCEPT !.chain =
                          [evidence.chain EXCEPT
                             ![i].dates = Later(evidence.chain[i].dates)]]
<1>1. CASE evidence = NoEvidence
  BY <1>1 DEF NoEvidence
<1>2. CASE evidence # NoEvidence
  <2> DEFINE older == [evidence.chain[i] EXCEPT !.dates = Later(evidence.chain[i].dates)]
             chain == [evidence.chain EXCEPT ![i] = older]
  <2>1. evidence \in Evidence /\ evidence.chain \in Seq(Certificate)
    BY <1>2 DEF ValidationInv, TypeOK, Evidence
  <2>2. evidence.chain[i] \in Certificate /\ i \in 1..Len(evidence.chain)
    BY <2>1
  <2>3. older \in Certificate
    BY <2>2 DEF Certificate, Later
  <2>4. chain \in Seq(Certificate) /\ Len(chain) = Len(evidence.chain)
    BY <2>1, <2>2, <2>3, ExceptSeq
  <2>5. chain = [evidence.chain EXCEPT ![i].dates = Later(evidence.chain[i].dates)]
    OBVIOUS
  <2>6. evidence' = [evidence EXCEPT !.chain = chain]
    BY <2>5 DEF Age, Later
  <2>7. evidence' \in Evidence /\ evidence'.chain = chain
    <3> HIDE DEF chain
    <3>1. QED
      BY <2>1, <2>4, <2>6 DEF Evidence
  <2>8. evidence'.chain # <<>>
    BY <2>2, <2>4, <2>7
  <2>9. TypeOK' /\ StagesInv'
    BY <2>7, <2>8 DEF Age, ValidationInv, TypeOK, StagesInv, Unregistered
  <2>10. QED
    BY <2>1, <2>5, <2>6, <2>9 DEF ValidationInv, Age
<1>3. QED
  BY <1>1, <1>2

(* The device is registered: its evidence has served its purpose.          *)
LEMMA RegisterInv ==
  ASSUME ValidationInv, NEW hasStatus \in BOOLEAN, Register(hasStatus)
  PROVE  ValidationInv' /\ evidence' = NoEvidence
<1>1. evidence.platform \in Platform
  BY DEF Register, ValidationInv, TypeOK, Evidence
<1>2. walletInstance' \in Instance /\ walletInstance' # NoInstance
  BY <1>1, NothingSent DEF Register, Instance
<1>3. TypeOK'
  BY <1>2, EmptyCrlIsAnswer DEF Register, ValidationInv, TypeOK
<1>4. StagesInv'
  BY <1>2 DEF Register, StagesInv
<1>5. QED
  BY <1>3, <1>4 DEF ValidationInv, Register

(* What the list of revoked certificates is concerns nothing else.         *)
LEMMA ChangeCrlInv ==
  ASSUME ValidationInv, NEW answer \in CrlAnswers, ChangeCrl(answer)
  PROVE  ValidationInv'
BY DEF ChangeCrl, ValidationInv, TypeOK, StagesInv, Unregistered

(* Assertions are sent by registered devices.                              *)
LEMMA AssertionInv ==
  ASSUME ValidationInv, Assertion
  PROVE  ValidationInv' /\ UNCHANGED <<evidence, crl, walletInstance, allowDevelopment>>
<1>1. ASSUME NEW signedFor \in Platform \cup {"none"},
             NEW signCount \in 0..MaxSignCount,
             NEW bundle \in Range(BundleIdentifiers) \cup {"other app"},
             NEW defects \in ResponseDefects,
             SendAssertion(signedFor, bundle, signCount, defects)
      PROVE  ValidationInv'
  <2>1. assertion' \in SentAssertion
    BY <1>1 DEF SendAssertion, SentAssertion
  <2>2. GoogleIsWell \in GoogleStates
    BY DEF GoogleIsWell, GoogleStates
  <2>3. QED
    BY <1>1, <2>1, <2>2
    DEF SendAssertion, ValidationInv, TypeOK, StagesInv, Unregistered
<1>2. ASSUME NEW state \in GoogleStates, GoogleChanges(state) PROVE ValidationInv'
  BY <1>2 DEF GoogleChanges, ValidationInv, TypeOK, StagesInv
<1>3. CASE AskAgain
  <2>1. assertion \in SentAssertion
    BY <1>3 DEF AskAgain, ValidationInv, TypeOK
  <2>2. assertion.signCount + 1 \in 0..MaxSignCount
    <3>1. assertion.signCount \in 0..MaxSignCount
      BY <2>1 DEF SentAssertion
    <3>2. assertion.signCount < MaxSignCount /\ MaxSignCount \in Nat
      BY <1>3, BoundsAssumption DEF AskAgain
    <3>3. QED
      BY <3>1, <3>2
  <2>3. assertion' \in SentAssertion
    BY <1>3, <2>1, <2>2 DEF AskAgain, SentAssertion
  <2>4. walletInstance # NoInstance
    BY <1>3 DEF AskAgain, ValidationInv, StagesInv
  <2>5. QED
    BY <1>3, <2>3, <2>4 DEF AskAgain, ValidationInv, TypeOK, StagesInv
<1>4. UNCHANGED <<evidence, crl, walletInstance, allowDevelopment>>
  BY DEF Assertion, SendAssertion, GoogleChanges, AskAgain
<1>5. QED
  BY <1>1, <1>2, <1>3, <1>4, Zenon DEF Assertion

(* A request grows key by key.                                             *)
LEMMA KeyAttestationInv ==
  ASSUME ValidationInv, KeyAttestation
  PROVE  ValidationInv' /\ UNCHANGED <<evidence, crl, walletInstance, allowDevelopment>>
<1>1. request' \in SentRequest
  <2>1. ASSUME NEW platform \in Platform, NEW issuerMatches \in BOOLEAN,
               NEW loadTest \in BOOLEAN, NEW cnf \in Jwks,
               StartRequest(platform, issuerMatches, cnf, loadTest)
        PROVE  request' \in SentRequest
    <3>1. <<>> \in Seq(KeysToAttest) /\ <<>> \in Seq(Jwks)
      OBVIOUS
    <3>2. QED
      BY <2>1, <3>1 DEF StartRequest, SentRequest
  <2>2. ASSUME NEW key \in KeysToAttest,
               NEW thumbprints \in {<<>>} \cup {<<jwk>> : jwk \in Jwks},
               ListKey(key, thumbprints)
        PROVE  request' \in SentRequest
    <3>1. request \in SentRequest
      BY <2>2 DEF ListKey, ValidationInv, TypeOK
    <3>2. request.keysToAttest \in Seq(KeysToAttest)
          /\ request.signedThumbprints \in Seq(Jwks)
      BY <3>1 DEF SentRequest
    <3>3. thumbprints \in Seq(Jwks)
      <4>1. CASE thumbprints = <<>>
        BY <4>1
      <4>2. ASSUME NEW jwk \in Jwks, thumbprints = <<jwk>>
            PROVE  thumbprints \in Seq(Jwks)
        BY <4>2
      <4>3. QED
        BY <4>1, <4>2
    <3>4. /\ Append(request.keysToAttest, key) \in Seq(KeysToAttest)
          /\ request.signedThumbprints \o thumbprints \in Seq(Jwks)
      BY <3>2, <3>3, ConcatProperties
    <3>5. QED
      BY <2>2, <3>1, <3>4 DEF ListKey, SentRequest
  <2>3. QED
    BY <2>1, <2>2, Zenon DEF KeyAttestation
<1>2. UNCHANGED <<allowDevelopment, evidence, crl, walletInstance, assertion, google>>
  BY DEF KeyAttestation, StartRequest, ListKey
<1>3. QED
  BY <1>1, <1>2 DEF ValidationInv, TypeOK, StagesInv

(* Every step keeps the invariant.                                         *)
LEMMA NextValidation == ValidationInv /\ [Next]_vars => ValidationInv'
<1> SUFFICES ASSUME ValidationInv, [Next]_vars PROVE ValidationInv'
  OBVIOUS
<1>1. CASE Registration
  BY <1>1, PresentRootInv, AppendCertificateInv, AgeInv, ChangeCrlInv, RegisterInv, Zenon
  DEF Registration
<1>2. CASE WhitelistUser
  BY <1>2 DEF WhitelistUser, ValidationInv, TypeOK, StagesInv
<1>3. CASE UNCHANGED vars
  BY <1>3 DEF vars, ValidationInv, TypeOK, StagesInv
<1>4. QED
  BY <1>1, <1>2, <1>3, AssertionInv, KeyAttestationInv DEF Next

(* The inductive invariant: every variable has its type, and a device      *)
(* sends assertions only after it has registered.                          *)
THEOREM ValidationCorrect == Spec => []ValidationInv
BY InitValidation, NextValidation, PTL DEF Spec

(* Every variable keeps its type, however long the chains and requests.    *)
THEOREM ValidationTypeOK == Spec => []TypeOK
<1>1. ValidationInv => TypeOK
  BY DEF ValidationInv
<1>2. QED
  BY <1>1, ValidationCorrect, PTL

----------------------------------------------------------------------------
(* The attestation of keys                                                 *)

(* What is granted for a request is what it lists: in its order, with the  *)
(* storage that is claimed for each.                                       *)
LEMMA KeysAsListed ==
  ASSUME NEW sent \in SentRequest
  PROVE  /\ sent.keysToAttest \in Seq(KeysToAttest)
         /\ DOMAIN AttestedKeys(sent) = DOMAIN sent.keysToAttest
         /\ \A i \in DOMAIN sent.keysToAttest :
              /\ sent.keysToAttest[i] \in KeyToAttest
              /\ AttestedKeys(sent)[i].jwk = sent.keysToAttest[i].jwk
              /\ AttestedKeys(sent)[i].keyStorage
                   = KeyStorage(sent, sent.keysToAttest[i])
<1>1. sent.keysToAttest \in Seq(KeysToAttest)
  BY DEF SentRequest
<1>2. \A i \in DOMAIN sent.keysToAttest : sent.keysToAttest[i] \in KeyToAttest
  BY <1>1, BoundsAssumption
<1>3. QED
  BY <1>1, <1>2 DEF AttestedKeys

(* The storage is claimed to resist the stronger attacks just when the     *)
(* hardware attestation of the key says so.                                *)
LEMMA StorageAsAttested ==
  ASSUME NEW sent \in SentRequest, NEW key \in KeyToAttest,
         ~sent.loadTest, sent.platform = "android"
  PROVE  KeyStorage(sent, key) = "iso_18045_moderate" <=> key.level = 2
<1>1. key.level \in 1..2
  BY DEF KeyToAttest
<1>2. key.level >= 2 <=> key.level = 2
  BY <1>1
<1>3. QED
  BY <1>2 DEF KeyStorage

(* An attestation is granted only for keys that the device has bound       *)
(* together, with the storage that the attestation of each key bears out.  *)
THEOREM ValidationAttestedKeysAreBound == Spec => []AttestedKeysAreBound
<1>1. ValidationInv => AttestedKeysAreBound
  <2> DEFINE keys == AttestedKeys(request)
             listed == request.keysToAttest
  <2> SUFFICES ASSUME ValidationInv, request # NoRequest,
                      GenerateKeyAttestation(request, walletInstance) = "granted"
               PROVE  /\ keys # <<>> /\ keys[1].jwk = request.cnf
                      /\ \/ request.loadTest
                         \/ /\ request.signedThumbprints = [i \in DOMAIN keys |-> keys[i].jwk]
                            /\ request.platform = "android" =>
                                 \A i \in DOMAIN keys :
                                   /\ listed[i].genuine
                                   /\ listed[i].attestedJwk = keys[i].jwk
                                   /\ (keys[i].keyStorage = "iso_18045_moderate")
                                        <=> (listed[i].level = 2)
    BY DEF AttestedKeysAreBound
  <2>1. request \in SentRequest
    BY DEF ValidationInv, TypeOK
  <2>2. /\ listed \in Seq(KeysToAttest) /\ DOMAIN keys = DOMAIN listed
        /\ \A i \in DOMAIN listed :
             /\ listed[i] \in KeyToAttest /\ keys[i].jwk = listed[i].jwk
             /\ keys[i].keyStorage = KeyStorage(request, listed[i])
    BY <2>1, KeysAsListed
  <2>3. /\ AssertionProperties(request)
        /\ ValidateHardwareAssertion(request, walletInstance)
        /\ ValidateKeysToAttest(request)
    BY DEF GenerateKeyAttestation, RequireKeyAttestationRequest
  <2> HIDE DEF keys
  <2>4. listed # <<>> /\ request.cnf = listed[1].jwk
    BY <2>3 DEF AssertionProperties
  <2>5. 1 \in DOMAIN listed
    BY <2>2, <2>4
  <2>6. keys # <<>> /\ keys[1].jwk = request.cnf
    BY <2>2, <2>4, <2>5
  <2>7. ASSUME ~request.loadTest
        PROVE  request.signedThumbprints = [i \in DOMAIN keys |-> keys[i].jwk]
    <3>1. request.signedThumbprints = [i \in DOMAIN listed |-> listed[i].jwk]
      BY <2>3, <2>7 DEF ValidateHardwareAssertion, Thumbprints
    <3>2. [i \in DOMAIN listed |-> listed[i].jwk] = [i \in DOMAIN keys |-> keys[i].jwk]
      BY <2>2
    <3>3. QED
      BY <3>1, <3>2
  <2>8. ASSUME ~request.loadTest, request.platform = "android",
               NEW i \in DOMAIN keys
        PROVE  /\ listed[i].genuine /\ listed[i].attestedJwk = keys[i].jwk
               /\ (keys[i].keyStorage = "iso_18045_moderate") <=> (listed[i].level = 2)
    <3>1. listed[i].genuine /\ listed[i].attestedJwk = listed[i].jwk
      BY <2>2, <2>3, <2>8 DEF ValidateKeysToAttest, AttestedJwkMatches
    <3>2. KeyStorage(request, listed[i]) = "iso_18045_moderate" <=> listed[i].level = 2
      BY <2>1, <2>2, <2>8, StorageAsAttested
    <3>3. QED
      BY <2>2, <3>1, <3>2
  <2>9. QED
    BY <2>6, <2>7, <2>8
<1>2. QED
  BY <1>1, ValidationCorrect, PTL

----------------------------------------------------------------------------
(* The assertions                                                          *)

(* What is forgiven the user.                                              *)
Forgiven == IF allowDevelopment THEN DevelopmentExemptions ELSE {}

(* A token is accepted just when all of its defects are forgiven.          *)
LEMMA ResponseIsAccepted ==
  ASSUME NEW defects \in ResponseDefects
  PROVE  ValidateIntegrityResponse(defects, allowDevelopment) = Accepted
           <=> defects \subseteq Forgiven
<1>1. defects \subseteq Range(IntegrityChecks)
  BY BoundsAssumption
<1>2. CASE allowDevelopment
  <2>1. ValidateIntegrityResponse(defects, allowDevelopment)
          = Validate(IntegrityChecks, defects \ DevelopmentExemptions)
    BY <1>2 DEF ValidateIntegrityResponse
  <2>2. Validate(IntegrityChecks, defects \ DevelopmentExemptions) = Accepted
          <=> Range(IntegrityChecks) \cap (defects \ DevelopmentExemptions) = {}
    BY IntegrityIsAccepted
  <2>3. QED
    BY <1>1, <1>2, <2>1, <2>2 DEF Forgiven
<1>3. CASE ~allowDevelopment
  <2>1. ValidateIntegrityResponse(defects, allowDevelopment)
          = Validate(IntegrityChecks, defects)
    BY <1>3 DEF ValidateIntegrityResponse
  <2>2. Validate(IntegrityChecks, defects) = Accepted
          <=> Range(IntegrityChecks) \cap defects = {}
    BY IntegrityIsAccepted
  <2>3. QED
    BY <1>1, <1>3, <2>1, <2>2 DEF Forgiven
<1>4. QED
  BY <1>2, <1>3

(* Google is at fault, which makes its errors no news about the device.    *)
GoogleFails == ~google.up \/ google.other = "error"

(* What Google answers for one package of the app.                         *)
LEMMA WhatGoogleAnswers ==
  ASSUME NEW name
  PROVE  /\ Answer(name).kind \in {"error", "no token", "token"}
         /\ Answer(name).kind = "error" => GoogleFails
         /\ Answer(name).kind = "token" =>
              name = assertion.bundle /\ Answer(name).defects = assertion.defects
         /\ name = assertion.bundle => Answer(name).kind # "no token"
BY DEF Answer, GoogleFails

(* The answer that ends the search for a package decides: a token of the   *)
(* app is judged by its defects, and only Google's errors are external.    *)
LEMMA TokenIsJudged ==
  ASSUME ValidationInv, assertion \in SentAssertion
  PROVE  LET verdict == IntegrityVerdict(Google.answers, allowDevelopment)
         IN /\ verdict = Accepted =>
                 /\ assertion.bundle \in Range(BundleIdentifiers)
                 /\ assertion.defects \subseteq Forgiven
            /\ /\ assertion.bundle \in Range(BundleIdentifiers)
               /\ assertion.defects \subseteq Forgiven
               => verdict \in {Accepted, "external"}
            /\ verdict = "external" => GoogleFails
<1> DEFINE answers == [i \in DOMAIN BundleIdentifiers |-> Answer(BundleIdentifiers[i])]
           verdict == IntegrityVerdict(answers, allowDevelopment)
<1>1. Google.answers = answers
  BY DEF Google
<1>2. DOMAIN BundleIdentifiers \subseteq Nat
  BY BundleIdentifiersAssumption
<1>3. \A i \in DOMAIN answers :
        /\ i \in DOMAIN BundleIdentifiers
        /\ answers[i].kind \in {"error", "no token", "token"}
        /\ answers[i].kind = "error" => GoogleFails
        /\ answers[i].kind = "token" =>
             /\ BundleIdentifiers[i] = assertion.bundle
             /\ answers[i].defects = assertion.defects
        /\ BundleIdentifiers[i] = assertion.bundle => answers[i].kind # "no token"
  BY WhatGoogleAnswers
<1>4. \A i \in DOMAIN BundleIdentifiers : i \in DOMAIN answers
  OBVIOUS
<1> HIDE DEF answers
<1> DEFINE decisive == Decisive(answers, allowDevelopment)
<1>5. CASE decisive = {}
  <2>1. verdict = "integrity"
    BY <1>5 DEF IntegrityVerdict
  <2>2. SUFFICES ASSUME assertion.bundle \in Range(BundleIdentifiers),
                        assertion.defects \subseteq Forgiven
                 PROVE  FALSE
    BY <1>1, <2>1 DEF Accepted
  <2>3. PICK i \in DOMAIN BundleIdentifiers : BundleIdentifiers[i] = assertion.bundle
    BY <2>2 DEF Range
  <2>4. i \in DOMAIN answers /\ i \notin decisive
    BY <1>4, <1>5
  <2>5. /\ answers[i].kind = "token" /\ answers[i].defects = assertion.defects
        /\ ValidateIntegrityResponse(assertion.defects, allowDevelopment) \in Unreadable
    BY <1>3, <2>3, <2>4 DEF Decisive
  <2>6. assertion.defects \in ResponseDefects
    BY DEF SentAssertion
  <2>7. ValidateIntegrityResponse(assertion.defects, allowDevelopment) = Accepted
    BY <2>2, <2>6, ResponseIsAccepted
  <2>8. QED
    BY <2>5, <2>7 DEF Unreadable, Accepted
<1>6. CASE decisive # {}
  <2> DEFINE i == CHOOSE j \in decisive : \A k \in decisive : j <= k
  <2>1. decisive \in SUBSET Nat
    BY <1>2, <1>3 DEF Decisive
  <2>2. \E j \in decisive : \A k \in decisive : j <= k
    <3> HIDE DEF decisive
    <3>1. QED
      BY <1>6, <2>1, HasLeast
  <2>3. i \in decisive
    <3> HIDE DEF decisive
    <3>1. QED
      BY <2>2
  <2>4. verdict = IF answers[i].kind = "error" THEN "external"
                  ELSE IF ValidateIntegrityResponse(answers[i].defects, allowDevelopment)
                            = Accepted
                       THEN Accepted ELSE "integrity"
    BY <1>6 DEF IntegrityVerdict
  <2> HIDE DEF i
  <2>5. i \in DOMAIN answers /\ answers[i].kind \in {"error", "token"}
    BY <1>3, <2>3 DEF Decisive
  <2>6. CASE answers[i].kind = "error"
    BY <1>1, <1>3, <2>4, <2>5, <2>6 DEF Accepted
  <2>7. CASE answers[i].kind = "token"
    <3>1. /\ assertion.bundle \in Range(BundleIdentifiers)
          /\ answers[i].defects = assertion.defects
      BY <1>3, <2>5, <2>7 DEF Range
    <3>2. assertion.defects \in ResponseDefects
      BY DEF SentAssertion
    <3>3. verdict = IF assertion.defects \subseteq Forgiven
                    THEN Accepted ELSE "integrity"
      BY <2>4, <2>7, <3>1, <3>2, ResponseIsAccepted
    <3>4. QED
      BY <1>1, <3>1, <3>3 DEF Accepted
  <2>8. QED
    BY <2>5, <2>6, <2>7
<1>7. QED
  BY <1>5, <1>6

(* A device is told what it deserves, whichever its platform.              *)
THEOREM ValidationVerdictIsDeserved == Spec => []VerdictIsDeserved
<1>1. ValidationInv => VerdictIsDeserved
  <2> DEFINE ios == VerifyIosAssertion(assertion, 0)
             token == IntegrityVerdict(Google.answers, allowDevelopment)
             android == VerifyAndroidAssertion(assertion, Google, allowDevelopment)
             ofTheApp == assertion.bundle \in Range(BundleIdentifiers)
  <2> SUFFICES ASSUME ValidationInv, assertion # NoAssertion
               PROVE  /\ AssertionVerdict = Accepted => InOrder
                      /\ InOrder /\ google.authorized =>
                           AssertionVerdict \in {Accepted, "external"}
                      /\ AssertionVerdict = "external" =>
                           assertion.signedFor = "android" /\ GoogleFails
    BY DEF VerdictIsDeserved, GoogleFails
  <2>1. assertion \in SentAssertion /\ walletInstance \in Instance
    BY DEF ValidationInv, TypeOK, StagesInv
  <2>2. /\ assertion.signedFor \in {"ios", "android", "none"}
        /\ walletInstance.platform \in {"ios", "android", "unknown"}
    BY <2>1 DEF SentAssertion, Instance, Platform
  <2>3. ios = IF assertion.signedFor = "ios" /\ ofTheApp /\ assertion.signCount > 0
              THEN Accepted ELSE "integrity"
    BY DEF VerifyIosAssertion, Range
  <2>4. android = IF assertion.signedFor = "android" /\ google.authorized
                  THEN token ELSE "integrity"
    BY DEF VerifyAndroidAssertion, Google
  <2>5. /\ token = Accepted => ofTheApp /\ assertion.defects \subseteq Forgiven
        /\ ofTheApp /\ assertion.defects \subseteq Forgiven =>
             token \in {Accepted, "external"}
        /\ token = "external" => GoogleFails
    BY <2>1, TokenIsJudged
  <2>6. InOrder <=>
          /\ assertion.signedFor \in {"ios", "android"}
          /\ walletInstance.platform \in {assertion.signedFor, "unknown"}
          /\ ofTheApp
          /\ IF assertion.signedFor = "ios" THEN assertion.signCount > 0
             ELSE assertion.defects \subseteq Forgiven
    BY DEF InOrder, Forgiven, Platform
  <2>7. AssertionVerdict =
          CASE walletInstance.platform = "ios" -> ios
            [] walletInstance.platform = "android" -> android
            [] walletInstance.platform = "unknown" ->
                 IF ios = Accepted THEN Accepted ELSE android
    BY DEF AssertionVerdict, ValidateAssertion, TryAsBoth
  <2> HIDE DEF ios, android, token, ofTheApp
  <2>8. /\ walletInstance.platform = "ios" => AssertionVerdict = ios
        /\ walletInstance.platform = "android" => AssertionVerdict = android
        /\ walletInstance.platform = "unknown" =>
             AssertionVerdict = IF ios = Accepted THEN Accepted ELSE android
    BY <2>7
  <2>9. QED
    BY <2>2, <2>3, <2>4, <2>5, <2>6, <2>8 DEF Accepted
<1>2. QED
  BY <1>1, ValidationCorrect, PTL

----------------------------------------------------------------------------
(* The registration, step by step                                          *)

(* The same certificates, but for their dates ...                          *)
SameButDates(chain, other) ==
  /\ Len(other) = Len(chain)
  /\ \A i \in DOMAIN chain :
       /\ other[i].signer = chain[i].signer /\ other[i].serial = chain[i].serial
       /\ other[i].subject = chain[i].subject /\ other[i].record = chain[i].record

(* ... which go in one direction.                                          *)
Aged(chain, older) ==
  /\ SameButDates(chain, older)
  /\ \A i \in DOMAIN chain :
       \/ older[i].dates = chain[i].dates
       \/ chain[i].dates = "not yet valid" /\ older[i].dates = "valid"
       \/ chain[i].dates = "valid" /\ older[i].dates = "expired"

(* What a step may do to evidence: extend the chain by a leaf ...          *)
Extended ==
  /\ evidence' \in Evidence
  /\ evidence'.platform = evidence.platform /\ allowDevelopment' = allowDevelopment
  /\ \E certificate \in Certificate : evidence'.chain = <<certificate>> \o evidence.chain

(* ... or let time pass and the list of revoked certificates change ...    *)
TimePasses ==
  /\ evidence' \in Evidence
  /\ evidence'.platform = evidence.platform /\ evidence'.defects = evidence.defects
  /\ Aged(evidence.chain, evidence'.chain)
  /\ allowDevelopment' = allowDevelopment

(* ... or drop it once the device is registered.                           *)
Dropped == evidence' = NoEvidence /\ AttestationVerdict = Accepted

(* It does one of these.                                                   *)
LEMMA EvidenceSteps ==
  ASSUME ValidationInv, [Next]_vars, evidence # NoEvidence
  PROVE  /\ evidence \in Evidence /\ evidence.chain # <<>>
         /\ Extended \/ TimePasses \/ Dropped
<1>1. /\ evidence \in Evidence /\ evidence.chain # <<>>
      /\ evidence.chain \in Seq(Certificate) /\ walletInstance = NoInstance
  BY DEF ValidationInv, TypeOK, StagesInv, Evidence
<1>2. ASSUME UNCHANGED <<evidence, allowDevelopment>>
      PROVE  TimePasses
  BY <1>1, <1>2 DEF TimePasses, Aged, SameButDates
<1>3. ASSUME NEW certificate \in CertificateOf(evidence.platform),
             AppendCertificate(certificate)
      PROVE  Extended
  <2>1. /\ evidence' = [evidence EXCEPT !.chain = <<certificate>> \o @]
        /\ certificate \in Certificate /\ ValidationInv'
        /\ allowDevelopment' = allowDevelopment
    BY <1>3, AppendCertificateInv DEF AppendCertificate
  <2>2. /\ evidence'.chain = <<certificate>> \o evidence.chain
        /\ evidence'.platform = evidence.platform
    BY <1>1, <2>1 DEF Evidence
  <2>3. evidence' \in Evidence
    BY <1>1, <2>1, <2>2 DEF ValidationInv, TypeOK, NoEvidence, Evidence, Platform
  <2>4. QED
    BY <2>1, <2>2, <2>3 DEF Extended
<1>4. ASSUME NEW i \in DOMAIN evidence.chain, Age(i)
      PROVE  TimePasses
  <2> DEFINE older == [evidence.chain EXCEPT ![i].dates = Later(evidence.chain[i].dates)]
  <2>1. /\ evidence' = [evidence EXCEPT !.chain = older] /\ ValidationInv'
        /\ evidence.chain[i].dates # "expired"
    BY <1>4, AgeInv
  <2>2. evidence'.chain = older
    BY <1>1, <2>1 DEF Evidence
  <2>3. Aged(evidence.chain, older)
    <3>1. \A j \in DOMAIN evidence.chain : evidence.chain[j] \in Certificate
      BY <1>1
    <3>2. Len(older) = Len(evidence.chain)
      BY <1>1
    <3>3. SameButDates(evidence.chain, older)
      BY <3>1, <3>2 DEF SameButDates, Certificate
    <3>4. \A j \in DOMAIN evidence.chain :
            older[j].dates = IF j = i THEN Later(evidence.chain[j].dates)
                             ELSE evidence.chain[j].dates
      BY <3>1 DEF Certificate
    <3>5. \A j \in DOMAIN evidence.chain :
            evidence.chain[j].dates \in {"not yet valid", "valid", "expired"}
      BY <3>1 DEF Certificate
    <3> HIDE DEF older
    <3>6. QED
      BY <2>1, <3>3, <3>4, <3>5 DEF Aged, Later
  <2>4. evidence'.platform = evidence.platform /\ evidence'.defects = evidence.defects
    BY <1>1, <2>1 DEF Evidence
  <2>5. evidence' # NoEvidence
    BY <1>1, <2>4 DEF NoEvidence, Evidence, Platform
  <2>6. evidence' \in Evidence
    BY <2>1, <2>5 DEF ValidationInv, TypeOK
  <2>7. allowDevelopment' = allowDevelopment
    BY <1>4 DEF Age
  <2>8. QED
    BY <2>2, <2>3, <2>4, <2>6, <2>7 DEF TimePasses
<1>5. CASE Registration
  <2>1. ~ \E platform \in Platform, defects \in IosDefects :
            \E root \in CertificateOf(platform) : PresentRoot(platform, root, defects)
    BY DEF PresentRoot
  <2>2. ASSUME NEW answer \in CrlAnswers, ChangeCrl(answer) PROVE TimePasses
    <3>1. UNCHANGED <<evidence, allowDevelopment>>
      BY <2>2 DEF ChangeCrl
    <3>2. QED
      BY <3>1, <1>2
  <2>3. ASSUME NEW hasStatus \in BOOLEAN, Register(hasStatus)
        PROVE  Dropped
    BY <2>3 DEF Register, Dropped
  <2>4. QED
    BY <1>1, <1>3, <1>4, <1>5, <2>1, <2>2, <2>3, Zenon DEF Registration
<1>6. CASE WhitelistUser
  BY <1>1, <1>6 DEF WhitelistUser, Unregistered
<1>7. CASE Assertion \/ KeyAttestation
  <2>1. UNCHANGED <<evidence, allowDevelopment>>
    BY <1>7, AssertionInv, KeyAttestationInv
  <2>2. QED
    BY <1>1, <1>2, <2>1
<1>8. CASE UNCHANGED vars
  <2>1. UNCHANGED <<evidence, allowDevelopment>>
    BY <1>8 DEF vars
  <2>2. QED
    BY <1>1, <1>2, <2>1
<1>9. QED
  BY <1>5, <1>6, <1>7, <1>8 DEF Next

----------------------------------------------------------------------------
(* The key of an Android device                                            *)

(* The extension that is read is the one nearest to the root.              *)
LEMMA KeyIsNearestToRoot ==
  ASSUME NEW chain \in Seq(Certificate), WithExtension(chain) # {}
  PROVE  /\ KeyAttestationExtension(chain) \in WithExtension(chain)
         /\ \A j \in WithExtension(chain) : j <= KeyAttestationExtension(chain)
<1>1. WithExtension(chain) \in SUBSET (1..Len(chain)) /\ Len(chain) \in Nat
  BY DEF WithExtension
<1>2. \E i \in WithExtension(chain) : \A j \in WithExtension(chain) : j <= i
  BY <1>1, HasGreatest
<1>3. QED
  BY <1>2 DEF KeyAttestationExtension

(* The conditions that the chain of an Android device meets.               *)
AndroidAccepted(chain, revoked) ==
  /\ IssuanceHolds(chain, IsNonRkpChain(chain), TRUE)
  /\ ValidateRevocation(chain, revoked)
  /\ WithExtension(chain) # {}
  /\ ValidateExtension(chain[KeyAttestationExtension(chain)].record) = Accepted

(* It is accepted on these conditions and on no other.                     *)
LEMMA AndroidIsAccepted ==
  ASSUME NEW chain, NEW revoked
  PROVE  VerifyAndroidAttestation(chain, revoked) = Accepted
           <=> AndroidAccepted(chain, revoked)
<1> DEFINE issuance == ValidateIssuance(chain, IsNonRkpChain(chain), TRUE)
           extension == ValidateExtension(chain[KeyAttestationExtension(chain)].record)
<1>1. issuance = Accepted <=> IssuanceHolds(chain, IsNonRkpChain(chain), TRUE)
  BY ValidateIssuanceIsAccepted
<1>2. VerifyAndroidAttestation(chain, revoked) =
        IF issuance # Accepted THEN issuance
        ELSE IF ~ValidateRevocation(chain, revoked) THEN "certificate revoked"
        ELSE IF WithExtension(chain) = {} THEN "no key attestation extension"
        ELSE extension
  BY DEF VerifyAndroidAttestation
<1>3. AndroidAccepted(chain, revoked) <=>
        /\ IssuanceHolds(chain, IsNonRkpChain(chain), TRUE)
        /\ ValidateRevocation(chain, revoked)
        /\ WithExtension(chain) # {}
        /\ extension = Accepted
  BY DEF AndroidAccepted
<1> HIDE DEF issuance, extension
<1>4. "certificate revoked" # Accepted /\ "no key attestation extension" # Accepted
  BY DEF Accepted
<1>5. QED
  BY <1>1, <1>2, <1>3, <1>4

(* A leaf that is added below a chain with an extension leaves the key     *)
(* where it was, counted from the root.                                    *)
LEMMA AppendedKey ==
  ASSUME NEW chain \in Seq(Certificate), NEW certificate \in Certificate,
         NEW longer, longer = <<certificate>> \o chain,
         WithExtension(chain) # {}
  PROVE  Len(longer) - KeyAttestationExtension(longer)
           = Len(chain) - KeyAttestationExtension(chain)
<1> DEFINE key == KeyAttestationExtension(chain)
           keyBelow == KeyAttestationExtension(longer)
<1>1. /\ longer \in Seq(Certificate) /\ Len(longer) = Len(chain) + 1
      /\ \A i \in 1..Len(chain) : longer[i + 1] = chain[i]
  BY Appended
<1>2. /\ Len(chain) \in Nat /\ DOMAIN chain = 1..Len(chain)
      /\ DOMAIN longer = 1..Len(chain) + 1
  BY <1>1
<1>3. \A i \in 1..Len(chain) : i + 1 \in WithExtension(longer) <=> i \in WithExtension(chain)
  BY <1>1, <1>2 DEF WithExtension
<1>4. key \in WithExtension(chain) /\ \A j \in WithExtension(chain) : j <= key
  BY KeyIsNearestToRoot
<1>5. key \in 1..Len(chain)
  BY <1>2, <1>4 DEF WithExtension
<1>6. key + 1 \in WithExtension(longer)
  BY <1>3, <1>4, <1>5
<1>7. /\ keyBelow \in WithExtension(longer)
      /\ \A j \in WithExtension(longer) : j <= keyBelow
  BY <1>1, <1>6, KeyIsNearestToRoot
<1>8. keyBelow \in 1..Len(chain) + 1
  BY <1>2, <1>7 DEF WithExtension
<1> HIDE DEF key, keyBelow
<1>9. key + 1 <= keyBelow
  BY <1>6, <1>7
<1>10. keyBelow - 1 \in 1..Len(chain) /\ (keyBelow - 1) + 1 = keyBelow
  BY <1>2, <1>5, <1>8, <1>9
<1>11. keyBelow - 1 <= key
  BY <1>3, <1>4, <1>7, <1>10
<1>12. keyBelow = key + 1
  BY <1>5, <1>8, <1>9, <1>11
<1>13. Len(longer) - keyBelow = Len(chain) - key
  BY <1>1, <1>2, <1>5, <1>12
<1>14. QED
  BY <1>13 DEF key, keyBelow

(* No certificate that is added below an acceptable chain changes the key  *)
(* that is registered.                                                     *)
THEOREM ValidationAppendingKeepsTheKey == Spec => AppendingKeepsTheKey
<1>1. ASSUME ValidationInv, [Next]_vars, evidence.platform = "android",
             AttestationVerdict = Accepted,
             Len(evidence'.chain) > Len(evidence.chain)
      PROVE  RegisteredKey' = RegisteredKey
  <2>1. evidence # NoEvidence
    BY <1>1 DEF NoEvidence
  <2>2. /\ evidence \in Evidence /\ evidence.chain # <<>>
        /\ Extended \/ TimePasses \/ evidence' = NoEvidence
    BY <1>1, <2>1, EvidenceSteps DEF Dropped
  <2>3. evidence.chain \in Seq(Certificate)
    BY <2>2 DEF Evidence
  <2>4. ~TimePasses
    <3>1. TimePasses => Len(evidence'.chain) = Len(evidence.chain)
      BY DEF TimePasses, Aged, SameButDates
    <3>2. Len(evidence.chain) \in Nat
      BY <2>3
    <3>3. QED
      BY <1>1, <3>1, <3>2
  <2>5. evidence' # NoEvidence
    <3>1. SUFFICES ASSUME evidence' = NoEvidence PROVE FALSE
      OBVIOUS
    <3>2. Len(evidence'.chain) = 0
      BY <3>1 DEF NoEvidence
    <3>3. QED
      BY <1>1, <2>3, <3>2
  <2>6. PICK certificate \in Certificate :
          evidence'.chain = <<certificate>> \o evidence.chain
    BY <2>2, <2>4, <2>5 DEF Extended
  <2>7. VerifyAndroidAttestation(evidence.chain, crl.serials) = Accepted
    BY <1>1 DEF AttestationVerdict, ValidateAttestation, Accepted
  <2>8. WithExtension(evidence.chain) # {}
    BY <2>7, AndroidIsAccepted DEF AndroidAccepted
  <2>9. Len(evidence'.chain) - KeyAttestationExtension(evidence'.chain)
          = Len(evidence.chain) - KeyAttestationExtension(evidence.chain)
    BY <2>3, <2>6, <2>8, AppendedKey
  <2>10. QED
    BY <2>9 DEF RegisteredKey
<1>2. ValidationInv /\ [Next]_vars =>
        [ /\ evidence.platform = "android" /\ AttestationVerdict = Accepted
          /\ Len(evidence'.chain) > Len(evidence.chain)
          /\ AttestationVerdict' = Accepted
          => RegisteredKey' = RegisteredKey ]_vars
  BY <1>1
<1>3. QED
  BY <1>2, ValidationCorrect, PTL DEF Spec, AppendingKeepsTheKey

----------------------------------------------------------------------------
(* Time and revocations                                                    *)

(* The same certificates with other dates: the signatures stay, and so     *)
(* does the certificate whose extension is read.                           *)
LEMMA DatesAreAllThatDiffers ==
  ASSUME NEW chain \in Seq(Certificate), chain # <<>>,
         NEW other \in Seq(Certificate), SameButDates(chain, other)
  PROVE  /\ DOMAIN other = DOMAIN chain
         /\ GetRootPublicKey(other) <=> GetRootPublicKey(chain)
         /\ ChainValid(other) <=> ChainValid(chain)
         /\ IsNonRkpChain(other) = IsNonRkpChain(chain)
         /\ \A i \in DOMAIN chain : IsLeafOrRoot(other, i) = IsLeafOrRoot(chain, i)
         /\ WithExtension(other) = WithExtension(chain)
         /\ KeyAttestationExtension(other) = KeyAttestationExtension(chain)
         /\ WithExtension(chain) # {} =>
              other[KeyAttestationExtension(other)].record
                = chain[KeyAttestationExtension(chain)].record
<1>1. /\ Len(other) = Len(chain) /\ Len(chain) \in Nat
      /\ DOMAIN chain = 1..Len(chain) /\ DOMAIN other = DOMAIN chain
      /\ Len(chain) \in DOMAIN chain
  BY DEF SameButDates
<1>2. \A i \in DOMAIN chain :
        /\ other[i].signer = chain[i].signer /\ other[i].subject = chain[i].subject
        /\ other[i].record = chain[i].record
  BY DEF SameButDates
<1>3. GetRootPublicKey(other) <=> GetRootPublicKey(chain)
  BY <1>1, <1>2 DEF GetRootPublicKey
<1>4. ChainValid(other) <=> ChainValid(chain)
  <2>1. \A i \in 1..Len(chain) - 1 : i \in DOMAIN chain
    BY <1>1
  <2>2. QED
    BY <1>1, <1>2, <2>1 DEF ChainValid
<1>5. IsNonRkpChain(other) = IsNonRkpChain(chain)
  BY <1>1, <1>2 DEF IsNonRkpChain
<1>6. WithExtension(other) = WithExtension(chain)
  BY <1>1, <1>2 DEF WithExtension
<1>7. KeyAttestationExtension(other) = KeyAttestationExtension(chain)
  BY <1>6 DEF KeyAttestationExtension
<1>8. WithExtension(chain) # {} =>
        other[KeyAttestationExtension(other)].record
          = chain[KeyAttestationExtension(chain)].record
  <2>1. SUFFICES ASSUME WithExtension(chain) # {}
                 PROVE  KeyAttestationExtension(chain) \in DOMAIN chain
    BY <1>2, <1>7
  <2>2. QED
    BY <2>1, KeyIsNearestToRoot DEF WithExtension
<1>9. \A i \in DOMAIN chain : IsLeafOrRoot(other, i) = IsLeafOrRoot(chain, i)
  BY <1>1 DEF IsLeafOrRoot
<1>10. QED
  BY <1>1, <1>3, <1>4, <1>5, <1>6, <1>7, <1>8, <1>9

(* The issuance that holds goes on to hold if no certificate whose dates   *)
(* are looked at loses its validity.                                       *)
LEMMA IssuanceCarriesOver ==
  ASSUME NEW chain \in Seq(Certificate), chain # <<>>,
         NEW other \in Seq(Certificate), SameButDates(chain, other),
         NEW skipIntermediate, NEW skipLeafAndRoot,
         IssuanceHolds(chain, skipIntermediate, skipLeafAndRoot),
         \A i \in DOMAIN chain :
           \/ IF IsLeafOrRoot(chain, i) THEN skipLeafAndRoot ELSE skipIntermediate
           \/ chain[i].dates = "valid" => other[i].dates = "valid"
  PROVE  IssuanceHolds(other, skipIntermediate, skipLeafAndRoot)
<1>1. /\ DOMAIN other = DOMAIN chain
      /\ GetRootPublicKey(other) <=> GetRootPublicKey(chain)
      /\ ChainValid(other) <=> ChainValid(chain)
      /\ \A i \in DOMAIN chain : IsLeafOrRoot(other, i) = IsLeafOrRoot(chain, i)
  BY DatesAreAllThatDiffers
<1>2. DatesValid(chain, skipIntermediate, skipLeafAndRoot)
  BY DEF IssuanceHolds
<1>3. DatesValid(other, skipIntermediate, skipLeafAndRoot)
  BY <1>1, <1>2 DEF DatesValid
<1>4. QED
  BY <1>1, <1>3 DEF IssuanceHolds

(* So does the acceptance of the chain of an Android device, if moreover   *)
(* no serial number that it has is added to the list.                      *)
LEMMA AndroidCarriesOver ==
  ASSUME NEW chain \in Seq(Certificate), chain # <<>>,
         NEW other \in Seq(Certificate), SameButDates(chain, other),
         NEW revoked, NEW later, AndroidAccepted(chain, revoked),
         \A i \in DOMAIN chain :
           \/ IsNonRkpChain(chain) \/ IsLeafOrRoot(chain, i)
           \/ chain[i].dates = "valid" => other[i].dates = "valid",
         \A i \in DOMAIN chain, s \in later \ revoked :
           <<chain[i].serial, s>> \notin Containing
  PROVE  AndroidAccepted(other, later)
<1>1. /\ IssuanceHolds(chain, IsNonRkpChain(chain), TRUE)
      /\ ValidateRevocation(chain, revoked) /\ WithExtension(chain) # {}
      /\ ValidateExtension(chain[KeyAttestationExtension(chain)].record) = Accepted
  BY DEF AndroidAccepted
<1>2. /\ DOMAIN other = DOMAIN chain
      /\ IsNonRkpChain(other) = IsNonRkpChain(chain)
      /\ WithExtension(other) = WithExtension(chain)
      /\ other[KeyAttestationExtension(other)].record
           = chain[KeyAttestationExtension(chain)].record
  BY <1>1, DatesAreAllThatDiffers
<1>3. IssuanceHolds(other, IsNonRkpChain(chain), TRUE)
  <2>1. \A i \in DOMAIN chain :
          \/ IF IsLeafOrRoot(chain, i) THEN TRUE ELSE IsNonRkpChain(chain)
          \/ chain[i].dates = "valid" => other[i].dates = "valid"
    OBVIOUS
  <2>2. QED
    BY <1>1, <2>1, IssuanceCarriesOver
<1>4. ValidateRevocation(other, later)
  <2>1. \A i \in DOMAIN chain : other[i].serial = chain[i].serial
    BY DEF SameButDates
  <2>2. QED
    BY <1>1, <1>2, <2>1 DEF ValidateRevocation
<1>5. QED
  BY <1>1, <1>2, <1>3, <1>4 DEF AndroidAccepted

(* The other checks that the attestation of an iOS device is to pass.      *)
AppAttestHolds(defects, development) ==
  Validate(AppAttestChecks,
    defects \ (IF development THEN {"development environment"} ELSE {})) = Accepted

(* When an attestation is accepted, of either platform.                    *)
LEMMA AttestationIsAccepted ==
  ASSUME NEW shown, NEW revoked, NEW fetched, NEW development
  PROVE  ValidateAttestation(shown, revoked, fetched, development) = Accepted <=>
           \/ /\ shown.platform = "ios"
              /\ IssuanceHolds(shown.chain, development, development)
              /\ AppAttestHolds(shown.defects, development)
           \/ shown.platform = "android" /\ fetched /\ AndroidAccepted(shown.chain, revoked)
<1> DEFINE issuance == ValidateIssuance(shown.chain, development, development)
           rest == Validate(AppAttestChecks,
                     shown.defects \ (IF development THEN {"development environment"} ELSE {}))
           ios == VerifyIosAttestation(shown.chain, shown.defects, development)
           android == VerifyAndroidAttestation(shown.chain, revoked)
<1>1. issuance = Accepted <=> IssuanceHolds(shown.chain, development, development)
  BY ValidateIssuanceIsAccepted
<1>2. ios = IF issuance # Accepted THEN issuance ELSE rest
  BY DEF VerifyIosAttestation
<1>3. android = Accepted <=> AndroidAccepted(shown.chain, revoked)
  BY AndroidIsAccepted
<1>4. ValidateAttestation(shown, revoked, fetched, development) =
        IF \/ shown.platform = "ios" /\ ios = Accepted
           \/ shown.platform = "android" /\ fetched /\ android = Accepted
        THEN Accepted ELSE "integrity"
  BY DEF ValidateAttestation
<1> HIDE DEF issuance, rest, ios, android
<1>5. "integrity" # Accepted
  BY DEF Accepted
<1>6. AppAttestHolds(shown.defects, development) <=> rest = Accepted
  BY DEF AppAttestHolds, rest
<1>7. QED
  BY <1>1, <1>2, <1>3, <1>4, <1>5, <1>6

(* Whether dates count, for whatever evidence and user.                    *)
CountIn(shown, development, i) ==
  IF shown.platform = "ios" THEN ~development
  ELSE ~IsNonRkpChain(shown.chain) /\ ~IsLeafOrRoot(shown.chain, i)

(* An acceptance goes on unless there is a reason.                         *)
LEMMA AcceptanceCarriesOver ==
  ASSUME NEW shown \in Evidence, shown.chain # <<>>, NEW other \in Evidence,
         other.platform = shown.platform, other.defects = shown.defects,
         SameButDates(shown.chain, other.chain), NEW development,
         NEW revoked, NEW fetched, NEW later, NEW laterFetched,
         ValidateAttestation(shown, revoked, fetched, development) = Accepted,
         \A i \in DOMAIN shown.chain :
           CountIn(shown, development, i) /\ shown.chain[i].dates = "valid" =>
             other.chain[i].dates = "valid",
         shown.platform = "android" =>
           /\ laterFetched
           /\ \A i \in DOMAIN shown.chain, s \in later \ revoked :
                <<shown.chain[i].serial, s>> \notin Containing
  PROVE  ValidateAttestation(other, later, laterFetched, development) = Accepted
<1>1. shown.chain \in Seq(Certificate) /\ other.chain \in Seq(Certificate)
  BY DEF Evidence
<1>2. CASE shown.platform = "ios"
  <2>1. /\ IssuanceHolds(shown.chain, development, development)
        /\ AppAttestHolds(shown.defects, development)
    BY <1>2, AttestationIsAccepted
  <2>2. \A i \in DOMAIN shown.chain :
          \/ IF IsLeafOrRoot(shown.chain, i) THEN development ELSE development
          \/ shown.chain[i].dates = "valid" => other.chain[i].dates = "valid"
    BY <1>2 DEF CountIn
  <2>3. IssuanceHolds(other.chain, development, development)
    BY <1>1, <2>1, <2>2, IssuanceCarriesOver
  <2>4. QED
    BY <1>2, <2>1, <2>3, AttestationIsAccepted
<1>3. CASE shown.platform # "ios"
  <2>1. /\ shown.platform = "android" /\ AndroidAccepted(shown.chain, revoked)
        /\ laterFetched
    BY <1>3, AttestationIsAccepted
  <2>2. \A i \in DOMAIN shown.chain :
          \/ IsNonRkpChain(shown.chain) \/ IsLeafOrRoot(shown.chain, i)
          \/ shown.chain[i].dates = "valid" => other.chain[i].dates = "valid"
    BY <1>3 DEF CountIn
  <2>3. AndroidAccepted(other.chain, later)
    BY <1>1, <2>1, <2>2, AndroidCarriesOver
  <2>4. QED
    BY <2>1, <2>3, AttestationIsAccepted
<1>4. QED
  BY <1>2, <1>3

(* An expired certificate whose dates count is not accepted.               *)
LEMMA ExpiredIsRefused ==
  ASSUME NEW shown, NEW i \in DOMAIN shown.chain, NEW development,
         CountIn(shown, development, i), shown.chain[i].dates = "expired",
         NEW revoked, NEW fetched
  PROVE  ValidateAttestation(shown, revoked, fetched, development) # Accepted
<1>1. CASE shown.platform = "ios"
  <2>1. ~DatesValid(shown.chain, development, development)
    BY <1>1 DEF CountIn, DatesValid
  <2>2. QED
    BY <1>1, <2>1, AttestationIsAccepted DEF IssuanceHolds
<1>2. CASE shown.platform # "ios"
  <2>1. ~DatesValid(shown.chain, IsNonRkpChain(shown.chain), TRUE)
    BY <1>2 DEF CountIn, DatesValid
  <2>2. QED
    BY <1>2, <2>1, AttestationIsAccepted DEF AndroidAccepted, IssuanceHolds
<1>3. QED
  BY <1>1, <1>2

(* It goes on to count, and stays expired, when time passes ...            *)
LEMMA ExpiredStaysWithTime ==
  ASSUME evidence \in Evidence, evidence.chain # <<>>, TimePasses,
         NEW i \in DOMAIN evidence.chain,
         CountIn(evidence, allowDevelopment, i), evidence.chain[i].dates = "expired"
  PROVE  /\ i \in DOMAIN evidence'.chain
         /\ CountIn(evidence', allowDevelopment', i)
         /\ evidence'.chain[i].dates = "expired"
<1>1. /\ evidence.chain \in Seq(Certificate) /\ evidence'.chain \in Seq(Certificate)
      /\ evidence'.platform = evidence.platform /\ allowDevelopment' = allowDevelopment
      /\ SameButDates(evidence.chain, evidence'.chain)
  BY DEF TimePasses, Evidence, Aged
<1>2. /\ DOMAIN evidence'.chain = DOMAIN evidence.chain
      /\ IsNonRkpChain(evidence'.chain) = IsNonRkpChain(evidence.chain)
      /\ IsLeafOrRoot(evidence'.chain, i) = IsLeafOrRoot(evidence.chain, i)
  BY <1>1, DatesAreAllThatDiffers
<1>3. evidence'.chain[i].dates = "expired"
  BY DEF TimePasses, Aged
<1>4. QED
  BY <1>1, <1>2, <1>3 DEF CountIn

(* ... and, one place further up, when a leaf is added.                    *)
LEMMA ExpiredStaysWithLeaf ==
  ASSUME evidence \in Evidence, evidence.chain # <<>>, Extended,
         NEW i \in DOMAIN evidence.chain,
         CountIn(evidence, allowDevelopment, i), evidence.chain[i].dates = "expired"
  PROVE  /\ i + 1 \in DOMAIN evidence'.chain
         /\ CountIn(evidence', allowDevelopment', i + 1)
         /\ evidence'.chain[i + 1].dates = "expired"
<1> DEFINE chain == evidence.chain
           longer == evidence'.chain
<1>1. /\ chain \in Seq(Certificate) /\ chain # <<>>
      /\ evidence'.platform = evidence.platform /\ allowDevelopment' = allowDevelopment
  BY DEF Extended, Evidence
<1>2. PICK certificate \in Certificate : longer = <<certificate>> \o chain
  BY DEF Extended
<1>3. /\ longer \in Seq(Certificate) /\ Len(longer) = Len(chain) + 1
      /\ \A j \in 1..Len(chain) : longer[j + 1] = chain[j]
  BY <1>1, <1>2, Appended
<1>4. i \in 1..Len(chain) /\ Len(chain) \in Nat /\ Len(chain) \in 1..Len(chain)
  BY <1>1
<1>5. i + 1 \in DOMAIN longer /\ longer[i + 1] = chain[i]
  BY <1>3, <1>4
<1>6. longer[Len(longer)] = chain[Len(chain)]
  BY <1>3, <1>4
<1>7. IsNonRkpChain(longer) = IsNonRkpChain(chain)
  BY <1>6 DEF IsNonRkpChain
<1>8. ~IsLeafOrRoot(chain, i) => ~IsLeafOrRoot(longer, i + 1)
  <2> HIDE DEF chain, longer
  <2>1. QED
    BY <1>3, <1>4 DEF IsLeafOrRoot
<1>9. QED
  BY <1>1, <1>5, <1>7, <1>8 DEF CountIn

(* The answer to a registration changes for a reason, for chains of any    *)
(* length, and an expired certificate whose dates count settles it.        *)
THEOREM ValidationVerdictChangesForAReason == Spec => VerdictChangesForAReason
<1> DEFINE android == evidence.platform = "android"
<1>1. \A i : /\ DatesCount(i) = CountIn(evidence, allowDevelopment, i)
             /\ DatesCount(i)' = CountIn(evidence', allowDevelopment', i)
  BY DEF DatesCount, CountIn
<1>2. /\ AttestationVerdict
           = ValidateAttestation(evidence, crl.serials, crl.fetched, allowDevelopment)
      /\ AttestationVerdict'
           = ValidateAttestation(evidence', crl'.serials, crl'.fetched, allowDevelopment')
  BY DEF AttestationVerdict
<1>3. ASSUME ValidationInv, [Next]_vars, evidence # NoEvidence, ExpiredForGood
      PROVE  evidence' # NoEvidence /\ AttestationVerdict' # Accepted
  <2>1. PICK i \in DOMAIN evidence.chain :
          CountIn(evidence, allowDevelopment, i) /\ evidence.chain[i].dates = "expired"
    BY <1>1, <1>3 DEF ExpiredForGood
  <2>2. /\ evidence \in Evidence /\ evidence.chain # <<>>
        /\ Extended \/ TimePasses \/ Dropped
    BY <1>3, EvidenceSteps
  <2>3. AttestationVerdict # Accepted
    BY <1>2, <2>1, ExpiredIsRefused
  <2>4. Extended \/ TimePasses
    BY <2>2, <2>3 DEF Dropped
  <2>5. \E j \in DOMAIN evidence'.chain :
          CountIn(evidence', allowDevelopment', j) /\ evidence'.chain[j].dates = "expired"
    BY <2>1, <2>2, <2>4, ExpiredStaysWithTime, ExpiredStaysWithLeaf
  <2>6. AttestationVerdict' # Accepted
    BY <1>2, <2>5, ExpiredIsRefused
  <2>7. evidence' # NoEvidence
    BY <2>4 DEF Extended, TimePasses, NoEvidence, Evidence, Platform
  <2>8. QED
    BY <2>6, <2>7
<1>4. ASSUME ValidationInv, [Next]_vars, evidence # NoEvidence,
             Len(evidence'.chain) = Len(evidence.chain)
      PROVE  /\ AttestationVerdict # Accepted /\ AttestationVerdict' = Accepted =>
                  \/ Turned("not yet valid", "valid")
                  \/ android /\ ~crl.fetched
                  \/ android /\ Concern(crl.serials \ crl'.serials)
             /\ AttestationVerdict = Accepted /\ AttestationVerdict' # Accepted =>
                  \/ Turned("valid", "expired")
                  \/ android /\ ~crl'.fetched
                  \/ android /\ Concern(crl'.serials \ crl.serials)
  <2> DEFINE chain == evidence.chain
             older == evidence'.chain
  <2>1. /\ evidence \in Evidence /\ chain # <<>>
        /\ Extended \/ TimePasses \/ Dropped
    BY <1>4, EvidenceSteps
  <2>2. chain \in Seq(Certificate) /\ Len(chain) \in Nat /\ Len(chain) > 0
    BY <2>1 DEF Evidence
  <2>3. ~Extended
    <3>1. SUFFICES ASSUME NEW certificate \in Certificate,
                          older = <<certificate>> \o chain
                   PROVE  FALSE
      BY DEF Extended
    <3>2. Len(older) = Len(chain) + 1
      BY <2>2, <3>1, Appended
    <3>3. Len(older) = Len(chain)
      BY <1>4
    <3> HIDE DEF older, chain
    <3>4. QED
      BY <2>2, <3>2, <3>3
  <2>4. ~Dropped
    <3>1. SUFFICES ASSUME evidence' = NoEvidence PROVE FALSE
      BY DEF Dropped
    <3>2. Len(older) = 0
      BY <3>1 DEF NoEvidence
    <3>3. QED
      BY <1>4, <2>2, <3>2
  <2>5. /\ evidence' \in Evidence /\ older \in Seq(Certificate)
        /\ Aged(chain, older) /\ SameButDates(chain, older)
        /\ evidence'.platform = evidence.platform
        /\ evidence'.defects = evidence.defects
        /\ allowDevelopment' = allowDevelopment
    BY <2>1, <2>3, <2>4 DEF TimePasses, Aged, Evidence
  <2>6. /\ DOMAIN older = DOMAIN chain
        /\ IsNonRkpChain(older) = IsNonRkpChain(chain)
        /\ \A i \in DOMAIN chain : IsLeafOrRoot(older, i) = IsLeafOrRoot(chain, i)
    BY <2>1, <2>2, <2>5, DatesAreAllThatDiffers
  <2>7. ASSUME AttestationVerdict = Accepted, ~Turned("valid", "expired"),
               android => crl'.fetched /\ ~Concern(crl'.serials \ crl.serials)
        PROVE  AttestationVerdict' = Accepted
    <3>1. ValidateAttestation(evidence, crl.serials, crl.fetched, allowDevelopment) = Accepted
      BY <1>2, <2>7
    <3>2. \A i \in DOMAIN chain :
            CountIn(evidence, allowDevelopment, i) /\ chain[i].dates = "valid" =>
              older[i].dates = "valid"
      BY <1>1, <2>5, <2>7 DEF Turned, Aged
    <3>3. evidence.platform = "android" =>
            /\ crl'.fetched
            /\ \A i \in DOMAIN chain, s \in crl'.serials \ crl.serials :
                 <<chain[i].serial, s>> \notin Containing
      BY <2>7 DEF Concern
    <3>4. ValidateAttestation(evidence', crl'.serials, crl'.fetched, allowDevelopment)
            = Accepted
      BY <2>1, <2>5, <3>1, <3>2, <3>3, AcceptanceCarriesOver
    <3>5. QED
      BY <1>2, <2>5, <3>4
  <2>8. ASSUME AttestationVerdict' = Accepted, ~Turned("not yet valid", "valid"),
               android => crl.fetched /\ ~Concern(crl.serials \ crl'.serials)
        PROVE  AttestationVerdict = Accepted
    <3>1. ValidateAttestation(evidence', crl'.serials, crl'.fetched, allowDevelopment)
            = Accepted
      BY <1>2, <2>5, <2>8
    <3>2. SameButDates(older, chain) /\ older # <<>>
      BY <2>2, <2>5, <2>6 DEF SameButDates
    <3>3. \A i \in DOMAIN older :
            CountIn(evidence', allowDevelopment, i) <=> CountIn(evidence, allowDevelopment, i)
      BY <2>5, <2>6 DEF CountIn
    <3>4. \A i \in DOMAIN older :
            CountIn(evidence', allowDevelopment, i) /\ older[i].dates = "valid" =>
              chain[i].dates = "valid"
      BY <1>1, <2>5, <2>6, <2>8, <3>3 DEF Turned, Aged
    <3>5. evidence'.platform = "android" =>
            /\ crl.fetched
            /\ \A i \in DOMAIN older, s \in crl.serials \ crl'.serials :
                 <<older[i].serial, s>> \notin Containing
      BY <2>5, <2>6, <2>8 DEF Concern, SameButDates
    <3>6. ValidateAttestation(evidence, crl.serials, crl.fetched, allowDevelopment) = Accepted
      BY <2>1, <2>5, <3>1, <3>2, <3>4, <3>5, AcceptanceCarriesOver
    <3>7. QED
      BY <1>2, <3>6
  <2>9. QED
    BY <2>7, <2>8
<1>5. ValidationInv /\ [Next]_vars =>
        [ evidence # NoEvidence =>
          LET refused == AttestationVerdict # Accepted
          IN /\ ExpiredForGood => evidence' # NoEvidence /\ AttestationVerdict' # Accepted
             /\ Len(evidence'.chain) = Len(evidence.chain) =>
                  /\ refused /\ AttestationVerdict' = Accepted =>
                       \/ Turned("not yet valid", "valid")
                       \/ android /\ ~crl.fetched
                       \/ android /\ Concern(crl.serials \ crl'.serials)
                  /\ ~refused /\ AttestationVerdict' # Accepted =>
                       \/ Turned("valid", "expired")
                       \/ android /\ ~crl'.fetched
                       \/ android /\ Concern(crl'.serials \ crl.serials) ]_vars
  BY <1>3, <1>4, Zenon
<1>6. QED
  BY <1>5, ValidationCorrect, PTL DEF Spec, VerdictChangesForAReason

----------------------------------------------------------------------------
(***************************************************************************)
(* No fiscal code of an uploaded file is lost between the file and the     *)
(* whitelist, for files of any length, batches and chunks of any size and  *)
(* any number of attempts, messages and faults.  What a batch becomes is   *)
(* followed chunk by chunk: the codes of a message that is handled are in  *)
(* the whitelist, in the bulk call under way or in a chunk that comes      *)
(* after it.                                                               *)
(***************************************************************************)
----------------------------------------------------------------------------
(* Division: a batch of n codes in chunks of c.                            *)
ChunkCount(n, c) == (n + c - 1) \div c

(* The chunks hold the batch, and one of them less would not.              *)
LEMMA ChunkCountHolds ==
  ASSUME NEW n \in Nat, NEW c \in Nat \ {0}
  PROVE  /\ ChunkCount(n, c) \in Nat
         /\ n <= ChunkCount(n, c) * c
         /\ ChunkCount(n, c) * c < n + c
<1> DEFINE m == n + c - 1
<1>1. m \in Nat /\ c \in Nat /\ c # 0
  OBVIOUS
<1>2. m \div c \in Nat /\ (m \div c) * c <= m /\ m < (m \div c) * c + c
  <2> HIDE DEF m
  <2> QED
    BY <1>1
<1>3. (m \div c) * c \in Nat
  <2> HIDE DEF m
  <2> QED
    BY <1>1, <1>2
<1> DEFINE held == (m \div c) * c
<1>4. n <= held /\ held < n + c
  <2>1. held \in Nat /\ held <= n + c - 1 /\ n + c - 1 < held + c
    BY <1>2, <1>3
  <2> HIDE DEF held
  <2> QED
    BY <2>1
<1>5. QED
  BY <1>2, <1>4 DEF ChunkCount

(* A multiple that is less than the next one is at most this one.          *)
LEMMA Multiples ==
  ASSUME NEW a \in Nat, NEW b \in Nat, NEW c \in Nat \ {0}, a * c < b * c + c
  PROVE  a <= b
OBVIOUS

(* The place j of a batch belongs to the chunk ChunkCount(j, c), which is  *)
(* one of those of the batch.                                              *)
LEMMA PlaceHasChunk ==
  ASSUME NEW n \in Nat, NEW c \in Nat \ {0}, NEW j \in 1..n
  PROVE  /\ ChunkCount(j, c) \in 1..ChunkCount(n, c)
         /\ (ChunkCount(j, c) - 1) * c + 1 <= j
         /\ j <= ChunkCount(j, c) * c
<1> DEFINE i == ChunkCount(j, c)
           k == ChunkCount(n, c)
<1>1. i \in Nat /\ j <= i * c /\ i * c < j + c
  BY ChunkCountHolds
<1>2. k \in Nat /\ n <= k * c /\ k * c < n + c
  BY ChunkCountHolds
<1> HIDE DEF i, k
<1>3. i * c \in Nat /\ k * c \in Nat
  BY <1>1, <1>2
<1>4. i <= k
  <2>1. i * c < k * c + c
    BY <1>1, <1>2, <1>3
  <2>2. QED
    BY <1>1, <1>2, <2>1, Multiples
<1>5. i # 0
  BY <1>1
<1>6. (i - 1) * c = i * c - c
  BY <1>1
<1>7. (i - 1) * c + 1 <= j
  BY <1>1, <1>3, <1>6
<1>8. QED
  BY <1>1, <1>2, <1>4, <1>5, <1>7 DEF i, k

(* The chunks of a batch are sets of its codes, there is one at least, and *)
(* every code is in one of them.                                           *)
LEMMA ChunksCover ==
  ASSUME NEW codes \in Seq(FiscalCodes), codes # <<>>
  PROVE  /\ ChunksOf(codes) \in Seq(SUBSET FiscalCodes)
         /\ ChunksOf(codes) # <<>>
         /\ Range(codes) \subseteq UNION Range(ChunksOf(codes))
<1> DEFINE n == Len(codes)
           c == BulkChunkSize
           first(i) == (i - 1) * c + 1
           last(i) == IF i * c < n THEN i * c ELSE n
<1>1. n \in Nat /\ n # 0 /\ c \in Nat \ {0} /\ DOMAIN codes = 1..n
  BY SizesAssumption
<1>2. ChunksOf(codes)
        = [i \in 1..ChunkCount(n, c) |-> Range(SubSeq(codes, first(i), last(i)))]
  BY DEF ChunksOf, ChunkCount
<1>3. ChunkCount(n, c) \in Nat
  BY <1>1, ChunkCountHolds
<1>4. \A i \in 1..ChunkCount(n, c) :
        /\ first(i) \in Nat \ {0} /\ last(i) \in 0..n
        /\ SubSeq(codes, first(i), last(i))
             = [x \in 1..(last(i) - first(i) + 1) |-> codes[first(i) + x - 1]]
  <2> TAKE i \in 1..ChunkCount(n, c)
  <2>1. i \in Nat \ {0}
    BY <1>3
  <2>2. (i - 1) * c \in Nat /\ i * c \in Nat
    BY <1>1, <2>1
  <2>3. first(i) \in Nat \ {0} /\ last(i) \in 0..n
    BY <1>1, <2>2
  <2> HIDE DEF first, last
  <2>4. QED
    BY <1>1, <2>3
<1> HIDE DEF first, last, n, c
<1>5. \A i \in 1..ChunkCount(n, c) :
        Range(SubSeq(codes, first(i), last(i))) \in SUBSET FiscalCodes
  <2> TAKE i \in 1..ChunkCount(n, c)
  <2>1. \A x \in 1..(last(i) - first(i) + 1) : first(i) + x - 1 \in 1..n
    BY <1>1, <1>4
  <2>2. \A x \in 1..n : codes[x] \in FiscalCodes
    BY <1>1
  <2>3. QED
    BY <1>4, <2>1, <2>2 DEF Range
<1>6. ChunksOf(codes) \in Seq(SUBSET FiscalCodes)
  BY <1>2, <1>3, <1>5
<1>7. ASSUME NEW j \in 1..n PROVE codes[j] \in UNION Range(ChunksOf(codes))
  <2> DEFINE i == ChunkCount(j, c)
  <2>1. i \in 1..ChunkCount(n, c) /\ (i - 1) * c + 1 <= j /\ j <= i * c
    BY <1>1, PlaceHasChunk
  <2> HIDE DEF i
  <2>2. first(i) <= j /\ j <= last(i)
    BY <1>1, <2>1 DEF first, last
  <2>3. j - first(i) + 1 \in 1..(last(i) - first(i) + 1)
    BY <1>1, <1>4, <2>1, <2>2
  <2>4. first(i) + (j - first(i) + 1) - 1 = j
    BY <1>1, <1>4, <2>1
  <2>5. codes[j] \in Range(SubSeq(codes, first(i), last(i)))
    <3> DEFINE chunk == SubSeq(codes, first(i), last(i))
               x == j - first(i) + 1
    <3>1. x \in DOMAIN chunk /\ chunk[x] = codes[first(i) + x - 1]
      BY <1>4, <2>1, <2>3
    <3>2. chunk[x] = codes[j]
      BY <2>4, <3>1
    <3> HIDE DEF chunk, x
    <3>3. codes[j] \in Range(chunk)
      BY <3>1, <3>2 DEF Range
    <3>4. QED
      BY <3>3 DEF chunk
  <2>6. Range(SubSeq(codes, first(i), last(i))) \in Range(ChunksOf(codes))
    BY <1>2, <2>1 DEF Range
  <2>7. QED
    BY <2>5, <2>6
<1>8. 1 \in 1..n
  BY <1>1
<1>9. QED
  BY <1>1, <1>6, <1>7, <1>8 DEF Range

----------------------------------------------------------------------------
(* What a message may be: it has codes, waits with a delivery left, and is *)
(* there as long as it is handled, with a bulk call left.                  *)
MessageIsSound(q) ==
  /\ queue[q] # NoMessage => queue[q].fiscalCodes # <<>>
  /\ Handled(q) => queue[q] # NoMessage
  /\ ~Handled(q) => queue[q].count < MaxDequeueCount
  /\ attempt[q] < MaxBulkRetryAttempts

(* What the handler of a message has inserted, or has still to insert, is  *)
(* the whole message.                                                      *)
Remaining(q) == pending[q] \cup UNION Range(Tail(chunks[q]))

BatchIsCovered(q) ==
  Handled(q) => Range(queue[q].fiscalCodes) \subseteq container \cup Remaining(q)

(* What holds of every message of the queue.                               *)
MessagesInv == \A q \in Messages : MessageIsSound(q) /\ BatchIsCovered(q)

(* The inductive invariant of the import.                                  *)
WhitelistInv == WhitelistTypeOK /\ MessagesInv /\ EveryCodeIsAccounted

(* Nothing is there at first.                                              *)
LEMMA InitWhitelist == WhitelistInit => WhitelistInv
<1> SUFFICES ASSUME WhitelistInit PROVE WhitelistInv
  OBVIOUS
<1>1. NoMessage \in [fiscalCodes : Seq(FiscalCodes), count : 0..MaxDequeueCount]
  BY SizesAssumption DEF NoMessage
<1>2. file \in Seq(FiscalCodes \cup {Invalid})
  BY SizesAssumption DEF WhitelistInit
<1>3. WhitelistTypeOK
  BY <1>1, <1>2, SizesAssumption DEF WhitelistInit, WhitelistTypeOK
<1>4. MessagesInv
  BY SizesAssumption
  DEF WhitelistInit, MessagesInv, MessageIsSound, BatchIsCovered, Handled, NoMessage
<1>5. EveryCodeIsAccounted
  BY DEF WhitelistInit, EveryCodeIsAccounted
<1>6. QED
  BY <1>3, <1>4, <1>5 DEF WhitelistInv

----------------------------------------------------------------------------
(* A message is handled, or none is: what becomes of the other messages,   *)
(* and of the codes, when one message moves.                               *)

(* The codes of a message that moves stay with it, or are in the whitelist *)
(* or among the poisoned ones; then none is lost.                          *)
LEMMA MessageStepAccounts ==
  ASSUME WhitelistTypeOK, EveryCodeIsAccounted, NEW q \in Messages,
         \A p \in Messages \ {q} : queue'[p] = queue[p],
         Range(queue[q].fiscalCodes)
           \subseteq Range(queue'[q].fiscalCodes) \cup container' \cup poison',
         container \subseteq container', poison \subseteq poison',
         UNCHANGED <<file, reader>>
  PROVE  EveryCodeIsAccounted'
<1> DEFINE codesOf(p) == Range(queue[p].fiscalCodes)
           codesOfNext(p) == Range(queue'[p].fiscalCodes)
<1>1. \A p \in Messages : codesOf(p) \subseteq codesOfNext(p) \cup container' \cup poison'
  OBVIOUS
<1>2. Enqueued = UNION {codesOf(p) : p \in Messages}
      /\ Enqueued' = UNION {codesOfNext(p) : p \in Messages}
  BY DEF Enqueued
<1>3. Enqueued \subseteq Enqueued' \cup container' \cup poison'
  <2> HIDE DEF codesOf, codesOfNext
  <2> QED
    BY <1>1, <1>2
<1>4. line' = line /\ file' = file /\ fiscalCodes' = fiscalCodes
  BY DEF reader
<1>5. QED
  BY <1>3, <1>4 DEF EveryCodeIsAccounted

(* What is left of the chunks of a message, put together again.            *)
LEMMA HeadAndTail ==
  ASSUME NEW S, NEW rest \in Seq(SUBSET S), rest # <<>>
  PROVE  /\ Head(rest) \in SUBSET S /\ Tail(rest) \in Seq(SUBSET S)
         /\ UNION Range(rest) = Head(rest) \cup UNION Range(Tail(rest))
<1>1. Head(rest) = rest[1] /\ Len(rest) \in Nat \ {0} /\ DOMAIN rest = 1..Len(rest)
  OBVIOUS
<1>2. /\ Tail(rest) \in Seq(SUBSET S)
      /\ DOMAIN Tail(rest) = 1..(Len(rest) - 1)
      /\ \A i \in 1..(Len(rest) - 1) : Tail(rest)[i] = rest[i + 1]
  BY <1>1
<1>3. \A i \in 1..Len(rest) : i = 1 \/ (i - 1 \in 1..(Len(rest) - 1) /\ (i - 1) + 1 = i)
  BY <1>1
<1>4. Range(rest) = {rest[1]} \cup Range(Tail(rest))
  <2>1. ASSUME NEW i \in 1..Len(rest) PROVE rest[i] \in {rest[1]} \cup Range(Tail(rest))
    <3>1. CASE i - 1 \in 1..(Len(rest) - 1) /\ (i - 1) + 1 = i
      <4> DEFINE j == i - 1
      <4>1. j \in DOMAIN Tail(rest) /\ Tail(rest)[j] = rest[i]
        BY <1>2, <3>1
      <4> HIDE DEF j
      <4>2. QED
        BY <4>1 DEF Range
    <3>2. QED
      BY <1>3, <3>1
  <2>2. \A i \in 1..(Len(rest) - 1) : i + 1 \in 1..Len(rest)
    BY <1>1
  <2>3. {rest[1]} \cup Range(Tail(rest)) \subseteq Range(rest)
    BY <1>1, <1>2, <2>2 DEF Range
  <2>4. QED
    BY <1>1, <2>1, <2>3 DEF Range
<1>5. rest[1] \in SUBSET S
  BY <1>1
<1>6. QED
  BY <1>1, <1>2, <1>4, <1>5

(* A handler goes on with the chunks that are left, or ends.               *)
LEMMA StartChunkEffect ==
  ASSUME WhitelistTypeOK, NEW q \in Messages, NEW rest \in Seq(SUBSET FiscalCodes),
         StartChunk(q, rest)
  PROVE  /\ chunks' \in [Messages -> Seq(SUBSET FiscalCodes)]
         /\ pending' \in [Messages -> SUBSET FiscalCodes]
         /\ attempt' \in [Messages -> 0..MaxBulkRetryAttempts]
         /\ chunks'[q] = rest /\ attempt'[q] = 0
         /\ rest # <<>> => Remaining(q)' = UNION Range(rest)
         /\ \A p \in Messages \ {q} :
              chunks'[p] = chunks[p] /\ pending'[p] = pending[p] /\ attempt'[p] = attempt[p]
<1> DEFINE first == IF rest = <<>> THEN {} ELSE Head(rest)
<1>1. first \in SUBSET FiscalCodes
  BY HeadAndTail, Zenon
<1>2. pending' = [pending EXCEPT ![q] = first]
  BY DEF StartChunk
<1> HIDE DEF first
<1>3. /\ chunks' \in [Messages -> Seq(SUBSET FiscalCodes)]
      /\ pending' \in [Messages -> SUBSET FiscalCodes]
      /\ attempt' \in [Messages -> 0..MaxBulkRetryAttempts]
      /\ chunks'[q] = rest /\ attempt'[q] = 0 /\ pending'[q] = first
      /\ \A p \in Messages \ {q} :
           chunks'[p] = chunks[p] /\ pending'[p] = pending[p] /\ attempt'[p] = attempt[p]
  <2>1. 0 \in 0..MaxBulkRetryAttempts
    BY SizesAssumption
  <2>2. /\ chunks \in [Messages -> Seq(SUBSET FiscalCodes)]
        /\ pending \in [Messages -> SUBSET FiscalCodes]
        /\ attempt \in [Messages -> 0..MaxBulkRetryAttempts]
    BY DEF WhitelistTypeOK
  <2>3. chunks' = [chunks EXCEPT ![q] = rest] /\ attempt' = [attempt EXCEPT ![q] = 0]
    BY DEF StartChunk
  <2>4. QED
    BY <1>1, <1>2, <2>1, <2>2, <2>3, Zenon
<1>4. ASSUME rest # <<>> PROVE Remaining(q)' = UNION Range(rest)
  <2>1. Remaining(q)' = first \cup UNION Range(Tail(rest))
    BY <1>3 DEF Remaining
  <2>2. first = Head(rest)
    BY <1>4 DEF first
  <2>3. QED
    BY <1>4, <2>1, <2>2, HeadAndTail, Zenon
<1>5. QED
  BY <1>3, <1>4

(* One message moves, and the others stay what they were.                  *)
LEMMA MessageStep ==
  ASSUME WhitelistInv, NEW q \in Messages,
         \A p \in Messages \ {q} :
           /\ queue'[p] = queue[p] /\ chunks'[p] = chunks[p]
           /\ pending'[p] = pending[p] /\ attempt'[p] = attempt[p],
         Range(queue[q].fiscalCodes)
           \subseteq Range(queue'[q].fiscalCodes) \cup container' \cup poison',
         container \subseteq container', poison \subseteq poison',
         UNCHANGED <<file, reader>>,
         WhitelistTypeOK', MessageIsSound(q)', BatchIsCovered(q)'
  PROVE  WhitelistInv'
<1>1. ASSUME NEW p \in Messages, p # q PROVE MessageIsSound(p)' /\ BatchIsCovered(p)'
  <2>1. p \in Messages \ {q} /\ MessageIsSound(p) /\ BatchIsCovered(p)
    BY <1>1 DEF WhitelistInv, MessagesInv
  <2>2. /\ queue'[p] = queue[p] /\ chunks'[p] = chunks[p]
        /\ pending'[p] = pending[p] /\ attempt'[p] = attempt[p]
    BY <2>1
  <2>3. MessageIsSound(p)'
    BY <2>1, <2>2, Zenon DEF MessageIsSound, Handled, NoMessage
  <2>4. Remaining(p)' = Remaining(p) /\ (Handled(p)' <=> Handled(p))
    BY <2>2, Zenon DEF Remaining, Handled
  <2>5. BatchIsCovered(p)'
    BY <2>1, <2>2, <2>4 DEF BatchIsCovered
  <2>6. QED
    BY <2>3, <2>5
<1>2. MessagesInv'
  BY <1>1 DEF MessagesInv
<1>3. EveryCodeIsAccounted'
  BY MessageStepAccounts DEF WhitelistInv
<1>4. QED
  BY <1>2, <1>3 DEF WhitelistInv

(* A message is delivered: its chunks hold all its codes.                  *)
LEMMA ReceiveKeeps ==
  ASSUME WhitelistInv, NEW q \in Messages, Receive(q)
  PROVE  WhitelistInv'
<1> DEFINE codes == queue[q].fiscalCodes
           rest == ChunksOf(codes)
<1>1. WhitelistTypeOK /\ MessageIsSound(q) /\ queue[q] # NoMessage /\ ~Handled(q)
  BY DEF WhitelistInv, MessagesInv, Receive
<1>2. codes \in Seq(FiscalCodes) /\ codes # <<>> /\ queue[q].count \in 0..MaxDequeueCount
      /\ queue[q].count < MaxDequeueCount
  BY <1>1 DEF WhitelistTypeOK, MessageIsSound
<1>3. rest \in Seq(SUBSET FiscalCodes) /\ rest # <<>> /\ Range(codes) \subseteq UNION Range(rest)
  <2> HIDE DEF codes
  <2> QED
    BY <1>2, ChunksCover
<1>4. queue' = [queue EXCEPT ![q].count = @ + 1] /\ StartChunk(q, rest)
      /\ UNCHANGED <<file, reader, container, poison, faults>>
  BY DEF Receive
<1>5. /\ queue' \in [Messages -> [fiscalCodes : Seq(FiscalCodes), count : 0..MaxDequeueCount]]
      /\ queue'[q].fiscalCodes = codes /\ queue'[q].count = queue[q].count + 1
      /\ \A p \in Messages \ {q} : queue'[p] = queue[p]
  <2> DEFINE held == [queue[q] EXCEPT !.count = @ + 1]
  <2>1. queue \in [Messages -> [fiscalCodes : Seq(FiscalCodes), count : 0..MaxDequeueCount]]
    BY <1>1 DEF WhitelistTypeOK
  <2>2. queue' = [queue EXCEPT ![q] = held]
    BY <1>4, Zenon
  <2>3. /\ held \in [fiscalCodes : Seq(FiscalCodes), count : 0..MaxDequeueCount]
        /\ held.fiscalCodes = codes /\ held.count = queue[q].count + 1
    BY <1>2, <2>1, SizesAssumption
  <2> HIDE DEF held, codes
  <2>4. QED
    BY <2>1, <2>2, <2>3
<1> HIDE DEF rest, codes
<1>6. /\ chunks' \in [Messages -> Seq(SUBSET FiscalCodes)]
      /\ pending' \in [Messages -> SUBSET FiscalCodes]
      /\ attempt' \in [Messages -> 0..MaxBulkRetryAttempts]
      /\ chunks'[q] = rest /\ attempt'[q] = 0
      /\ Remaining(q)' = UNION Range(rest)
      /\ \A p \in Messages \ {q} :
           chunks'[p] = chunks[p] /\ pending'[p] = pending[p] /\ attempt'[p] = attempt[p]
  BY <1>1, <1>3, <1>4, StartChunkEffect
<1>7. WhitelistTypeOK'
  BY <1>1, <1>4, <1>5, <1>6 DEF WhitelistTypeOK, reader
<1>8. MessageIsSound(q)'
  BY <1>2, <1>3, <1>5, <1>6, SizesAssumption DEF MessageIsSound, Handled, NoMessage
<1>9. BatchIsCovered(q)'
  BY <1>3, <1>5, <1>6 DEF BatchIsCovered
<1>10. QED
  BY <1>4, <1>5, <1>6, <1>7, <1>8, <1>9, MessageStep DEF codes

(* A bulk call, and what follows it, is about one message: it is handled,  *)
(* has codes, and the whitelist grows.                                     *)
LEMMA HandledMessage ==
  ASSUME WhitelistInv, NEW q \in Messages, Handled(q)
  PROVE  /\ WhitelistTypeOK /\ MessageIsSound(q)
         /\ chunks[q] \in Seq(SUBSET FiscalCodes) /\ chunks[q] # <<>>
         /\ Tail(chunks[q]) \in Seq(SUBSET FiscalCodes)
         /\ queue[q] \in [fiscalCodes : Seq(FiscalCodes), count : 0..MaxDequeueCount]
         /\ queue[q] # NoMessage /\ queue[q].fiscalCodes # <<>>
         /\ Range(queue[q].fiscalCodes)
              \subseteq container \cup pending[q] \cup UNION Range(Tail(chunks[q]))
<1>1. WhitelistTypeOK /\ MessageIsSound(q) /\ BatchIsCovered(q)
  BY DEF WhitelistInv, MessagesInv
<1>2. chunks[q] \in Seq(SUBSET FiscalCodes) /\ chunks[q] # <<>>
  BY <1>1 DEF WhitelistTypeOK, Handled
<1>3. Tail(chunks[q]) \in Seq(SUBSET FiscalCodes)
  BY <1>2, HeadAndTail, Zenon
<1>4. queue[q] \in [fiscalCodes : Seq(FiscalCodes), count : 0..MaxDequeueCount]
  BY <1>1 DEF WhitelistTypeOK
<1>5. QED
  BY <1>1, <1>2, <1>3, <1>4 DEF MessageIsSound, BatchIsCovered, Remaining

(* A message that leaves the queue, or stays with its handler gone.        *)
LEMMA NothingIsHandled ==
  ASSUME NEW q \in Messages, chunks'[q] = <<>>, attempt'[q] = 0,
         \/ queue'[q] = NoMessage
         \/ queue'[q].fiscalCodes # <<>> /\ queue'[q].count < MaxDequeueCount
  PROVE  MessageIsSound(q)' /\ BatchIsCovered(q)'
BY SizesAssumption DEF MessageIsSound, BatchIsCovered, Handled, NoMessage

(* The whole chunk is inserted: the next one, or the end of the message.   *)
LEMMA SucceedKeeps ==
  ASSUME WhitelistInv, NEW q \in Messages, Handled(q), Succeed(q, Tail(chunks[q])),
         container' = container \cup pending[q],
         faults' \in 0..MaxFaults, UNCHANGED <<file, reader>>
  PROVE  WhitelistInv'
<1> DEFINE rest == Tail(chunks[q])
<1>1. /\ WhitelistTypeOK /\ MessageIsSound(q) /\ rest \in Seq(SUBSET FiscalCodes)
      /\ queue[q] \in [fiscalCodes : Seq(FiscalCodes), count : 0..MaxDequeueCount]
      /\ queue[q] # NoMessage /\ queue[q].fiscalCodes # <<>>
      /\ Range(queue[q].fiscalCodes) \subseteq container' \cup UNION Range(rest)
  BY HandledMessage
<1>2. StartChunk(q, rest) /\ UNCHANGED poison
      /\ queue' = IF rest = <<>> THEN [queue EXCEPT ![q] = NoMessage] ELSE queue
  BY DEF Succeed
<1> HIDE DEF rest
<1>3. /\ chunks' \in [Messages -> Seq(SUBSET FiscalCodes)]
      /\ pending' \in [Messages -> SUBSET FiscalCodes]
      /\ attempt' \in [Messages -> 0..MaxBulkRetryAttempts]
      /\ chunks'[q] = rest /\ attempt'[q] = 0
      /\ rest # <<>> => Remaining(q)' = UNION Range(rest)
      /\ \A p \in Messages \ {q} :
           chunks'[p] = chunks[p] /\ pending'[p] = pending[p] /\ attempt'[p] = attempt[p]
  BY <1>1, <1>2, StartChunkEffect
<1>4. NoMessage \in [fiscalCodes : Seq(FiscalCodes), count : 0..MaxDequeueCount]
  BY SizesAssumption DEF NoMessage
<1>5. /\ queue' \in [Messages -> [fiscalCodes : Seq(FiscalCodes), count : 0..MaxDequeueCount]]
      /\ \A p \in Messages \ {q} : queue'[p] = queue[p]
      /\ queue'[q] = IF rest = <<>> THEN NoMessage ELSE queue[q]
  BY <1>1, <1>2, <1>4, Zenon DEF WhitelistTypeOK
<1>6. pending[q] \in SUBSET FiscalCodes /\ container \in SUBSET FiscalCodes
  BY <1>1 DEF WhitelistTypeOK
<1>7. WhitelistTypeOK'
  BY <1>1, <1>2, <1>3, <1>5, <1>6 DEF WhitelistTypeOK, reader
<1>8. rest = <<>> => UNION Range(rest) = {}
  BY DEF Range
<1>9. /\ MessageIsSound(q)' /\ BatchIsCovered(q)'
      /\ Range(queue[q].fiscalCodes)
           \subseteq Range(queue'[q].fiscalCodes) \cup container' \cup poison'
  <2>1. CASE rest = <<>>
    <3>1. MessageIsSound(q)' /\ BatchIsCovered(q)'
      BY <1>3, <1>5, <2>1, NothingIsHandled, Zenon
    <3>2. QED
      BY <1>1, <1>8, <2>1, <3>1
  <2>2. CASE rest # <<>>
    <3>1. queue'[q] = queue[q]
      BY <1>5, <2>2
    <3>2. MessageIsSound(q)'
      BY <1>1, <1>3, <2>2, <3>1, SizesAssumption DEF MessageIsSound, Handled
    <3>3. BatchIsCovered(q)'
      BY <1>1, <1>3, <2>2, <3>1 DEF BatchIsCovered
    <3>4. QED
      BY <3>1, <3>2, <3>3
  <2>3. QED
    BY <2>1, <2>2
<1>10. QED
  BY <1>2, <1>3, <1>5, <1>7, <1>9, MessageStep

(* The call fails: the message is back, or poison.                         *)
LEMMA FailKeeps ==
  ASSUME WhitelistInv, NEW q \in Messages, Handled(q), Fail(q),
         container \subseteq container', container' \subseteq FiscalCodes,
         faults' \in 0..MaxFaults, UNCHANGED <<file, reader>>
  PROVE  WhitelistInv'
<1> DEFINE rest == <<>>
<1>1. /\ WhitelistTypeOK /\ queue[q].fiscalCodes # <<>>
      /\ queue[q] \in [fiscalCodes : Seq(FiscalCodes), count : 0..MaxDequeueCount]
  BY HandledMessage
<1>2. StartChunk(q, rest)
  BY DEF Fail
<1>3. /\ chunks' \in [Messages -> Seq(SUBSET FiscalCodes)]
      /\ pending' \in [Messages -> SUBSET FiscalCodes]
      /\ attempt' \in [Messages -> 0..MaxBulkRetryAttempts]
      /\ chunks'[q] = <<>> /\ attempt'[q] = 0
      /\ \A p \in Messages \ {q} :
           chunks'[p] = chunks[p] /\ pending'[p] = pending[p] /\ attempt'[p] = attempt[p]
  <2>1. rest \in Seq(SUBSET FiscalCodes)
    OBVIOUS
  <2> HIDE DEF rest
  <2>2. chunks'[q] = rest
    BY <1>1, <1>2, <2>1, StartChunkEffect
  <2>3. QED
    BY <1>1, <1>2, <2>1, <2>2, StartChunkEffect DEF rest
<1>4. NoMessage \in [fiscalCodes : Seq(FiscalCodes), count : 0..MaxDequeueCount]
  BY SizesAssumption DEF NoMessage
<1>5. Range(queue[q].fiscalCodes) \subseteq FiscalCodes
  BY <1>1 DEF Range
<1>6. /\ queue' \in [Messages -> [fiscalCodes : Seq(FiscalCodes), count : 0..MaxDequeueCount]]
      /\ \A p \in Messages \ {q} : queue'[p] = queue[p]
      /\ poison' \in SUBSET FiscalCodes /\ poison \subseteq poison'
      /\ \/ queue'[q] = queue[q] /\ queue[q].count < MaxDequeueCount
         \/ queue'[q] = NoMessage /\ Range(queue[q].fiscalCodes) \subseteq poison'
  <2>1. CASE queue[q].count < MaxDequeueCount
    BY <1>1, <2>1 DEF Fail, WhitelistTypeOK
  <2>2. CASE ~(queue[q].count < MaxDequeueCount)
    BY <1>1, <1>4, <1>5, <2>2, Zenon DEF Fail, WhitelistTypeOK
  <2>3. QED
    BY <2>1, <2>2
<1>7. WhitelistTypeOK'
  BY <1>1, <1>3, <1>6 DEF WhitelistTypeOK, reader
<1>8. MessageIsSound(q)' /\ BatchIsCovered(q)'
  BY <1>1, <1>3, <1>6, NothingIsHandled, Zenon
<1>9. QED
  BY <1>3, <1>6, <1>7, <1>8, MessageStep

(* What was throttled is tried once more, with the same message.           *)
LEMMA RetryKeeps ==
  ASSUME WhitelistInv, NEW q \in Messages, Handled(q),
         NEW throttled \in SUBSET pending[q],
         attempt[q] + 1 # MaxBulkRetryAttempts,
         pending' = [pending EXCEPT ![q] = throttled],
         attempt' = [attempt EXCEPT ![q] = @ + 1],
         UNCHANGED <<queue, chunks, poison>>,
         container' = container \cup (pending[q] \ throttled),
         faults' \in 0..MaxFaults, UNCHANGED <<file, reader>>
  PROVE  WhitelistInv'
<1>1. /\ WhitelistTypeOK /\ MessageIsSound(q)
      /\ Range(queue[q].fiscalCodes)
           \subseteq container \cup pending[q] \cup UNION Range(Tail(chunks[q]))
  BY HandledMessage
<1>2. /\ pending[q] \in SUBSET FiscalCodes /\ container \in SUBSET FiscalCodes
      /\ attempt[q] \in Nat /\ attempt[q] + 1 < MaxBulkRetryAttempts
  <2>1. /\ pending[q] \in SUBSET FiscalCodes /\ container \in SUBSET FiscalCodes
        /\ attempt[q] \in 0..MaxBulkRetryAttempts
    BY <1>1 DEF WhitelistTypeOK
  <2>2. attempt[q] < MaxBulkRetryAttempts
    BY <1>1 DEF MessageIsSound
  <2>3. QED
    BY <2>1, <2>2, SizesAssumption
<1>3. /\ pending' \in [Messages -> SUBSET FiscalCodes]
      /\ attempt' \in [Messages -> 0..MaxBulkRetryAttempts]
      /\ pending'[q] = throttled /\ attempt'[q] = attempt[q] + 1
      /\ \A p \in Messages \ {q} : pending'[p] = pending[p] /\ attempt'[p] = attempt[p]
  <2>1. attempt[q] + 1 \in 0..MaxBulkRetryAttempts
    BY <1>2, SizesAssumption
  <2>2. throttled \in SUBSET FiscalCodes
    BY <1>2
  <2>3. QED
    BY <1>1, <2>1, <2>2 DEF WhitelistTypeOK
<1>4. WhitelistTypeOK'
  BY <1>1, <1>2, <1>3 DEF WhitelistTypeOK, reader
<1>5. MessageIsSound(q)'
  BY <1>1, <1>2, <1>3 DEF MessageIsSound, Handled, NoMessage
<1>6. Remaining(q)' = throttled \cup UNION Range(Tail(chunks[q]))
  BY <1>3 DEF Remaining
<1>7. BatchIsCovered(q)'
  BY <1>1, <1>6 DEF BatchIsCovered
<1>8. QED
  BY <1>3, <1>4, <1>5, <1>7, MessageStep

(* A fault is counted.                                                     *)
LEMMA FaultIsCounted ==
  ASSUME WhitelistInv, Fault \/ UNCHANGED faults
  PROVE  faults' \in 0..MaxFaults
<1>1. faults \in 0..MaxFaults /\ MaxFaults \in Nat
  BY SizesAssumption, Zenon DEF WhitelistInv, WhitelistTypeOK
<1>2. CASE Fault
  BY <1>1, <1>2 DEF Fault
<1>3. CASE UNCHANGED faults
  BY <1>1, <1>3, Zenon
<1>4. QED
  BY <1>2, <1>3

(* A bulk call that is answered.                                           *)
LEMMA ExecuteKeeps ==
  ASSUME WhitelistInv, NEW q \in Messages, ExecuteBulkOperations(q)
  PROVE  WhitelistInv'
<1>1. Handled(q) /\ UNCHANGED <<file, reader>>
  BY DEF ExecuteBulkOperations
<1>2. PICK throttled \in SUBSET pending[q] :
        /\ container' = container \cup (pending[q] \ throttled)
        /\ AfterThrottling(q, throttled)
        /\ IF throttled = {} THEN UNCHANGED faults ELSE Fault
  BY DEF ExecuteBulkOperations
<1>3. WhitelistTypeOK
  BY DEF WhitelistInv
<1>4. faults' \in 0..MaxFaults
  BY <1>2, FaultIsCounted, Zenon
<1>5. pending[q] \in SUBSET FiscalCodes /\ container \in SUBSET FiscalCodes
  BY <1>3 DEF WhitelistTypeOK
<1>6. container \subseteq container' /\ container' \subseteq FiscalCodes
  BY <1>2, <1>5
<1>7. CASE throttled = {}
  <2>1. Succeed(q, Tail(chunks[q])) /\ container' = container \cup pending[q]
    BY <1>2, <1>7 DEF AfterThrottling
  <2>2. QED
    BY <1>1, <1>4, <2>1, SucceedKeeps
<1>8. CASE throttled # {} /\ attempt[q] + 1 = MaxBulkRetryAttempts
  <2>1. Fail(q)
    BY <1>2, <1>8 DEF AfterThrottling
  <2>2. QED
    BY <1>1, <1>4, <1>6, <2>1, FailKeeps
<1>9. CASE throttled # {} /\ attempt[q] + 1 # MaxBulkRetryAttempts
  <2>1. /\ pending' = [pending EXCEPT ![q] = throttled]
        /\ attempt' = [attempt EXCEPT ![q] = @ + 1]
        /\ UNCHANGED <<queue, chunks, poison>>
    BY <1>2, <1>9 DEF AfterThrottling
  <2>2. QED
    BY <1>1, <1>2, <1>4, <1>9, <2>1, RetryKeeps
<1>10. QED
  BY <1>7, <1>8, <1>9

(* One that is not: some of the documents may be created.                  *)
LEMMA FailBulkKeeps ==
  ASSUME WhitelistInv, NEW q \in Messages, FailBulkOperations(q)
  PROVE  WhitelistInv'
<1>1. WhitelistTypeOK
  BY DEF WhitelistInv
<1>2. PICK created \in SUBSET pending[q] : container' = container \cup created
  BY DEF FailBulkOperations
<1>3. pending[q] \in SUBSET FiscalCodes /\ container \in SUBSET FiscalCodes
  BY <1>1 DEF WhitelistTypeOK
<1>4. faults' \in 0..MaxFaults
  BY FaultIsCounted, Zenon DEF FailBulkOperations
<1>5. QED
  BY <1>2, <1>3, <1>4, FailKeeps DEF FailBulkOperations

----------------------------------------------------------------------------
(* The reader of the file.  It moves no message that is in the queue.      *)
LEMMA ReaderStep ==
  ASSUME WhitelistInv, UNCHANGED <<file, writer, container, poison>>,
         \A q \in Messages :
           \/ queue'[q] = queue[q]
           \/ /\ queue[q] = NoMessage
              /\ queue'[q].fiscalCodes # <<>> /\ queue'[q].count = 0
  PROVE  MessagesInv'
<1>1. /\ chunks' = chunks /\ pending' = pending /\ attempt' = attempt
      /\ container' = container
  BY DEF writer
<1>2. ASSUME NEW q \in Messages PROVE MessageIsSound(q)' /\ BatchIsCovered(q)'
  <2>1. MessageIsSound(q) /\ BatchIsCovered(q)
    BY DEF WhitelistInv, MessagesInv
  <2>2. Remaining(q)' = Remaining(q) /\ (Handled(q)' <=> Handled(q))
    BY <1>1 DEF Remaining, Handled
  <2>3. CASE queue'[q] = queue[q]
    BY <1>1, <2>1, <2>2, <2>3 DEF MessageIsSound, BatchIsCovered, NoMessage
  <2>4. CASE queue[q] = NoMessage /\ queue'[q].fiscalCodes # <<>> /\ queue'[q].count = 0
    BY <1>1, <2>1, <2>2, <2>4, SizesAssumption DEF MessageIsSound, BatchIsCovered
  <2>5. QED
    BY <2>3, <2>4
<1>3. QED
  BY <1>2 DEF MessagesInv

(* Counting up to a bound, and no lines.                                   *)
LEMMA Interval ==
  /\ \A n \in Nat : \A i \in 1..n : i < n => i + 1 \in 1..n
  /\ 1..0 = {}
OBVIOUS

(* It throws: it starts again from the first line, and has passed none.    *)
LEMMA ThrowEffect ==
  ASSUME WhitelistTypeOK, Throw
  PROVE  /\ reading' \in {"reading", "done", "given up"}
         /\ blobAttempt' \in 1..MaxBlobAttempts
         /\ line' = 0 /\ fiscalCodes' = <<>>
<1>1. /\ reading \in {"reading", "done", "given up"}
      /\ blobAttempt \in 1..MaxBlobAttempts /\ MaxBlobAttempts \in Nat
  BY SizesAssumption DEF WhitelistTypeOK
<1>2. CASE blobAttempt < MaxBlobAttempts
  <2>1. line' = 0 /\ fiscalCodes' = <<>> /\ blobAttempt' = blobAttempt + 1 /\ reading' = reading
    BY <1>2, Zenon DEF Throw
  <2>2. blobAttempt + 1 \in 1..MaxBlobAttempts
    BY <1>1, <1>2, Interval, Zenon
  <2>3. QED
    BY <1>1, <2>1, <2>2, Zenon
<1>3. CASE ~(blobAttempt < MaxBlobAttempts)
  BY <1>1, <1>3, Zenon DEF Throw
<1>4. QED
  BY <1>2, <1>3

(* The file, whichever line is read, is the same.                          *)
LEMMA FileType ==
  ASSUME WhitelistTypeOK PROVE file \in Seq(FiscalCodes \cup {Invalid}) /\ Len(file) \in Nat
<1>1. file \in Files /\ Files \subseteq Seq(FiscalCodes \cup {Invalid})
  BY SizesAssumption, Zenon DEF WhitelistTypeOK
<1>2. file \in Seq(FiscalCodes \cup {Invalid})
  BY <1>1, Zenon
<1>3. QED
  BY <1>2

(* A trigger that throws has passed no line, and leaves the rest alone.    *)
LEMMA ThrowKeeps ==
  ASSUME WhitelistInv, Throw, reading = "reading",
         UNCHANGED <<file, writer, container, poison>>,
         faults' \in 0..MaxFaults,
         queue' \in [Messages -> [fiscalCodes : Seq(FiscalCodes), count : 0..MaxDequeueCount]],
         \A q \in Messages :
           \/ queue'[q] = queue[q]
           \/ /\ queue[q] = NoMessage
              /\ queue'[q].fiscalCodes # <<>> /\ queue'[q].count = 0
  PROVE  WhitelistInv'
<1>1. WhitelistTypeOK
  BY DEF WhitelistInv
<1>2. MessagesInv'
  BY ReaderStep
<1>3. /\ reading' \in {"reading", "done", "given up"}
      /\ blobAttempt' \in 1..MaxBlobAttempts
      /\ line' = 0 /\ fiscalCodes' = <<>>
  BY <1>1, ThrowEffect
<1>4. line' \in 0..Len(file') /\ fiscalCodes' \in Seq(FiscalCodes)
      /\ Len(fiscalCodes') <= BatchSize
  <2>1. Len(file) \in Nat /\ file' = file /\ BatchSize \in Nat
    BY <1>1, FileType, SizesAssumption
  <2>2. line' = 0 /\ fiscalCodes' = <<>>
    BY <1>3
  <2>3. 0 \in 0..Len(file) /\ <<>> \in Seq(FiscalCodes) /\ Len(<<>>) <= BatchSize
    BY <2>1
  <2>4. QED
    BY <2>1, <2>2, <2>3, Zenon
<1>5. WhitelistTypeOK'
  BY <1>1, <1>3, <1>4 DEF WhitelistTypeOK, writer
<1>6. EveryCodeIsAccounted'
  <2>1. line' = 0
    BY <1>3, Zenon
  <2>2. 1..line' = {}
    BY <2>1, Interval, Zenon
  <2>3. QED
    BY <2>2, Zenon DEF EveryCodeIsAccounted
<1>7. QED
  BY <1>2, <1>5, <1>6 DEF WhitelistInv

(* A line is read: its code is with those that are not enqueued.           *)
LEMMA ReadLineKeeps == WhitelistInv /\ ReadLine => WhitelistInv'
<1> SUFFICES ASSUME WhitelistInv, ReadLine PROVE WhitelistInv'
  OBVIOUS
<1>1. WhitelistTypeOK /\ EveryCodeIsAccounted
  BY DEF WhitelistInv
<1>2. /\ reading = "reading" /\ line < Len(file) /\ ~IsFull
      /\ UNCHANGED <<file, queue, writer, container, poison, faults>>
  BY DEF ReadLine
<1>3. CASE file[line + 1] = Invalid
  BY <1>1, <1>2, <1>3, ThrowKeeps DEF ReadLine, WhitelistTypeOK
<1>4. CASE file[line + 1] # Invalid
  <2> DEFINE code == file[line + 1]
  <2>1. /\ line' = line + 1 /\ fiscalCodes' = Append(fiscalCodes, code)
        /\ UNCHANGED <<reading, blobAttempt>>
    BY <1>4 DEF ReadLine
  <2>2. line \in Nat /\ line + 1 \in 1..Len(file) /\ line + 1 \in 0..Len(file)
    BY <1>1, <1>2, FileType DEF WhitelistTypeOK
  <2>3. code \in FiscalCodes
    BY <1>1, <1>4, <2>2, FileType
  <2>4. fiscalCodes \in Seq(FiscalCodes) /\ Len(fiscalCodes) < BatchSize
    BY <1>1, <1>2, SizesAssumption DEF WhitelistTypeOK, IsFull
  <2> HIDE DEF code
  <2>5. /\ fiscalCodes' \in Seq(FiscalCodes) /\ Len(fiscalCodes') <= BatchSize
        /\ Range(fiscalCodes') = Range(fiscalCodes) \cup {code}
    <3>1. /\ fiscalCodes' \in Seq(FiscalCodes) /\ Len(fiscalCodes') = Len(fiscalCodes) + 1
          /\ DOMAIN fiscalCodes' = 1..(Len(fiscalCodes) + 1)
          /\ DOMAIN fiscalCodes = 1..Len(fiscalCodes)
          /\ \A i \in 1..Len(fiscalCodes) : fiscalCodes'[i] = fiscalCodes[i]
          /\ fiscalCodes'[Len(fiscalCodes) + 1] = code
      BY <2>1, <2>3, <2>4
    <3>2. Len(fiscalCodes) \in Nat
      BY <2>4
    <3>3. Range(fiscalCodes') = Range(fiscalCodes) \cup {code}
      BY <3>1, <3>2 DEF Range
    <3>4. QED
      BY <2>4, <3>1, <3>2, <3>3, SizesAssumption
  <2>6. WhitelistTypeOK'
    BY <1>1, <1>2, <2>1, <2>2, <2>5 DEF WhitelistTypeOK, writer
  <2>7. MessagesInv'
    BY <1>2, ReaderStep
  <2>8. Enqueued' = Enqueued
    BY <1>2 DEF Enqueued
  <2>9. \A i \in 1..(line + 1) : i \in 1..line \/ i = line + 1
    BY <2>2
  <2>10. EveryCodeIsAccounted'
    BY <1>1, <1>2, <2>1, <2>5, <2>8, <2>9 DEF EveryCodeIsAccounted, code
  <2>11. QED
    BY <2>6, <2>7, <2>10 DEF WhitelistInv
<1>5. QED
  BY <1>3, <1>4

(* The blob cannot be read.                                                *)
LEMMA FailDownloadKeeps == WhitelistInv /\ FailDownload => WhitelistInv'
<1> SUFFICES ASSUME WhitelistInv, FailDownload PROVE WhitelistInv'
  OBVIOUS
<1>1. WhitelistTypeOK
  BY DEF WhitelistInv
<1>2. faults' \in 0..MaxFaults
  BY FaultIsCounted, Zenon DEF FailDownload
<1>3. QED
  BY <1>1, <1>2, ThrowKeeps DEF FailDownload, WhitelistTypeOK

(* A batch is sent: it is in a slot of the queue if the call succeeds.     *)
LEMMA EnqueueKeeps == WhitelistInv /\ EnqueueBatch => WhitelistInv'
<1> SUFFICES ASSUME WhitelistInv, EnqueueBatch PROVE WhitelistInv'
  OBVIOUS
<1>1. WhitelistTypeOK /\ EveryCodeIsAccounted
  BY DEF WhitelistInv
<1>2. reading = "reading" /\ UNCHANGED <<file, writer, container, poison>>
  BY DEF EnqueueBatch
<1>3. fiscalCodes # <<>> /\ fiscalCodes \in Seq(FiscalCodes)
  BY <1>1, SizesAssumption DEF EnqueueBatch, IsFull, WhitelistTypeOK
<1>4. PICK slots \in SUBSET Free :
        /\ SendMessage(slots)
        /\ \/ Cardinality(slots) = 1 /\ Sent /\ UNCHANGED faults
           \/ Cardinality(slots) > 1 /\ Sent /\ Fault
           \/ Throw /\ Fault
  BY DEF EnqueueBatch, Enqueue
<1>5. faults' \in 0..MaxFaults
  BY <1>4, FaultIsCounted, Zenon
<1> DEFINE message == [fiscalCodes |-> fiscalCodes, count |-> 0]
           type == [fiscalCodes : Seq(FiscalCodes), count : 0..MaxDequeueCount]
<1>6. message \in type /\ message.fiscalCodes = fiscalCodes /\ message.count = 0
  BY <1>3, SizesAssumption
<1>7. queue' = [q \in Messages |-> IF q \in slots THEN message ELSE queue[q]]
  BY <1>4 DEF SendMessage
<1>8. queue \in [Messages -> type]
  BY <1>1 DEF WhitelistTypeOK
<1> HIDE DEF message, type
<1>9. queue' \in [Messages -> type]
  BY <1>6, <1>7, <1>8
<1>10. \A q \in Messages : queue'[q] = IF q \in slots THEN message ELSE queue[q]
  BY <1>7
<1>11. \A q \in slots : q \in Messages /\ queue[q] = NoMessage
  BY DEF Free
<1>12. \A q \in Messages :
         \/ queue'[q] = queue[q]
         \/ /\ queue[q] = NoMessage
            /\ queue'[q].fiscalCodes # <<>> /\ queue'[q].count = 0
  BY <1>3, <1>6, <1>10, <1>11
<1>13. CASE Throw
  BY <1>2, <1>5, <1>9, <1>12, <1>13, ThrowKeeps DEF type
<1>14. CASE Sent /\ slots # {}
  <2>1. fiscalCodes' = <<>> /\ UNCHANGED <<reading, blobAttempt, line>>
    BY <1>14 DEF Sent
  <2>2. MessagesInv'
    BY <1>2, <1>12, ReaderStep
  <2>3. WhitelistTypeOK'
    BY <1>1, <1>2, <1>5, <1>9, <2>1, SizesAssumption DEF WhitelistTypeOK, writer, type
  <2>4. Range(fiscalCodes) \subseteq Enqueued'
    <3>1. PICK q \in slots : TRUE
      BY <1>14
    <3>2. q \in Messages /\ queue'[q].fiscalCodes = fiscalCodes
      BY <1>6, <1>10, <1>11, <3>1
    <3>3. QED
      BY <3>2 DEF Enqueued
  <2>5. Enqueued \subseteq Enqueued'
    <3>1. ASSUME NEW q \in Messages
          PROVE  Range(queue[q].fiscalCodes) \subseteq Range(queue'[q].fiscalCodes)
      <4>1. CASE queue'[q] = queue[q]
        BY <4>1
      <4>2. CASE queue[q] = NoMessage
        BY <4>2 DEF NoMessage, Range
      <4>3. QED
        BY <1>12, <4>1, <4>2
    <3>2. QED
      BY <3>1 DEF Enqueued
  <2>6. EveryCodeIsAccounted'
    BY <1>1, <1>2, <2>1, <2>4, <2>5 DEF EveryCodeIsAccounted
  <2>7. QED
    BY <2>2, <2>3, <2>6 DEF WhitelistInv
<1>15. Cardinality({}) = 0
  BY FS_EmptySet
<1>16. slots = {} => ~(Cardinality(slots) = 1) /\ ~(Cardinality(slots) > 1)
  BY <1>15
<1>17. QED
  BY <1>4, <1>13, <1>14, <1>16

(* The file is read to its end.                                            *)
LEMMA EndOfFileKeeps == WhitelistInv /\ EndOfFile => WhitelistInv'
<1> SUFFICES ASSUME WhitelistInv, EndOfFile PROVE WhitelistInv'
  OBVIOUS
<1>1. WhitelistTypeOK /\ EveryCodeIsAccounted
  BY DEF WhitelistInv
<1>2. UNCHANGED <<file, blobAttempt, line, fiscalCodes, queue, writer, container, poison, faults>>
  BY DEF EndOfFile
<1>3. WhitelistTypeOK'
  BY <1>1, <1>2 DEF EndOfFile, WhitelistTypeOK, writer
<1>4. MessagesInv'
  BY <1>2, ReaderStep
<1>5. EveryCodeIsAccounted'
  BY <1>1, <1>2 DEF EveryCodeIsAccounted, Enqueued
<1>6. QED
  BY <1>3, <1>4, <1>5 DEF WhitelistInv

----------------------------------------------------------------------------
(* Each step keeps it.                                                     *)
LEMMA StepKeepsWhitelist == WhitelistInv /\ [WhitelistNext]_whitelistVars => WhitelistInv'
<1> SUFFICES ASSUME WhitelistInv, [WhitelistNext]_whitelistVars PROVE WhitelistInv'
  OBVIOUS
<1>1. CASE UNCHANGED whitelistVars
  <2>1. UNCHANGED <<file, reading, blobAttempt, line, fiscalCodes, queue, chunks, pending,
                    attempt, container, poison, faults>>
    BY <1>1 DEF whitelistVars, reader, writer
  <2>2. WhitelistTypeOK'
    BY <2>1 DEF WhitelistInv, WhitelistTypeOK
  <2>3. MessagesInv'
    BY <2>1, ReaderStep DEF writer
  <2>4. EveryCodeIsAccounted'
    BY <2>1 DEF WhitelistInv, EveryCodeIsAccounted, Enqueued
  <2>5. QED
    BY <2>2, <2>3, <2>4 DEF WhitelistInv
<1>2. ASSUME NEW q \in Messages, InsertWhitelistedFiscalCodes(q) \/ FailBulkOperations(q)
      PROVE  WhitelistInv'
  <2>1. Receive(q) \/ ExecuteBulkOperations(q) \/ FailBulkOperations(q)
    BY <1>2, Zenon DEF InsertWhitelistedFiscalCodes
  <2>2. CASE Receive(q)
    BY <2>2, ReceiveKeeps
  <2>3. CASE ExecuteBulkOperations(q)
    BY <2>3, ExecuteKeeps
  <2>4. CASE FailBulkOperations(q)
    BY <2>4, FailBulkKeeps
  <2>5. QED
    BY <2>1, <2>2, <2>3, <2>4
<1>3. CASE EnqueueWhitelistedFiscalCodes \/ FailDownload
  BY <1>3, ReadLineKeeps, EnqueueKeeps, EndOfFileKeeps, FailDownloadKeeps
  DEF EnqueueWhitelistedFiscalCodes
<1>4. QED
  BY <1>1, <1>2, <1>3 DEF WhitelistNext

(* All is of its type, messages and their handlers are sound, a message    *)
(* that is handled is covered, and no code is lost.                        *)
THEOREM WhitelistCorrect == WhitelistSpec => []WhitelistInv
BY InitWhitelist, StepKeepsWhitelist, PTL DEF WhitelistSpec

(* The types of the import, for any file (enqueue-whitelisted-fiscal-      *)
(* codes.ts, insert-whitelisted-fiscal-codes.ts).                          *)
THEOREM WhitelistTypesHold == WhitelistSpec => []WhitelistTypeOK
<1>1. WhitelistInv => WhitelistTypeOK
  BY DEF WhitelistInv
<1>2. QED
  BY <1>1, WhitelistCorrect, PTL

(* No fiscal code that the reader has passed is lost: batches that are     *)
(* sent twice or not at all, calls that are throttled or fail half way and *)
(* hosts that stop leave it in the whitelist, in a message, with the       *)
(* reader or among the poisoned ones.                                      *)
THEOREM WhitelistEveryCodeIsAccounted == WhitelistSpec => []EveryCodeIsAccounted
<1>1. WhitelistInv => EveryCodeIsAccounted
  BY DEF WhitelistInv
<1>2. QED
  BY <1>1, WhitelistCorrect, PTL
=============================================================================
