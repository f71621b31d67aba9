-------------------------- MODULE MobileAttestation -------------------------
(***************************************************************************)
(* The evidence that the devices send, and what the server makes of it:    *)
(* the attestation of a hardware key when an instance is created, and the  *)
(* assertion that comes with every request for an attestation              *)
(* (apps/io-wallet-user-func/src/infra/mobile-attestation-service,         *)
(* attestation-service.ts).                                                *)
(*                                                                         *)
(* What a piece of evidence says is a set of defects: the checks, in the   *)
(* order of the code, that it would not pass.                              *)
(***************************************************************************)
EXTENDS Certificates

CONSTANT BundleIdentifiers   \* the packages of the app, in their order

ASSUME BundleIdentifiersAssumption == BundleIdentifiers \in Seq(STRING)

----------------------------------------------------------------------------
(* A list of checks on evidence with the given defects.                    *)
Validate(checks, defects) ==
  FirstFailure([i \in DOMAIN checks |-> <<checks[i] \notin defects, checks[i]>>])

(* android/attestation.ts *)
KeyDescriptionChecks ==
  <<"attestation security level", "key master security level", "challenge",
    "attestation application id", "package info", "bundle identifier",
    "root of trust", "boot loader", "verified boot state">>

ValidateExtension(record) == Validate(KeyDescriptionChecks, record.defects)

IsNonRkpChain(chain) == chain[Len(chain)].subject = "non-RKP root"

WithExtension(chain) == {i \in DOMAIN chain : chain[i].record.present}

\* Mutant: the extension nearest to the leaf.
ExtensionNearestToLeaf(chain) ==
  CHOOSE i \in WithExtension(chain) : \A j \in WithExtension(chain) : i <= j

(* The certificate with the extension that is nearest to the root.         *)
KeyAttestationExtension(chain) ==
  CHOOSE i \in WithExtension(chain) : \A j \in WithExtension(chain) : j <= i

VerifyAndroidAttestation(chain, crl) ==
  LET issuance == ValidateIssuance(chain, IsNonRkpChain(chain), TRUE)
  IN IF issuance # Accepted THEN issuance
     ELSE IF ~ValidateRevocation(chain, crl) THEN "certificate revoked"
     ELSE IF WithExtension(chain) = {} THEN "no key attestation extension"
     ELSE ValidateExtension(chain[KeyAttestationExtension(chain)].record)

(* ios/attestation.ts *)
AppAttestChecks ==
  <<"client certificate", "nonce", "keyId", "appId", "signCount", "aaguid",
    "development environment", "credentialId">>

VerifyIosAttestation(chain, defects, allowDevelopment) ==
  LET issuance == ValidateIssuance(chain, allowDevelopment, allowDevelopment)
      excused == IF allowDevelopment THEN {"development environment"} ELSE {}
  IN IF issuance # Accepted THEN issuance
     ELSE Validate(AppAttestChecks, defects \ excused)

(* validateAttestation: what is not accepted as the evidence of an iOS     *)
(* device is read as that of an Android one.  A revocation list that       *)
(* cannot be fetched counts like any other failure.                        *)
ValidateAttestation(evidence, crl, crlFetched, allowDevelopment) ==
  LET ios == VerifyIosAttestation(evidence.chain, evidence.defects, allowDevelopment)
      android == VerifyAndroidAttestation(evidence.chain, crl)
  IN IF \/ evidence.platform = "ios" /\ ios = Accepted
        \/ evidence.platform = "android" /\ crlFetched /\ android = Accepted
     THEN Accepted ELSE "integrity"

----------------------------------------------------------------------------
(* android/assertion.ts *)
IntegrityChecks ==
  <<"request details", "request package name", "request hash", "timestamp",
    "allowed window", "app integrity", "app recognition", "package name",
    "certificate digest", "unreadable certificate digest", "app certificate",
    "device integrity", "device recognition", "unreadable device recognition",
    "meets device integrity", "account details", "app licensing">>

(* A field that is there but is no list: the validation throws.            *)
Unreadable == {"unreadable certificate digest", "unreadable device recognition"}

DevelopmentExemptions ==
  {"app recognition", "unreadable certificate digest", "app certificate",
   "app licensing"}

ValidateIntegrityResponse(defects, allowDevelopment) ==
  Validate(IntegrityChecks,
    IF allowDevelopment THEN defects \ DevelopmentExemptions ELSE defects)

(* The token is decoded as that of one package after the other: an error   *)
(* of Google ends it, and so does the first payload whose validation does  *)
(* not throw.                                                              *)
Decisive(answers, allowDevelopment) ==
  {i \in DOMAIN answers :
     \/ answers[i].kind = "error"
     \/ /\ answers[i].kind = "token"
        /\ ValidateIntegrityResponse(answers[i].defects, allowDevelopment)
             \notin Unreadable}

IntegrityVerdict(answers, allowDevelopment) ==
  LET decisive == Decisive(answers, allowDevelopment)
  IN IF decisive = {} THEN "integrity"
  ELSE LET i == CHOOSE j \in decisive : \A k \in decisive : j <= k
       IN IF answers[i].kind = "error" THEN "external"
          ELSE IF ValidateIntegrityResponse(answers[i].defects, allowDevelopment)
                    = Accepted
               THEN Accepted ELSE "integrity"

\* Mutant: Google is asked before the signature is verified.
VerifyTokenFirst(assertion, google, allowDevelopment) ==
  LET verdict == IntegrityVerdict(google.answers, allowDevelopment)
  IN IF ~google.authorized THEN "integrity"
     ELSE IF verdict = Accepted /\ assertion.signedFor # "android"
     THEN "integrity" ELSE verdict

(* An authorization that fails is not told from bad evidence.              *)
VerifyAndroidAssertion(assertion, google, allowDevelopment) ==
  IF assertion.signedFor # "android" \/ ~google.authorized THEN "integrity"
  ELSE IntegrityVerdict(google.answers, allowDevelopment)

(* ios/assertion.ts; the sign count stored is 0 and stays so.              *)
VerifyIosAssertion(assertion, signCount) ==
  IF /\ assertion.signedFor = "ios"
     /\ \E i \in DOMAIN BundleIdentifiers : BundleIdentifiers[i] = assertion.bundle
     /\ assertion.signCount > signCount
  THEN Accepted ELSE "integrity"

(* An instance without a platform is tried as both.                        *)
TryAsBoth(assertion, google, allowDevelopment, signCount) ==
  IF VerifyIosAssertion(assertion, signCount) = Accepted THEN Accepted
  ELSE VerifyAndroidAssertion(assertion, google, allowDevelopment)

ValidateAssertion(assertion, platform, google, allowDevelopment, signCount) ==
  CASE platform = "ios" -> VerifyIosAssertion(assertion, signCount)
    [] platform = "android" ->
         VerifyAndroidAssertion(assertion, google, allowDevelopment)
    [] platform = "unknown" ->
         TryAsBoth(assertion, google, allowDevelopment, signCount)
=============================================================================
