----------------------- MODULE KeyAttestationRequest ------------------------
(***************************************************************************)
(* The request for the attestation of a wallet's keys: a signed token that *)
(* lists one signed token for every key, and what has to agree between     *)
(* them, the wallet instance and the evidence of the device                *)
(* (apps/io-wallet-user-func/src/infra/http/key-attestation-request.ts,    *)
(* infra/http/handlers/create-key-attestation.ts,                          *)
(* infra/mobile-attestation-service/assertion-request-validation.ts).      *)
(*                                                                         *)
(* A token whose signature or format is wrong is no request at all.        *)
(***************************************************************************)
EXTENDS Naturals, Sequences

CONSTANT Jwks

NoJwk == "none"
KeyToAttest ==
  [jwk : Jwks,
   kidMatches : BOOLEAN,              \* the kid of the key is that of the header
   attestedJwk : Jwks \cup {NoJwk},   \* the key of its hardware attestation
   genuine : BOOLEAN,                 \* that attestation is valid for the nonce
   level : 1..2]                      \* its key master security level

(* toPlatformDecodedAssertionJwt: all the keys of an Android device come   *)
(* with a hardware attestation, and none of those of an iOS device.        *)
PlatformDecodes(request) ==
  \A i \in DOMAIN request.keysToAttest :
    (request.keysToAttest[i].attestedJwk = NoJwk) <=> request.platform = "ios"

(* verifyAssertionJwtProperties *)
AssertionProperties(request) ==
  /\ request.issuerMatches          \* iss = hardwareKeyTag
  /\ request.keysToAttest # <<>>
  /\ request.cnf = request.keysToAttest[1].jwk

KeyAttestationProperties(request) ==
  \A i \in DOMAIN request.keysToAttest : request.keysToAttest[i].kidMatches

RequireKeyAttestationRequest(request) ==
  /\ PlatformDecodes(request)
  /\ AssertionProperties(request)
  /\ KeyAttestationProperties(request)

Thumbprints(request) ==
  [i \in DOMAIN request.keysToAttest |-> request.keysToAttest[i].jwk]

(* The wallet instance is valid (WalletInstances) and of that platform, and*)
(* the assertion signs the nonce and the thumbprints, in their order.      *)
ValidateHardwareAssertion(request, walletInstance) ==
  /\ walletInstance.platform = request.platform
  /\ request.loadTest \/ request.signedThumbprints = Thumbprints(request)

\* Mutant: the attestation of a key may be that of any key of the request.
MatchesSomeKey(request, key) ==
  \E i \in DOMAIN request.keysToAttest :
    key.attestedJwk = request.keysToAttest[i].jwk

AttestedJwkMatches(request, key) == key.attestedJwk = key.jwk

ValidateKeysToAttest(request) ==
  \/ request.loadTest \/ request.platform = "ios"
  \/ \A i \in DOMAIN request.keysToAttest :
       LET key == request.keysToAttest[i]
       IN key.genuine /\ AttestedJwkMatches(request, key)

(* The storage that is claimed for a key.                                  *)
KeyStorage(request, key) ==
  IF request.loadTest \/ request.platform = "ios" \/ key.level >= 2
  THEN "iso_18045_moderate" ELSE "iso_18045_enhanced-basic"

AttestedKeys(request) ==
  [i \in DOMAIN request.keysToAttest |->
     LET key == request.keysToAttest[i]
     IN [jwk |-> key.jwk, keyStorage |-> KeyStorage(request, key)]]

(* The answer to a request, in the order of the checks: the nonce is used  *)
(* up by then if the request is well formed.                               *)
GenerateKeyAttestation(request, walletInstance) ==
  CASE ~RequireKeyAttestationRequest(request) -> "malformed"
    [] OTHER ->
       IF /\ ValidateHardwareAssertion(request, walletInstance)
          /\ walletInstance.hasStatus
          /\ ValidateKeysToAttest(request)
       THEN "granted" ELSE "refused"
=============================================================================
