---------------------- MODULE MCAttestationValidation ----------------------
EXTENDS AttestationValidation

CONSTANTS s1, s2, j1, j2

(* The serial number s2 contains the digits of s1.                         *)
MCContaining == {<<s1, s1>>, <<s2, s2>>, <<s2, s1>>}
MCBundleIdentifiers == <<"it.pagopa.io.app", "it.pagopa.io.app.test">>

Good == [present |-> TRUE, defects |-> {}]
MCRecords == {Good, [Good EXCEPT !.defects = {"challenge", "boot loader"}]}
MCIosDefects == {{}, {"nonce"}, {"development environment"}}
MCResponseDefects ==
  {{}, {"app recognition"}, {"request hash", "app licensing"},
   {"unreadable certificate digest"}}

(* One thing is wrong with a key at most.                                  *)
MCKeysToAttest ==
  {key \in KeyToAttest :
     /\ key.level = 2 => key.genuine /\ key.kidMatches
     /\ ~key.kidMatches => key.genuine
     /\ key.attestedJwk = NoJwk => key.genuine /\ key.level = 1}
============================================================================
