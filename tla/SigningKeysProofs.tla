------------------------- MODULE SigningKeysProofs -------------------------
(***************************************************************************)
(* Theorems about SigningKeys, for every number of overlapping commands    *)
(* and every number of versions.  The argument: versions only grow and a   *)
(* registered document never changes, so what a command or a handler read  *)
(* before an await is still true, or outdated by a newer version, after.   *)
(***************************************************************************)
EXTENDS SigningKeys, TLAPS

----------------------------------------------------------------------------
(* The inductive invariant *)

(* The types that TypeOK leaves out: a run of the command line tool ...    *)
CommandState ==
  [pc : {"idle", "creating", "signing", "reading", "persisting"},
   name : {"none", Leaf, Intermediate}, document : KeyDocument]

(* ... and a handler that publishes the configuration.                     *)
HandlerState ==
  [pc : {"idle", "reading", "uploading", "purging"},
   configuration : Configuration]

(* TypeOK, with the fields that it leaves out.                             *)
TypeInv ==
  /\ edition \in {"v1", "v2"}
  /\ vault \in [Keys -> Versions]
  /\ pending \in Versions /\ merged \in Versions
  /\ documents \in [Keys -> KeyDocument]
  /\ command \in [Commands -> CommandState]
  /\ handler \in [Handlers -> HandlerState]
  /\ blob \in Configuration /\ cdn \in Configuration

(* Key k has a document.                                                   *)
Registered(k) == documents[k] # Unregistered

(* Whatever names a version of the intermediate key names one that exists. *)
VersionsInv ==
  LET newest == vault[Intermediate] IN
  /\ pending <= newest /\ merged <= newest
  /\ documents[Intermediate].key <= newest
  /\ documents[Intermediate].certified <= newest

(* What a run of the command line tool holds.                              *)
HoldsLeaf(held) ==
  /\ held.pc \in {"creating", "signing", "persisting"}
  /\ Registered(Intermediate)
  /\ held.document.issuer = documents[Intermediate].certified
  /\ held.pc = "persisting" =>
       /\ held.document.certified = held.document.key
       /\ Verifies(held.document.signedBy, held.document.issuer)

(* One that registers the intermediate key holds versions that exist.      *)
HoldsIntermediate(held) ==
  /\ held.pc \in {"reading", "persisting"}
  /\ held.document.key <= vault[Intermediate]
  /\ held.document.certified <= vault[Intermediate]

(* What a run of the tool holds fits the key it registers.                 *)
CommandHolds(held) ==
  \/ held.name = "none" /\ held.pc = "idle"
  \/ held.name = Leaf /\ HoldsLeaf(held)
  \/ held.name = Intermediate /\ HoldsIntermediate(held)

(* That, of every run.                                                     *)
CommandsInv == \A c \in Commands : CommandHolds(command[c])

(* A complete configuration lists the registered keys, of which none is    *)
(* missing any more.                                                       *)
Complete(configuration) ==
  /\ \A k \in Keys : Registered(k)
  /\ configuration.keys = documents
  /\ Verifies(configuration.signedBy, documents[Intermediate].key)

(* What a handler holds: of the documents it has read each is still the    *)
(* same, since none is written twice, and what it publishes is complete.   *)
HandlerHolds(held) ==
  /\ held.pc = "idle" => held.configuration = Unpublished
  /\ held.pc = "reading" =>
       \A k \in Keys : held.configuration.keys[k] \in {Unregistered, documents[k]}
  /\ held.pc \in {"uploading", "purging"} => Complete(held.configuration)

(* That, of both handlers.                                                 *)
HandlersInv == \A h \in Handlers : HandlerHolds(handler[h])

(* What is uploaded or cached is complete.                                 *)
PublishedInv ==
  /\ blob = Unpublished \/ Complete(blob)
  /\ cdn = Unpublished \/ Complete(cdn)

(* The issuer of a registered leaf key was registered before it.           *)
LeafInv == LeafHolds /\ (Registered(Leaf) => Registered(Intermediate))

(* The inductive invariant.                                                *)
KeysInv ==
  /\ TypeInv
  /\ VersionsInv
  /\ CommandsInv
  /\ HandlersInv
  /\ PublishedInv
  /\ LeafInv

(* The initial values have the types of their variables.                   *)
LEMMA UnregisteredType == Unregistered \in KeyDocument
BY MaxVersionAssumption DEF Unregistered, KeyDocument, Versions

LEMMA UnpublishedType == Unpublished \in Configuration
BY UnregisteredType, MaxVersionAssumption
DEF Unpublished, Configuration, Versions

LEMMA IdleTypes == NoCommand \in CommandState /\ NoHandler \in HandlerState
BY UnregisteredType, UnpublishedType
DEF NoCommand, CommandState, NoHandler, HandlerState

(* It holds at first: nothing is registered, held or published.            *)
LEMMA InitKeysInv == Init => KeysInv
<1> SUFFICES ASSUME Init PROVE KeysInv
  OBVIOUS
<1> USE DEF Init
<1>1. TypeInv
  BY MaxVersionAssumption, UnregisteredType, UnpublishedType, IdleTypes
  DEF TypeInv, Versions
<1>2. VersionsInv
  BY DEF VersionsInv, Keys, Unregistered
<1>3. CommandsInv
  BY DEF CommandsInv, CommandHolds, NoCommand
<1>4. HandlersInv
  BY DEF HandlersInv, HandlerHolds, NoHandler
<1>5. PublishedInv /\ LeafInv
  BY DEF PublishedInv, LeafInv, LeafHolds, Registered, Keys
<1>6. QED
  BY <1>1, <1>2, <1>3, <1>4, <1>5 DEF KeysInv

----------------------------------------------------------------------------
(* What stays true *)

(* Versions only grow, and a document is registered for good.              *)
Later ==
  /\ vault'[Intermediate] >= vault[Intermediate]
  /\ \A k \in Keys : Registered(k) => documents'[k] = documents[k]

(* The types in the form the arithmetic needs.                             *)
LEMMA VersionsType ==
  ASSUME TypeInv
  PROVE  /\ vault[Intermediate] \in Nat /\ vault[Leaf] \in Nat
         /\ \A v \in Versions : v \in Nat
         /\ \A k \in Keys : documents[k] \in KeyDocument
BY MaxVersionAssumption DEF TypeInv, Keys, Versions

(* A signature that verifies, or that a newer version excuses, goes on to. *)
LEMMA VerifiesLater ==
  ASSUME TypeInv, TypeInv', Later, NEW s \in Versions, NEW v \in Versions,
         Verifies(s, v)
  PROVE  Verifies(s, v)'
BY VersionsType, MaxVersionAssumption
DEF Verifies, Later, TypeInv, Keys, Versions

(* A complete configuration stays complete: no key is missing, so no       *)
(* document can be written any more.                                       *)
LEMMA CompleteLater ==
  ASSUME TypeInv, TypeInv', Later, NEW configuration \in Configuration,
         Complete(configuration)
  PROVE  Complete(configuration)'
<1>1. \A k \in Keys : documents'[k] = documents[k]
  BY DEF Complete, Later
<1>2. documents' = documents
  BY <1>1 DEF TypeInv
<1>3. Verifies(configuration.signedBy, documents[Intermediate].key)'
  <2>1. configuration.signedBy \in Versions
        /\ documents[Intermediate].key \in Versions
    BY DEF Configuration, TypeInv, KeyDocument, Keys
  <2>2. QED
    BY <1>2, <2>1, VerifiesLater DEF Complete
<1>4. QED
  BY <1>2, <1>3 DEF Complete, Registered

(* What another run of the tool holds is still so after a step.            *)
LEMMA CommandLater ==
  ASSUME TypeInv, TypeInv', Later, NEW held \in CommandState,
         CommandHolds(held)
  PROVE  CommandHolds(held)'
<1>1. CASE held.name = "none" /\ held.pc = "idle"
  BY <1>1 DEF CommandHolds
<1>2. CASE held.name = Leaf /\ HoldsLeaf(held)
  <2>1. documents'[Intermediate] = documents[Intermediate]
    BY <1>2 DEF HoldsLeaf, Later, Keys
  <2>2. held.document.signedBy \in Versions /\ held.document.issuer \in Versions
    BY DEF CommandState, KeyDocument
  <2>3. Verifies(held.document.signedBy, held.document.issuer) =>
          Verifies(held.document.signedBy, held.document.issuer)'
    BY <2>2, VerifiesLater
  <2>4. HoldsLeaf(held)'
    BY <1>2, <2>1, <2>3 DEF HoldsLeaf, Registered
  <2>5. QED
    BY <1>2, <2>4 DEF CommandHolds
<1>3. CASE held.name = Intermediate /\ HoldsIntermediate(held)
  <2>1. /\ held.document.key \in Nat /\ held.document.certified \in Nat
        /\ vault[Intermediate] \in Nat /\ vault'[Intermediate] \in Nat
    BY MaxVersionAssumption
    DEF CommandState, KeyDocument, Versions, TypeInv, Keys
  <2>2. HoldsIntermediate(held)'
    BY <1>3, <2>1 DEF HoldsIntermediate, Later
  <2>3. QED
    BY <1>3, <2>2 DEF CommandHolds
<1>4. QED
  BY <1>1, <1>2, <1>3 DEF CommandHolds

(* What another handler holds is still so after a step.                    *)
LEMMA HandlerLater ==
  ASSUME TypeInv, TypeInv', Later, NEW held \in HandlerState,
         HandlerHolds(held)
  PROVE  HandlerHolds(held)'
<1>1. held.configuration \in Configuration
  BY DEF HandlerState
<1>2. Complete(held.configuration) => Complete(held.configuration)'
  BY <1>1, CompleteLater
<1>3. QED
  BY <1>2 DEF HandlerHolds, Later, Registered

(* The registered leaf key is still right after a step that registers      *)
(* none.                                                                   *)
LEMMA LeafLater ==
  ASSUME TypeInv, TypeInv', LeafInv, Later, UNCHANGED documents
  PROVE  LeafInv'
<1>1. documents[Leaf].signedBy \in Versions /\ documents[Leaf].issuer \in Versions
  BY DEF TypeInv, KeyDocument, Keys
<1>2. Verifies(documents[Leaf].signedBy, documents[Leaf].issuer) =>
        Verifies(documents[Leaf].signedBy, documents[Leaf].issuer)'
  BY <1>1, VerifiesLater
<1>3. QED
  BY <1>2 DEF LeafInv, LeafHolds, Registered

(* A step that registers nothing and publishes nothing keeps all that a    *)
(* run or a handler does not change itself.                                *)
LEMMA KeepsInv ==
  ASSUME KeysInv, TypeInv', UNCHANGED <<documents, blob, cdn>>,
         vault'[Intermediate] >= vault[Intermediate],
         pending' <= vault'[Intermediate], merged' <= vault'[Intermediate],
         \A c \in Commands :
           command'[c] = command[c] \/ CommandHolds(command[c])',
         \A h \in Handlers :
           handler'[h] = handler[h] \/ HandlerHolds(handler[h])'
  PROVE  KeysInv'
<1>1. Later
  BY DEF Later
<1>2. VersionsInv'
  <2>1. /\ vault[Intermediate] \in Nat /\ vault'[Intermediate] \in Nat
        /\ documents[Intermediate].key \in Nat
        /\ documents[Intermediate].certified \in Nat
    BY MaxVersionAssumption DEF KeysInv, TypeInv, KeyDocument, Versions, Keys
  <2>2. QED
    BY <2>1 DEF KeysInv, VersionsInv
<1>3. CommandsInv'
  <2> SUFFICES ASSUME NEW c \in Commands PROVE CommandHolds(command[c])'
    BY DEF CommandsInv
  <2>1. CASE command'[c] = command[c]
    <3>1. PICK held \in CommandState : held = command[c] /\ CommandHolds(held)
      BY DEF KeysInv, TypeInv, CommandsInv
    <3>2. CommandHolds(held)'
      BY <1>1, <3>1, CommandLater DEF KeysInv
    <3>3. QED
      BY <2>1, <3>1, <3>2
      DEF CommandHolds, HoldsLeaf, HoldsIntermediate, Registered
  <2>2. QED
    BY <2>1
<1>4. HandlersInv'
  <2> SUFFICES ASSUME NEW h \in Handlers PROVE HandlerHolds(handler[h])'
    BY DEF HandlersInv
  <2>1. CASE handler'[h] = handler[h]
    <3>1. PICK held \in HandlerState : held = handler[h] /\ HandlerHolds(held)
      BY DEF KeysInv, TypeInv, HandlersInv
    <3>2. HandlerHolds(held)'
      BY <1>1, <3>1, HandlerLater DEF KeysInv
    <3>3. QED
      BY <2>1, <3>1, <3>2 DEF HandlerHolds, Complete, Registered
  <2>2. QED
    BY <2>1
<1>5. PublishedInv'
  BY <1>1, CompleteLater DEF KeysInv, TypeInv, PublishedInv
<1>6. LeafInv'
  BY <1>1, LeafLater DEF KeysInv
<1>7. QED
  BY <1>2, <1>3, <1>4, <1>5, <1>6 DEF KeysInv

----------------------------------------------------------------------------
(* The vault and the command line tool *)

(* What becomes of a run, and of no other.                                 *)
LEMMA OneCommand ==
  ASSUME TypeInv, NEW c \in Commands, NEW held \in CommandState,
         command' = [command EXCEPT ![c] = held]
  PROVE  /\ command' \in [Commands -> CommandState]
         /\ command'[c] = held
         /\ \A d \in Commands : d # c => command'[d] = command[d]
BY DEF TypeInv

(* A certificate request that makes a version of the intermediate key      *)
(* touches no document and outdates what was signed before.                *)
LEMMA RequestCertificateInv ==
  ASSUME KeysInv, RequestCertificate
  PROVE  KeysInv'
<1>1. /\ vault[Intermediate] \in Nat /\ vault[Intermediate] + 1 \in Versions
      /\ merged \in Nat
  BY MaxVersionAssumption
  DEF RequestCertificate, KeysInv, TypeInv, Versions, Keys
<1>2. /\ vault' \in [Keys -> Versions]
      /\ vault'[Intermediate] = vault[Intermediate] + 1
  BY <1>1 DEF RequestCertificate, KeysInv, TypeInv, Keys
<1>3. TypeInv'
  BY <1>1, <1>2 DEF RequestCertificate, KeysInv, TypeInv, store
<1>4. QED
  BY <1>1, <1>2, <1>3, KeepsInv
  DEF RequestCertificate, store, KeysInv, VersionsInv

(* A run of the tool that changes nothing but what it holds.               *)
LEMMA CommandStep ==
  ASSUME KeysInv, NEW c \in Commands, NEW held \in CommandState,
         command' = [command EXCEPT ![c] = held],
         CommandHolds(held),
         UNCHANGED <<vault, pending, merged, handler, store>>
  PROVE  KeysInv'
<1>1. TypeInv'
  BY OneCommand DEF KeysInv, TypeInv, store
<1>2. CommandHolds(command[c])'
  <2>1. command'[c] = held
    BY OneCommand DEF KeysInv
  <2>2. UNCHANGED <<vault, documents>>
    BY DEF store
  <2>3. QED
    BY <2>1, <2>2
    DEF CommandHolds, HoldsLeaf, HoldsIntermediate, Registered, Verifies
<1>3. \A d \in Commands : d # c => command'[d] = command[d]
  BY OneCommand DEF KeysInv
<1>4. vault[Intermediate] \in Nat
  BY VersionsType DEF KeysInv
<1>5. QED
  BY <1>1, <1>2, <1>3, <1>4, KeepsInv DEF store, KeysInv, VersionsInv

(* A run that holds nothing holds nothing wrong.                           *)
LEMMA IdleHolds == CommandHolds(NoCommand)
BY DEF CommandHolds, NoCommand

(* A run that stops keeps the invariant, wherever it stops.                *)
LEMMA AbortCommandInv ==
  ASSUME KeysInv, NEW c \in Commands, AbortCommand(c)
  PROVE  KeysInv'
BY IdleTypes, IdleHolds, CommandStep DEF AbortCommand

(* A run for the leaf key takes the chain of its registered issuer.        *)
LEMMA ReadIssuerInv ==
  ASSUME KeysInv, NEW c \in Commands, ReadIssuer(c)
  PROVE  KeysInv'
<1> DEFINE document ==
             [Unregistered EXCEPT !.issuer = documents[Intermediate].certified]
           held == [pc |-> "creating", name |-> Leaf, document |-> document]
<1>1. documents[Intermediate].certified \in Versions
  BY DEF KeysInv, TypeInv, Keys, KeyDocument
<1>2. document \in KeyDocument
  BY <1>1, UnregisteredType DEF KeyDocument
<1>3. document.issuer = documents[Intermediate].certified
  BY DEF Unregistered
<1> HIDE DEF document
<1>4. held \in CommandState
  BY <1>2 DEF CommandState
<1>5. CommandHolds(held)
  BY <1>3 DEF ReadIssuer, CommandHolds, HoldsLeaf, Registered
<1> HIDE DEF held
<1>6. command' = [command EXCEPT ![c] = held]
  BY DEF ReadIssuer, held, document
<1>7. QED
  BY <1>4, <1>5, <1>6, CommandStep DEF ReadIssuer

(* A new version of the leaf key is certified before it is registered.     *)
LEMMA CreateEcKeyInv ==
  ASSUME KeysInv, NEW c \in Commands, CreateEcKey(c)
  PROVE  KeysInv'
<1>1. command[c] \in CommandState /\ CommandHolds(command[c])
  BY DEF KeysInv, TypeInv, CommandsInv
<1>2. vault[Leaf] + 1 \in Versions
  BY MaxVersionAssumption DEF CreateEcKey, KeysInv, TypeInv, Versions, Keys
<1>3. /\ vault' \in [Keys -> Versions]
      /\ vault'[Intermediate] = vault[Intermediate]
  BY <1>2 DEF CreateEcKey, KeysInv, TypeInv, Keys, Intermediate, Leaf
<1>4. PICK held \in CommandState :
        /\ command' = [command EXCEPT ![c] = held]
        /\ held.pc = "signing" /\ held.name = command[c].name
        /\ held.document.issuer = command[c].document.issuer
  <2> DEFINE held == [command[c] EXCEPT !.pc = "signing",
                                        !.document.key = vault[Leaf] + 1]
  <2>1. command' = [command EXCEPT ![c] = held]
    BY Zenon DEF CreateEcKey
  <2>2. /\ held \in CommandState
        /\ held.pc = "signing" /\ held.name = command[c].name
        /\ held.document.issuer = command[c].document.issuer
    BY <1>1, <1>2 DEF CommandState, KeyDocument
  <2>3. QED
    BY <2>1, <2>2
<1>5. TypeInv'
  BY <1>3, <1>4, OneCommand DEF CreateEcKey, KeysInv, TypeInv, store
<1>6. CommandHolds(command[c])'
  <2>1. command[c].name = Leaf /\ HoldsLeaf(command[c])
    BY <1>1 DEF CreateEcKey, CommandHolds, HoldsIntermediate
  <2>2. command'[c] = held
    BY <1>4, OneCommand DEF KeysInv
  <2>3. QED
    BY <1>4, <2>1, <2>2
    DEF CommandHolds, HoldsLeaf, Registered, CreateEcKey, store
<1>7. \A d \in Commands : d # c => command'[d] = command[d]
  BY <1>4, OneCommand DEF KeysInv
<1>8. vault[Intermediate] \in Nat
  BY VersionsType DEF KeysInv
<1>9. UNCHANGED <<pending, merged, handler, documents, blob, cdn>>
  BY DEF CreateEcKey, store
<1>10. QED
  BY <1>3, <1>5, <1>6, <1>7, <1>8, <1>9, KeepsInv DEF KeysInv, VersionsInv

(* The signature is made with the newest version of the issuer's key,      *)
(* which may be newer than the one that is registered.                     *)
LEMMA CreateLeafCertificateInv ==
  ASSUME KeysInv, NEW c \in Commands, CreateLeafCertificate(c)
  PROVE  KeysInv'
<1> DEFINE held == [command[c] EXCEPT
                      !.pc = "persisting",
                      !.document.certified = command[c].document.key,
                      !.document.signedBy = vault[Intermediate]]
           document == held.document
<1>1. command[c] \in CommandState /\ CommandHolds(command[c])
  BY DEF KeysInv, TypeInv, CommandsInv
<1>2. vault[Intermediate] \in Versions
  BY DEF KeysInv, TypeInv, Keys
<1>3. /\ held \in CommandState
      /\ held.pc = "persisting" /\ held.name = command[c].name
      /\ document.certified = document.key
      /\ document.signedBy = vault[Intermediate]
      /\ document.issuer = command[c].document.issuer
  BY <1>1, <1>2 DEF CommandState, KeyDocument
<1>4. command' = [command EXCEPT ![c] = held]
  BY Zenon DEF CreateLeafCertificate
<1>5. held \in CommandState
  BY <1>3
<1> HIDE DEF held
<1>6. command[c].name = Leaf /\ HoldsLeaf(command[c])
  BY <1>1 DEF CreateLeafCertificate, CommandHolds, HoldsIntermediate
<1>7. Verifies(document.signedBy, document.issuer)
  <2>1. /\ documents[Intermediate].certified \in Nat
        /\ vault[Intermediate] \in Nat
    BY MaxVersionAssumption DEF KeysInv, TypeInv, KeyDocument, Versions, Keys
  <2>2. document.issuer <= vault[Intermediate]
    BY <1>3, <1>6 DEF HoldsLeaf, KeysInv, VersionsInv
  <2>3. QED
    BY <1>3, <1>6, <2>1, <2>2 DEF Verifies, HoldsLeaf
<1>8. CommandHolds(held)
  BY <1>3, <1>6, <1>7 DEF CommandHolds, HoldsLeaf
<1>9. QED
  BY <1>4, <1>5, <1>8, CommandStep DEF CreateLeafCertificate

(* Merging a certificate makes no version.                                 *)
LEMMA MergeCertificateInv ==
  ASSUME KeysInv, NEW c \in Commands, MergeCertificate(c)
  PROVE  KeysInv'
<1> DEFINE held == [NoCommand EXCEPT !.pc = "reading", !.name = Intermediate]
<1>1. /\ held \in CommandState
      /\ held.pc = "reading" /\ held.name = Intermediate
      /\ held.document = Unregistered
  BY UnregisteredType DEF NoCommand, CommandState
<1> HIDE DEF held
<1>2. command' = [command EXCEPT ![c] = held]
  BY DEF MergeCertificate, held
<1>3. 0 \in Versions /\ vault[Intermediate] \in Nat
  BY MaxVersionAssumption, VersionsType DEF KeysInv, Versions
<1>4. TypeInv'
  BY <1>1, <1>2, <1>3, OneCommand DEF MergeCertificate, KeysInv, TypeInv, store
<1>5. command'[c] = held /\ \A d \in Commands : d # c => command'[d] = command[d]
  BY <1>1, <1>2, OneCommand DEF KeysInv
<1>6. CommandHolds(command[c])'
  <2>1. UNCHANGED vault
    BY DEF MergeCertificate
  <2>2. /\ held.document.key <= vault[Intermediate]
        /\ held.document.certified <= vault[Intermediate]
    BY <1>1, <1>3 DEF Unregistered
  <2>3. QED
    BY <1>1, <1>5, <2>1, <2>2 DEF CommandHolds, HoldsIntermediate
<1>7. QED
  BY <1>3, <1>4, <1>5, <1>6, KeepsInv
  DEF MergeCertificate, store, KeysInv, VersionsInv

(* The certificate and the key are read in either order.                   *)
LEMMA ReadPartsInv ==
  ASSUME KeysInv, NEW c \in Commands, NEW document \in KeyDocument,
         ReadParts(c, document),
         document.key <= vault[Intermediate],
         document.certified <= vault[Intermediate]
  PROVE  KeysInv'
<1>1. command[c] \in CommandState /\ CommandHolds(command[c])
  BY DEF KeysInv, TypeInv, CommandsInv
<1>2. command[c].name = Intermediate
  BY <1>1 DEF ReadParts, CommandHolds, HoldsLeaf
<1>3. PICK pc \in {"persisting", "reading"} :
        command' = [command EXCEPT ![c].document = document, ![c].pc = pc]
  BY DEF ReadParts
<1> DEFINE held == [command[c] EXCEPT !.document = document, !.pc = pc]
<1>4. command' = [command EXCEPT ![c] = held]
  BY <1>3, Zenon
<1>5. /\ held \in CommandState
      /\ held.pc = pc /\ held.name = Intermediate /\ held.document = document
  BY <1>1, <1>2 DEF CommandState
<1> HIDE DEF held
<1>6. CommandHolds(held)
  BY <1>5 DEF CommandHolds, HoldsIntermediate
<1>7. QED
  BY <1>4, <1>5, <1>6, CommandStep DEF ReadParts

(* A run for the intermediate key reads versions that exist, one of them   *)
(* possibly newer than the other.                                          *)
LEMMA GetPartsInv ==
  ASSUME KeysInv, NEW c \in Commands, GetCertificate(c) \/ GetKey(c)
  PROVE  KeysInv'
<1>1. command[c] \in CommandState /\ CommandHolds(command[c])
  BY DEF KeysInv, TypeInv, CommandsInv
<1>2. /\ command[c].document \in KeyDocument
      /\ command[c].document.key <= vault[Intermediate]
      /\ command[c].document.certified <= vault[Intermediate]
  BY <1>1 DEF GetCertificate, GetKey, ReadParts, CommandHolds, HoldsLeaf,
              HoldsIntermediate, CommandState
<1>3. CASE GetCertificate(c)
  <2> DEFINE document == [command[c].document EXCEPT !.certified = merged]
  <2>1. /\ document \in KeyDocument
        /\ document.key = command[c].document.key
        /\ document.certified = merged
    BY <1>2 DEF KeysInv, TypeInv, KeyDocument
  <2>2. ReadParts(c, document)
    BY <1>3 DEF GetCertificate
  <2> HIDE DEF document
  <2>3. QED
    BY <1>2, <2>1, <2>2, ReadPartsInv DEF KeysInv, VersionsInv
<1>4. CASE GetKey(c)
  <2> DEFINE document == [command[c].document EXCEPT !.key = vault[Intermediate]]
  <2>1. /\ document \in KeyDocument
        /\ document.key = vault[Intermediate]
        /\ document.certified = command[c].document.certified
    BY <1>2 DEF KeysInv, TypeInv, KeyDocument, Keys
  <2>2. ReadParts(c, document)
    BY <1>4 DEF GetKey
  <2> HIDE DEF document
  <2>3. vault[Intermediate] <= vault[Intermediate]
    BY VersionsType DEF KeysInv
  <2>4. QED
    BY <1>2, <2>1, <2>2, <2>3, ReadPartsInv
<1>5. QED
  BY <1>3, <1>4

(* A key is registered once, with what its run holds.                      *)
LEMMA PersistInv ==
  ASSUME KeysInv, NEW c \in Commands, Persist(c)
  PROVE  KeysInv'
<1> DEFINE held == command[c]
           k == held.name
<1>1. /\ held \in CommandState /\ CommandHolds(held) /\ held.pc = "persisting"
      /\ PersistKey(c, k)
      /\ UNCHANGED <<edition, vault, pending, merged, handler, blob, cdn>>
  BY DEF Persist, KeysInv, TypeInv, CommandsInv
<1>2. command' = [command EXCEPT ![c] = NoCommand]
  BY <1>1 DEF PersistKey
<1>3. held.document \in KeyDocument /\ k \in Keys
  BY <1>1 DEF CommandState, CommandHolds, Keys
<1>4. documents' \in [Keys -> KeyDocument]
  BY <1>1, <1>3 DEF PersistKey, KeysInv, TypeInv
<1>5. TypeInv'
  BY <1>1, <1>2, <1>4, IdleTypes, OneCommand DEF KeysInv, TypeInv
<1>6. CASE Registered(k)
  <2>1. UNCHANGED documents
    BY <1>1, <1>6 DEF PersistKey, Registered
  <2>2. QED
    BY <1>1, <1>2, <2>1, IdleTypes, IdleHolds, CommandStep DEF store
<1>7. CASE ~Registered(k)
  <2>1. documents' = [documents EXCEPT ![k] = held.document]
    BY <1>1, <1>7 DEF PersistKey, Registered
  <2>2. /\ documents'[k] = held.document
        /\ \A j \in Keys : j # k => documents'[j] = documents[j]
    BY <1>3, <2>1 DEF KeysInv, TypeInv
  <2>3. Later
    BY <1>1, <1>7, <2>2, VersionsType DEF Later, KeysInv
  <2>4. VersionsInv'
    <3>1. k = Intermediate =>
            /\ held.document.key <= vault[Intermediate]
            /\ held.document.certified <= vault[Intermediate]
      BY <1>1 DEF CommandHolds, HoldsIntermediate, Intermediate, Leaf
    <3>2. CASE k = Intermediate
      BY <1>1, <2>2, <3>1, <3>2 DEF KeysInv, VersionsInv
    <3>3. CASE k # Intermediate
      <4>1. documents'[Intermediate] = documents[Intermediate]
        BY <2>2, <3>3 DEF Keys
      <4>2. QED
        BY <1>1, <4>1 DEF KeysInv, VersionsInv
    <3>4. QED
      BY <3>2, <3>3
  <2>5. CommandsInv'
    <3> SUFFICES ASSUME NEW d \in Commands PROVE CommandHolds(command[d])'
      BY DEF CommandsInv
    <3>1. CASE d = c
      <4>1. command'[d] = NoCommand
        BY <1>2, <3>1, IdleTypes, OneCommand DEF KeysInv
      <4>2. QED
        BY <4>1 DEF CommandHolds, NoCommand
    <3>2. CASE d # c
      <4>1. PICK kept \in CommandState : kept = command[d] /\ CommandHolds(kept)
        BY DEF KeysInv, TypeInv, CommandsInv
      <4>2. CommandHolds(kept)'
        BY <1>5, <2>3, <4>1, CommandLater DEF KeysInv
      <4>3. command'[d] = kept
        BY <1>2, <3>2, <4>1, IdleTypes, OneCommand DEF KeysInv
      <4>4. QED
        BY <4>2, <4>3 DEF CommandHolds, HoldsLeaf, HoldsIntermediate, Registered
    <3>3. QED
      BY <3>1, <3>2
  <2>6. HandlersInv'
    <3> SUFFICES ASSUME NEW h \in Handlers PROVE HandlerHolds(handler[h])'
      BY DEF HandlersInv
    <3>1. PICK kept \in HandlerState : kept = handler[h] /\ HandlerHolds(kept)
      BY DEF KeysInv, TypeInv, HandlersInv
    <3>2. HandlerHolds(kept)'
      BY <1>5, <2>3, <3>1, HandlerLater DEF KeysInv
    <3>3. QED
      BY <1>1, <3>1, <3>2 DEF HandlerHolds, Complete, Registered
  <2>7. PublishedInv'
    BY <1>1, <1>5, <2>3, CompleteLater DEF KeysInv, TypeInv, PublishedInv
  <2>8. LeafInv'
    <3>1. CASE k = Leaf
      <4>1. HoldsLeaf(held)
        BY <1>1, <3>1 DEF CommandHolds, Intermediate, Leaf
      <4>2. documents'[Intermediate] = documents[Intermediate]
        BY <2>2, <3>1 DEF Keys, Intermediate, Leaf
      <4>3. /\ documents'[Leaf].certified = documents'[Leaf].key
            /\ documents'[Leaf].issuer = documents'[Intermediate].certified
            /\ Verifies(held.document.signedBy, held.document.issuer)
        BY <1>1, <2>2, <3>1, <4>1, <4>2 DEF HoldsLeaf
      <4>4. UNCHANGED vault
        BY <1>1
      <4>5. Verifies(documents[Leaf].signedBy, documents[Leaf].issuer)'
        BY <2>2, <3>1, <4>3, <4>4 DEF Verifies
      <4>6. Registered(Intermediate)'
        BY <4>1, <4>2 DEF HoldsLeaf, Registered
      <4>7. QED
        BY <4>3, <4>5, <4>6 DEF LeafInv, LeafHolds
    <3>2. CASE k = Intermediate
      <4>1. ~Registered(Leaf)
        BY <1>7, <3>2 DEF KeysInv, LeafInv
      <4>2. ~Registered(Leaf)'
        BY <2>2, <3>2, <4>1 DEF Registered, Keys, Intermediate, Leaf
      <4>3. QED
        BY <4>2 DEF LeafInv, LeafHolds, Registered
    <3>3. QED
      BY <1>3, <3>1, <3>2 DEF Keys
  <2>9. QED
    BY <1>5, <2>4, <2>5, <2>6, <2>7, <2>8 DEF KeysInv
<1>8. QED
  BY <1>6, <1>7

----------------------------------------------------------------------------
(* The publication *)

(* A handler that changes nothing but what it holds.                       *)
LEMMA HandlerStep ==
  ASSUME KeysInv, NEW h \in Handlers, NEW held \in HandlerState,
         handler' = [handler EXCEPT ![h] = held],
         HandlerHolds(held),
         UNCHANGED <<vault, pending, merged, command, store>>
  PROVE  KeysInv'
<1>1. TypeInv'
  BY DEF KeysInv, TypeInv, store
<1>2. /\ handler'[h] = held
      /\ \A g \in Handlers : g # h => handler'[g] = handler[g]
  BY DEF KeysInv, TypeInv
<1>3. HandlerHolds(handler[h])'
  <2>1. UNCHANGED <<vault, documents>>
    BY DEF store
  <2>2. QED
    BY <1>2, <2>1 DEF HandlerHolds, Complete, Registered, Verifies
<1>4. vault[Intermediate] \in Nat
  BY VersionsType DEF KeysInv
<1>5. UNCHANGED <<documents, blob, cdn>>
  BY DEF store
<1>6. QED
  BY <1>1, <1>2, <1>3, <1>4, <1>5, KeepsInv DEF KeysInv, VersionsInv

(* A handler that holds nothing holds nothing wrong.                       *)
LEMMA IdleHandlerHolds == HandlerHolds(NoHandler)
BY DEF HandlerHolds, NoHandler

(* A handler that fails keeps the invariant.                               *)
LEMMA FailHandlerInv ==
  ASSUME KeysInv, NEW h \in Handlers, FailHandler(h)
  PROVE  KeysInv'
BY IdleTypes, IdleHandlerHolds, HandlerStep DEF FailHandler

(* A handler starts with nothing read.                                     *)
LEMMA StartConfigurationInv ==
  ASSUME KeysInv, NEW h \in Handlers, StartConfiguration(h)
  PROVE  KeysInv'
<1> DEFINE held == [handler[h] EXCEPT !.pc = "reading"]
<1>1. handler[h] \in HandlerState /\ HandlerHolds(handler[h])
  BY DEF KeysInv, TypeInv, HandlersInv
<1>2. /\ held \in HandlerState
      /\ held.pc = "reading" /\ held.configuration = handler[h].configuration
  BY <1>1 DEF HandlerState
<1>3. \A k \in Keys : held.configuration.keys[k] = Unregistered
  BY <1>1, <1>2 DEF StartConfiguration, HandlerHolds, Unpublished
<1>4. handler' = [handler EXCEPT ![h] = held]
  BY DEF StartConfiguration
<1> HIDE DEF held
<1>5. HandlerHolds(held)
  BY <1>2, <1>3 DEF HandlerHolds
<1>6. QED
  BY <1>2, <1>4, <1>5, HandlerStep DEF StartConfiguration

(* A handler reads a key as it is registered, or as missing.               *)
LEMMA ReadKeyInv ==
  ASSUME KeysInv, NEW h \in Handlers, NEW k \in Keys, ReadKey(h, k)
  PROVE  KeysInv'
<1> DEFINE held == [handler[h] EXCEPT !.configuration.keys[k] = documents[k]]
           keys == handler[h].configuration.keys
<1>1. handler[h] \in HandlerState /\ HandlerHolds(handler[h])
  BY DEF KeysInv, TypeInv, HandlersInv
<1>2. documents[k] \in KeyDocument
  BY DEF KeysInv, TypeInv
<1>3. handler[h].configuration \in Configuration /\ keys \in [Keys -> KeyDocument]
  BY <1>1 DEF HandlerState, Configuration
<1>4. handler' = [handler EXCEPT ![h] = held]
  BY Zenon DEF ReadKey
<1>5. /\ held.pc = handler[h].pc
      /\ held.configuration = [handler[h].configuration EXCEPT
                                 !.keys[k] = documents[k]]
      /\ held = [handler[h] EXCEPT !.configuration = held.configuration]
  BY <1>1 DEF HandlerState
<1>6. held.configuration.keys = [keys EXCEPT ![k] = documents[k]]
  BY <1>3, <1>5 DEF Configuration
<1>7. held.configuration \in Configuration
  BY <1>2, <1>3, <1>5, <1>6 DEF Configuration
<1>8. held \in HandlerState
  BY <1>1, <1>5, <1>7 DEF HandlerState
<1>9. \A j \in Keys :
        held.configuration.keys[j] = IF j = k THEN documents[k] ELSE keys[j]
  BY <1>3, <1>6
<1> HIDE DEF held
<1>10. HandlerHolds(held)
  BY <1>1, <1>5, <1>9 DEF ReadKey, HandlerHolds
<1>11. QED
  BY <1>4, <1>8, <1>10, HandlerStep DEF ReadKey

(* When it signs, a handler has read every key, and each as registered.    *)
LEMMA SignJwtInv ==
  ASSUME KeysInv, NEW h \in Handlers, SignJwt(h)
  PROVE  KeysInv'
<1> DEFINE held == [handler[h] EXCEPT !.pc = "uploading",
                                      !.configuration.signedBy = vault[Intermediate]]
<1>1. handler[h] \in HandlerState /\ HandlerHolds(handler[h])
  BY DEF KeysInv, TypeInv, HandlersInv
<1>2. vault[Intermediate] \in Versions
  BY DEF KeysInv, TypeInv, Keys
<1>3. /\ held \in HandlerState
      /\ held.pc = "uploading"
      /\ held.configuration.keys = handler[h].configuration.keys
      /\ held.configuration.signedBy = vault[Intermediate]
  BY <1>1, <1>2 DEF HandlerState, Configuration
<1>4. handler' = [handler EXCEPT ![h] = held]
  BY Zenon DEF SignJwt
<1> HIDE DEF held
<1>5. \A k \in Keys : /\ held.configuration.keys[k] = documents[k]
                      /\ Registered(k)
  BY <1>1, <1>3 DEF SignJwt, HandlerHolds, Registered
<1>6. held.configuration.keys = documents
  <2>1. /\ held.configuration.keys \in [Keys -> KeyDocument]
        /\ documents \in [Keys -> KeyDocument]
    BY <1>3 DEF HandlerState, Configuration, KeysInv, TypeInv
  <2>2. QED
    BY <1>5, <2>1
<1>7. Verifies(held.configuration.signedBy, documents[Intermediate].key)
  <2>1. /\ documents[Intermediate].key \in Nat /\ vault[Intermediate] \in Nat
        /\ documents[Intermediate].key <= vault[Intermediate]
    BY MaxVersionAssumption
    DEF KeysInv, VersionsInv, TypeInv, KeyDocument, Versions, Keys
  <2>2. QED
    BY <1>3, <2>1 DEF Verifies
<1>8. HandlerHolds(held)
  BY <1>3, <1>5, <1>6, <1>7 DEF HandlerHolds, Complete
<1>9. QED
  BY <1>3, <1>4, <1>8, HandlerStep DEF SignJwt

(* A step that moves nothing but the two copies of the configuration.      *)
LEMMA CopiesStep ==
  ASSUME KeysInv, TypeInv', PublishedInv',
         UNCHANGED <<vault, pending, merged, documents, command>>,
         \A h \in Handlers :
           handler'[h] = handler[h] \/ HandlerHolds(handler[h])'
  PROVE  KeysInv'
<1>1. VersionsInv' /\ CommandsInv' /\ LeafInv'
  BY DEF KeysInv, VersionsInv, CommandsInv, CommandHolds, HoldsLeaf,
         HoldsIntermediate, LeafInv, LeafHolds, Registered, Verifies
<1>2. HandlersInv'
  BY DEF KeysInv, HandlersInv, HandlerHolds, Complete, Registered, Verifies
<1>3. QED
  BY <1>1, <1>2 DEF KeysInv

(* What is uploaded is complete.                                           *)
LEMMA UploadFileInv ==
  ASSUME KeysInv, NEW h \in Handlers, UploadFile(h)
  PROVE  KeysInv'
<1>1. handler[h] \in HandlerState /\ HandlerHolds(handler[h])
  BY DEF KeysInv, TypeInv, HandlersInv
<1>2. Complete(handler[h].configuration)
  BY <1>1 DEF UploadFile, HandlerHolds
<1>3. /\ handler' \in [Handlers -> HandlerState]
      /\ handler'[h].pc = "purging"
      /\ handler'[h].configuration = handler[h].configuration
      /\ \A g \in Handlers : g # h => handler'[g] = handler[g]
  BY <1>1 DEF UploadFile, KeysInv, TypeInv, HandlerState
<1>4. TypeInv'
  BY <1>1, <1>3 DEF UploadFile, KeysInv, TypeInv, HandlerState
<1>5. PublishedInv' /\ HandlerHolds(handler[h])'
  BY <1>2, <1>3
  DEF UploadFile, HandlerHolds, KeysInv, PublishedInv, Complete, Registered,
      Verifies
<1>6. QED
  BY <1>3, <1>4, <1>5, CopiesStep DEF UploadFile

(* A purge leaves no copy at the front door.                               *)
LEMMA PurgeContentInv ==
  ASSUME KeysInv, NEW h \in Handlers, PurgeContent(h)
  PROVE  KeysInv'
<1>1. /\ handler' \in [Handlers -> HandlerState]
      /\ handler'[h] = NoHandler
      /\ \A g \in Handlers : g # h => handler'[g] = handler[g]
  BY IdleTypes DEF PurgeContent, KeysInv, TypeInv
<1>2. TypeInv'
  BY <1>1, UnpublishedType DEF PurgeContent, KeysInv, TypeInv
<1>3. PublishedInv'
  BY DEF PurgeContent, KeysInv, PublishedInv, Complete, Registered, Verifies
<1>4. HandlerHolds(handler[h])'
  BY <1>1 DEF HandlerHolds, NoHandler
<1>5. QED
  BY <1>1, <1>2, <1>3, <1>4, CopiesStep DEF PurgeContent

(* The front door caches the blob or forgets it.                           *)
LEMMA FrontDoorInv ==
  ASSUME KeysInv, CacheBlob \/ PurgedByOthers
  PROVE  KeysInv'
<1>1. TypeInv'
  BY UnpublishedType DEF CacheBlob, PurgedByOthers, KeysInv, TypeInv
<1>2. PublishedInv'
  BY DEF CacheBlob, PurgedByOthers, KeysInv, PublishedInv, Complete, Registered,
         Verifies
<1>3. QED
  BY <1>1, <1>2, CopiesStep DEF CacheBlob, PurgedByOthers

(* Every step keeps the invariant.                                         *)
LEMMA NextKeysInv == KeysInv /\ [Next]_vars => KeysInv'
<1> SUFFICES ASSUME KeysInv, [Next]_vars PROVE KeysInv'
  OBVIOUS
<1>1. ASSUME NEW c \in Commands,
             CreateLeafKey(c) \/ CompleteIntermediate(c) \/ Persist(c)
               \/ AbortCommand(c)
      PROVE  KeysInv'
  BY <1>1, ReadIssuerInv, CreateEcKeyInv, CreateLeafCertificateInv,
     MergeCertificateInv, GetPartsInv, PersistInv, AbortCommandInv
  DEF CreateLeafKey, CompleteIntermediate
<1>2. ASSUME NEW h \in Handlers, Publish(h) PROVE KeysInv'
  BY <1>2, StartConfigurationInv, ReadKeyInv, SignJwtInv, UploadFileInv,
     PurgeContentInv, FailHandlerInv
  DEF Publish, CreateEntityConfiguration
<1>3. CASE GenerateEntityConfigurationV1 \/ GenerateEntityConfigurationV2
           \/ CreateEntityConfigurationV1 \/ CreateEntityConfigurationV2
  BY <1>2, <1>3
  DEF GenerateEntityConfigurationV1, GenerateEntityConfigurationV2,
      CreateEntityConfigurationV1, CreateEntityConfigurationV2, Handlers
<1>4. CASE UNCHANGED vars
  <2>1. TypeInv'
    BY <1>4 DEF vars, KeysInv, TypeInv
  <2>2. PublishedInv'
    BY <1>4 DEF vars, KeysInv, PublishedInv, Complete, Registered, Verifies
  <2>3. QED
    BY <1>4, <2>1, <2>2, CopiesStep DEF vars
<1>5. QED
  BY <1>1, <1>3, <1>4, RequestCertificateInv, FrontDoorInv DEF Next

----------------------------------------------------------------------------
(* Theorems *)

(* The invariant of the tool and the handlers: what each holds between two *)
(* calls is still registered, whatever the others did meanwhile.           *)
THEOREM SigningKeysCorrect == Spec => []KeysInv
BY InitKeysInv, NextKeysInv, PTL DEF Spec

(* Every variable keeps its type in every reachable state.                 *)
THEOREM SigningKeysTypeOK == Spec => []TypeOK
<1>1. KeysInv => TypeOK
  BY DEF KeysInv, TypeInv, TypeOK, CommandState, HandlerState
<1>2. QED
  BY <1>1, SigningKeysCorrect, PTL

(* A registered leaf key is the one of its certificate, under the chain of *)
(* its registered issuer; an uploaded or cached configuration lists the    *)
(* registered keys; and a signature fails to verify only if the signing    *)
(* key was made again, however the commands overlap and are interrupted.   *)
THEOREM SigningKeysPublishedKeysHold == Spec => []PublishedKeysHold
<1>1. KeysInv => PublishedKeysHold
  BY DEF KeysInv, LeafInv, PublishedInv, Complete, ConfigurationHolds,
         PublishedKeysHold
<1>2. QED
  BY <1>1, SigningKeysCorrect, PTL
=============================================================================
