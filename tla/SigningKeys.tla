---------------------------- MODULE SigningKeys ----------------------------
(***************************************************************************)
(* Signing keys: the command line tool that makes them in Key Vault and    *)
(* registers them in Cosmos DB (packages/io-wallet-key-cli), and the       *)
(* handlers that publish the registered keys in the entity configuration,  *)
(* signed with one of them (io-wallet-user-func).                          *)
(*                                                                         *)
(* A key has a name and, in the vault, versions: making a key again under  *)
(* its name adds a version, and whoever signs by name uses the newest. Its *)
(* document, stored once in the container of its edition, names one        *)
(* version for good. The editions (v1 and v2) share nothing but the vault  *)
(* and the front door, so one of them is looked at. A command is a         *)
(* sequence of awaited calls, and may fail or be interrupted between any   *)
(* two, be run again, and overlap others; so do the timer and HTTP         *)
(* handlers that publish.                                                  *)
(*                                                                         *)
(* Left out: the certificate's fields, trust marks and metadata, which     *)
(* come from the configuration as they are; expiry of the signed document. *)
(***************************************************************************)
EXTENDS Naturals

CONSTANTS Commands,      \* runs of the command line tool that may overlap
          MaxVersion     \* bound on the versions of a key

ASSUME MaxVersionAssumption == MaxVersion \in Nat

Intermediate == "intermediate"   \* certified by the trust anchor, signs
Leaf         == "leaf"           \* certified by the intermediate key
Keys         == {Intermediate, Leaf}
Handlers     == {"timer", "http"}

Versions == 0 .. MaxVersion      \* 0 where there is no version

(* A document: the registered public key, and its certificate chain as the
   version the first certificate is for, the version it was signed with and
   the version of the issuer the rest of the chain is for. *)
KeyDocument == [key : Versions, certified : Versions,
                signedBy : Versions, issuer : Versions]
Unregistered == [key |-> 0, certified |-> 0, signedBy |-> 0, issuer |-> 0]

(* A configuration: the documents of the keys it lists, the key its header
   names, the version that signed it. *)
Configuration == [keys : [Keys -> KeyDocument], signedBy : Versions]
Unpublished   == [keys |-> [k \in Keys |-> Unregistered], signedBy |-> 0]

VARIABLES
  vault,       \* vault[k]: newest version of k
  pending,     \* version of the certificate requested and not yet merged
  merged,      \* version of the last certificate merged
  edition,     \* the edition looked at, "v1" or "v2"
  documents,   \* documents[k]: the document of k in its container
  command,     \* command[c]: where the run is and what it holds
  handler,     \* handler[h]: the same for a handler
  blob,        \* the uploaded configuration
  cdn          \* the copy the front door serves

vars  == <<edition, vault, pending, merged, documents, command, handler, blob, cdn>>
store == <<edition, documents, blob, cdn>>

NoCommand == [pc |-> "idle", name |-> "none", document |-> Unregistered]
NoHandler == [pc |-> "idle", configuration |-> Unpublished]

TypeOK ==
  /\ edition \in {"v1", "v2"}
  /\ vault \in [Keys -> Versions]
  /\ pending \in Versions /\ merged \in Versions
  /\ documents \in [Keys -> KeyDocument]
  /\ \A c \in Commands :
        /\ command[c].pc \in {"idle", "creating", "signing", "reading", "persisting"}
        /\ command[c].document \in KeyDocument
  /\ \A h \in Handlers :
        /\ handler[h].pc \in {"idle", "reading", "uploading", "purging"}
        /\ handler[h].configuration \in Configuration
  /\ blob \in Configuration /\ cdn \in Configuration

Init ==
  /\ edition \in {"v1", "v2"}
  /\ vault = [k \in Keys |-> 0]
  /\ pending = 0 /\ merged = 0
  /\ documents = [k \in Keys |-> Unregistered]
  /\ command = [c \in Commands |-> NoCommand]
  /\ handler = [h \in Handlers |-> NoHandler]
  /\ blob = Unpublished /\ cdn = Unpublished

-----------------------------------------------------------------------------
(* The vault: az keyvault certificate create makes a new version of the key
   and leaves its certificate pending until the signed one is merged. *)
RequestCertificate ==
  /\ pending = 0 /\ vault[Intermediate] < MaxVersion
  /\ vault' = [vault EXCEPT ![Intermediate] = @ + 1]
  /\ pending' = vault[Intermediate] + 1
  /\ UNCHANGED <<merged, command, handler, store>>

-----------------------------------------------------------------------------
(* The command line tool *)

(* createLeafKey up to its first answer: the issuer must be registered. *)
ReadIssuer(c) ==
  /\ command[c].pc = "idle"
  /\ documents[Intermediate] # Unregistered
  /\ command' = [command EXCEPT ![c] =
        [pc |-> "creating", name |-> Leaf,
         document |-> [Unregistered EXCEPT
            !.issuer = documents[Intermediate].certified]]]
  /\ UNCHANGED <<vault, pending, merged, handler, store>>

CreateEcKey(c) ==
  /\ command[c].pc = "creating" /\ vault[Leaf] < MaxVersion
  /\ vault' = [vault EXCEPT ![Leaf] = @ + 1]
  /\ command' = [command EXCEPT ![c].pc = "signing",
                                ![c].document.key = vault[Leaf] + 1]
  /\ UNCHANGED <<pending, merged, handler, store>>

(* createLeafCertificate: for the key just made, by the newest version of the
   issuer's key. *)
CreateLeafCertificate(c) ==
  /\ command[c].pc = "signing"
  /\ command' = [command EXCEPT ![c].pc = "persisting",
                                ![c].document.certified = command[c].document.key,
                                ![c].document.signedBy = vault[Intermediate]]
  /\ UNCHANGED <<vault, pending, merged, handler, store>>

(* completeIntermediate: merging fails when no certificate is pending, as when
   the command is run again after a failure further on. *)
MergeCertificate(c) ==
  /\ command[c].pc = "idle" /\ pending # 0
  /\ merged' = pending /\ pending' = 0
  /\ command' = [command EXCEPT ![c] = [NoCommand EXCEPT
        !.pc = "reading", !.name = Intermediate]]
  /\ UNCHANGED <<vault, handler, store>>

(* registerIntermediateKey reads the certificate and the key in parallel. *)
ReadParts(c, document) ==
  /\ command[c].pc = "reading"
  /\ command' = [command EXCEPT ![c].document = document,
        ![c].pc = IF document.key # 0 /\ document.certified # 0
                  THEN "persisting" ELSE "reading"]
  /\ UNCHANGED <<vault, pending, merged, handler, store>>

GetCertificate(c) ==
  /\ command[c].document.certified = 0
  /\ ReadParts(c, [command[c].document EXCEPT !.certified = merged])

GetKey(c) ==
  /\ command[c].document.key = 0
  /\ ReadParts(c, [command[c].document EXCEPT !.key = vault[Intermediate]])

\* Mutant: the document is written whether or not there is one.
OverwriteKey(c, k) ==
  /\ documents' = [documents EXCEPT ![k] = command[c].document]
  /\ command' = [command EXCEPT ![c] = NoCommand]

(* persistKey creates the document: of a name that has one it fails, and the
   command with it. *)
PersistKey(c, k) ==
  /\ documents' = IF documents[k] = Unregistered
                  THEN [documents EXCEPT ![k] = command[c].document]
                  ELSE documents
  /\ command' = [command EXCEPT ![c] = NoCommand]

Persist(c) ==
  /\ command[c].pc = "persisting"
  /\ PersistKey(c, command[c].name)
  /\ UNCHANGED <<edition, vault, pending, merged, handler, blob, cdn>>

(* A call fails, or the run is interrupted: what was done stays. *)
AbortCommand(c) ==
  /\ command[c].pc # "idle"
  /\ command' = [command EXCEPT ![c] = NoCommand]
  /\ UNCHANGED <<vault, pending, merged, handler, store>>

CreateLeafKey(c) ==
  \/ ReadIssuer(c)
  \/ CreateEcKey(c)
  \/ CreateLeafCertificate(c)

CompleteIntermediate(c) ==
  \/ MergeCertificate(c)
  \/ GetCertificate(c)
  \/ GetKey(c)

-----------------------------------------------------------------------------
(* Publication of the entity configuration *)

(* The keys are read in parallel; a missing one fails the handler. *)
StartConfiguration(h) ==
  /\ handler[h].pc = "idle"
  /\ handler' = [handler EXCEPT ![h].pc = "reading"]
  /\ UNCHANGED <<vault, pending, merged, command, store>>

ReadKey(h, k) ==
  /\ handler[h].pc = "reading"
  /\ handler[h].configuration.keys[k] = Unregistered
  /\ documents[k] # Unregistered
  /\ handler' = [handler EXCEPT
        ![h].configuration.keys[k] = documents[k]]
  /\ UNCHANGED <<vault, pending, merged, command, store>>

(* signJwt: the header names the registered key, the signature is by name,
   made by the newest version; the answer's key id is not compared. *)
SignJwt(h) ==
  /\ handler[h].pc = "reading"
  /\ \A k \in Keys : handler[h].configuration.keys[k] # Unregistered
  /\ handler' = [handler EXCEPT ![h].pc = "uploading",
                    ![h].configuration.signedBy = vault[Intermediate]]
  /\ UNCHANGED <<vault, pending, merged, command, store>>

UploadFile(h) ==
  /\ handler[h].pc = "uploading"
  /\ blob' = handler[h].configuration
  /\ handler' = [handler EXCEPT ![h].pc = "purging"]
  /\ UNCHANGED <<edition, vault, pending, merged, documents, command, cdn>>

PurgeContent(h) ==
  /\ handler[h].pc = "purging"
  /\ cdn' = Unpublished
  /\ handler' = [handler EXCEPT ![h] = NoHandler]
  /\ UNCHANGED <<edition, vault, pending, merged, documents, command, blob>>

FailHandler(h) ==
  /\ handler[h].pc # "idle"
  /\ handler' = [handler EXCEPT ![h] = NoHandler]
  /\ UNCHANGED <<vault, pending, merged, command, store>>

CreateEntityConfiguration(h) ==
  \/ StartConfiguration(h)
  \/ \E k \in Keys : ReadKey(h, k)
  \/ SignJwt(h)

Publish(h) ==
  \/ CreateEntityConfiguration(h)
  \/ UploadFile(h)
  \/ PurgeContent(h)
  \/ FailHandler(h)

(* The four handlers differ in what starts them and in the edition. *)
GenerateEntityConfigurationV1 == edition = "v1" /\ Publish("timer")
GenerateEntityConfigurationV2 == edition = "v2" /\ Publish("timer")
CreateEntityConfigurationV1   == edition = "v1" /\ Publish("http")
CreateEntityConfigurationV2   == edition = "v2" /\ Publish("http")

(* The front door serves the blob and keeps a copy until it is purged. *)
CacheBlob ==
  /\ cdn = Unpublished /\ blob # Unpublished
  /\ cdn' = blob
  /\ UNCHANGED <<edition, vault, pending, merged, documents, command, handler, blob>>

(* Both editions are behind one endpoint: a purge empties both, and a copy
   may also be dropped at any time. *)
PurgedByOthers ==
  /\ cdn # Unpublished
  /\ cdn' = Unpublished
  /\ UNCHANGED <<edition, vault, pending, merged, documents, command, handler, blob>>

Next ==
  \/ RequestCertificate
  \/ \E c \in Commands : \/ CreateLeafKey(c)
                         \/ CompleteIntermediate(c)
                         \/ Persist(c)
                         \/ AbortCommand(c)
  \/ GenerateEntityConfigurationV1
  \/ GenerateEntityConfigurationV2
  \/ CreateEntityConfigurationV1
  \/ CreateEntityConfigurationV2
  \/ CacheBlob
  \/ PurgedByOthers

Spec == Init /\ [][Next]_vars

-----------------------------------------------------------------------------
(* Whoever checks a signature with the registered keys finds it right, unless
   its key was made again after being registered. *)
Verifies(signedBy, version) ==
  signedBy = version \/ vault[Intermediate] > version

LeafHolds ==
  LET leaf == documents[Leaf] IN
  leaf # Unregistered =>
    /\ leaf.certified = leaf.key
    /\ leaf.issuer = documents[Intermediate].certified
    /\ Verifies(leaf.signedBy, leaf.issuer)

ConfigurationHolds(configuration) ==
  configuration # Unpublished =>
    /\ configuration.keys = documents
    /\ Verifies(configuration.signedBy, documents[Intermediate].key)

(* However commands are interrupted, run again and overlap one another and the
   handlers: a registered leaf key is the one its certificate is for, under the
   registered chain of its issuer; a configuration, uploaded or still served
   from a cache, lists exactly the registered keys; and the signature of either
   can fail to verify only if the signing key was made again since, which no
   command undoes because a document is never written twice. *)
PublishedKeysHold ==
  /\ LeafHolds
  /\ ConfigurationHolds(blob)
  /\ ConfigurationHolds(cdn)
=============================================================================
