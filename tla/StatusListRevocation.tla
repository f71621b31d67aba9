------------------------ MODULE StatusListRevocation ------------------------
(***************************************************************************)
(* How a revocation reaches the bits of a status list: the change feed of  *)
(* the wallet instances container calls RevokeWalletInstancesHandler with  *)
(* batches of changed documents, which sets the bits of the revoked ones   *)
(* in the page documents, by optimistic replaces                           *)
(* (apps/io-wallet-user-func/src/infra/handlers/revoke-wallet-instances.ts,*)
(* infra/status-list-bit-revocation.ts and                                 *)
(* infra/azure/cosmos/status-list-pages.ts).                               *)
(*                                                                         *)
(* A 64-bit word is the set of its bits that are 1.  The pages of a list   *)
(* exist before any instance is bound to it (StatusListLifecycle).  The    *)
(* order of the documents in a batch does not matter to the handler: a     *)
(* batch is any set of the changes that its range has still to deliver.    *)
(***************************************************************************)
EXTENDS Integers

CONSTANTS
  WalletInstances,
  StatusLists,
  PageCount,        \* pages of a status list
  PageBitsSize,     \* bits of a page
  WordBits,         \* statusListPageWordBitSize
  NoStatus,         \* an instance created before there were status lists
  StatusOf,         \* the status of each wallet instance, or NoStatus
  Leases,           \* the feed ranges of the change feed
  LeaseOf,          \* the range a wallet instance belongs to
  Invocations,      \* calls of the handler that may be under way
  MaxRepeats        \* bound: batches delivered, instances revoked once more

Words == 0..(PageBitsSize \div WordBits - 1)
Indexes == 0..(PageCount * PageBitsSize - 1)
Bindings == StatusLists \X Indexes
Documents == StatusLists \X (0..PageCount - 1)

ASSUME SizesAssumption ==
  /\ PageCount \in Nat \ {0} /\ PageBitsSize \in Nat \ {0}
  /\ WordBits \in Nat \ {0} /\ PageBitsSize % WordBits = 0
ASSUME StatusAssumption ==
  /\ StatusOf \in [WalletInstances -> Bindings \cup {NoStatus}]
  /\ NoStatus \notin Bindings
  /\ LeaseOf \in [WalletInstances -> Leases]
  /\ MaxRepeats \in Nat

VARIABLES
  document,      \* the wallet instance documents: valid or revoked
  feed,          \* the changed documents still to be delivered
  pages,         \* the page documents: an etag and the words
  batch,         \* the documents an invocation was called with
  owner,         \* whether the feed waits for the invocation's outcome
  masks,         \* the bits it has still to set in each page
  seen,          \* the page it has read and is replacing, or NotRead
  skipped,       \* ghost: documents whose batch failed
  repeats        \* bounded by MaxRepeats

invocationVars == <<batch, owner, masks, seen>>
vars == <<document, feed, pages, invocationVars, skipped, repeats>>

----------------------------------------------------------------------------
(* Bits of a word, words of a page, pages of a list.                       *)
PageOf(binding) == <<binding[1], binding[2] \div PageBitsSize>>
WordOffset(binding) == (binding[2] % PageBitsSize) \div WordBits

BitPosition(binding) == (binding[2] % PageBitsSize) % WordBits

NoMask == [w \in Words |-> {}]

GroupStatusBindingsByPageDocument(bindings) ==
  [d \in Documents |-> [w \in Words |->
     {BitPosition(b) : b \in {x \in bindings : PageOf(x) = d /\ WordOffset(x) = w}}]]

ApplyRevocationWordMasks(words, mask) ==
  [w \in Words |-> words[w] \cup mask[w]]

(* The bit string of a list is the concatenation of its pages.             *)
BindingOf(d, w, bit) == <<d[1], d[2] * PageBitsSize + w * WordBits + bit>>

SetBits ==
  {b \in Bindings :
     \E d \in Documents, w \in Words :
       \E bit \in pages[d].words[w] : b = BindingOf(d, w, bit)}

----------------------------------------------------------------------------
NotRead == [etag |-> -1, words |-> NoMask]
WordsType == [Words -> SUBSET (0..WordBits - 1)]
Page == [etag : Nat, words : WordsType]

TypeOK ==
  /\ document \in [WalletInstances -> {"valid", "revoked"}]
  /\ feed \in SUBSET WalletInstances
  /\ pages \in [Documents -> Page]
  /\ batch \in [Invocations -> SUBSET WalletInstances]
  /\ owner \in [Invocations -> BOOLEAN]
  /\ masks \in [Invocations -> [Documents -> WordsType]]
  /\ seen \in [Invocations -> [Documents -> Page \cup {NotRead}]]
  /\ skipped \in SUBSET WalletInstances
  /\ repeats \in 0..MaxRepeats

NoMasks == [d \in Documents |-> NoMask]
NothingRead == [d \in Documents |-> NotRead]

(* The instances have been inserted, and the feed has not delivered them.  *)
Init ==
  /\ document = [i \in WalletInstances |-> "valid"]
  /\ feed = WalletInstances
  /\ pages = [d \in Documents |-> [etag |-> 0, words |-> NoMask]]
  /\ batch = [v \in Invocations |-> {}]
  /\ owner = [v \in Invocations |-> FALSE]
  /\ masks = [v \in Invocations |-> NoMasks]
  /\ seen = [v \in Invocations |-> NothingRead]
  /\ skipped = {}
  /\ repeats = 0

----------------------------------------------------------------------------
(* The container.  The feed delivers a document once in its latest state,  *)
(* however often it changed before.                                        *)
Changed(i) == feed' = feed \cup {i}

Revoke(i) ==
  /\ document[i] = "valid"
  /\ document' = [document EXCEPT ![i] = "revoked"]
  /\ Changed(i)
  /\ UNCHANGED <<pages, invocationVars, skipped, repeats>>

(* The patch is not conditional: an instance may be revoked once more.     *)
RevokeAgain(i) ==
  /\ document[i] = "revoked" /\ repeats < MaxRepeats
  /\ repeats' = repeats + 1
  /\ Changed(i)
  /\ UNCHANGED <<document, pages, invocationVars, skipped>>

----------------------------------------------------------------------------
(* The change feed and the handler.  A range delivers one batch at a time. *)
Idle(v) == ~owner[v] /\ masks[v] = NoMasks

Busy(l) == \E v \in Invocations : owner[v] /\ \E i \in batch[v] : LeaseOf[i] = l

GetStatusBindingsIfRevoked(documents) ==
  {StatusOf[i] : i \in {j \in documents : document[j] = "revoked"}} \ {NoStatus}

Waiting(l) == {i \in feed : LeaseOf[i] = l}

Deliver(v, l, documents) ==
  /\ Idle(v) /\ ~Busy(l)
  /\ documents # {}
  /\ batch' = [batch EXCEPT ![v] = documents]
  /\ masks' = [masks EXCEPT ![v] = GroupStatusBindingsByPageDocument(
                 GetStatusBindingsIfRevoked(documents))]
  /\ feed' = feed \ documents
  /\ owner' = [owner EXCEPT ![v] = TRUE]
  /\ UNCHANGED <<document, pages, seen, skipped, repeats>>

UpdateIsDone(v, d) == masks' = [masks EXCEPT ![v][d] = NoMask]
Forget(v, d) == seen' = [seen EXCEPT ![v][d] = NotRead]

(* The updates of the pages of a batch run in parallel (Promise.all).      *)
ReadPage(v, d) ==
  /\ masks[v][d] # NoMask /\ seen[v][d] = NotRead
  /\ IF ApplyRevocationWordMasks(pages[d].words, masks[v][d]) = pages[d].words
       THEN UpdateIsDone(v, d) /\ UNCHANGED seen
       ELSE seen' = [seen EXCEPT ![v][d] = pages[d]] /\ UNCHANGED masks
  /\ UNCHANGED <<document, feed, pages, batch, owner, skipped, repeats>>

WritePage(v, d) ==
  pages' = [pages EXCEPT ![d] =
    [etag |-> @.etag + 1,
     words |-> ApplyRevocationWordMasks(seen[v][d].words, masks[v][d])]]

\* Mutant: the replace carries no access condition.
ReplaceUnconditionally(v, d) ==
  /\ seen[v][d] # NotRead
  /\ WritePage(v, d) /\ UpdateIsDone(v, d) /\ Forget(v, d)
  /\ UNCHANGED <<document, feed, batch, owner, skipped, repeats>>

\* Mutant: a failed condition is taken as "the page is up to date".
ReplaceOnce(v, d) ==
  /\ seen[v][d] # NotRead
  /\ UpdateIsDone(v, d) /\ Forget(v, d)
  /\ IF pages[d].etag = seen[v][d].etag THEN WritePage(v, d) ELSE UNCHANGED pages
  /\ UNCHANGED <<document, feed, batch, owner, skipped, repeats>>

(* On 412 the page is read again.                                          *)
ReplacePage(v, d) ==
  /\ seen[v][d] # NotRead
  /\ Forget(v, d)
  /\ IF pages[d].etag = seen[v][d].etag
       THEN WritePage(v, d) /\ UpdateIsDone(v, d)
       ELSE UNCHANGED <<pages, masks>>
  /\ UNCHANGED <<document, feed, batch, owner, skipped, repeats>>

(* The handler has returned: the range goes on.                            *)
Checkpoint(v) ==
  /\ owner[v] /\ masks[v] = NoMasks
  /\ owner' = [owner EXCEPT ![v] = FALSE]
  /\ batch' = [batch EXCEPT ![v] = {}]
  /\ UNCHANGED <<document, feed, pages, masks, seen, skipped, repeats>>

(* A read or a replace fails, the replace applied or not.  The trigger has *)
(* no retry policy: the range goes on after the batch, while the updates   *)
(* of the other pages are still under way.                                 *)
FailUpdate(v, d) ==
  /\ masks[v][d] # NoMask
  /\ UpdateIsDone(v, d) /\ Forget(v, d)
  /\ \/ /\ seen[v][d] # NotRead /\ pages[d].etag = seen[v][d].etag
        /\ WritePage(v, d)
     \/ UNCHANGED pages
  /\ owner' = [owner EXCEPT ![v] = FALSE]
  /\ batch' = [batch EXCEPT ![v] = {}]
  /\ skipped' = skipped \cup batch[v]
  /\ UNCHANGED <<document, feed, repeats>>

Redeliver(v) ==
  /\ owner[v] /\ repeats < MaxRepeats
  /\ repeats' = repeats + 1
  /\ feed' = feed \cup batch[v]
  /\ owner' = [owner EXCEPT ![v] = FALSE]
  /\ batch' = [batch EXCEPT ![v] = {}]
  /\ UNCHANGED <<document, pages, skipped>>

(* The host stops before the checkpoint ...                                *)
Crash(v) ==
  /\ Redeliver(v)
  /\ masks' = [masks EXCEPT ![v] = NoMasks]
  /\ seen' = [seen EXCEPT ![v] = NothingRead]

(* ... or loses the lease of the range and goes on with its updates.       *)
LoseLease(v) == Redeliver(v) /\ UNCHANGED <<masks, seen>>

----------------------------------------------------------------------------
Update(v) == \E d \in Documents : ReadPage(v, d) \/ ReplacePage(v, d)

DeliverRange(l) ==
  \E v \in Invocations, documents \in SUBSET Waiting(l) : Deliver(v, l, documents)

Next ==
  \/ \E i \in WalletInstances : Revoke(i) \/ RevokeAgain(i)
  \/ \E l \in Leases : DeliverRange(l)
  \/ \E v \in Invocations :
       \/ Update(v) \/ Checkpoint(v)
       \/ Crash(v) \/ LoseLease(v)
       \/ \E d \in Documents : FailUpdate(v, d)

(* The change feed and the runtime go on as long as there is work.  A host *)
(* may be idle only now and then: a range that is ready infinitely often   *)
(* is served.                                                              *)
Fairness ==
  /\ \A l \in Leases : SF_vars(DeliverRange(l))
  /\ \A v \in Invocations : WF_vars(Update(v)) /\ WF_vars(Checkpoint(v))

Spec == Init /\ [][Next]_vars
FairSpec == Spec /\ Fairness

----------------------------------------------------------------------------
Revoked == {i \in WalletInstances : document[i] = "revoked"}
RevokedBindings == {StatusOf[i] : i \in Revoked} \ {NoStatus}

(* Whatever batches overlap, fail half way or are delivered twice, only    *)
(* bits of revoked instances are set, each at the index of its own         *)
(* instance, and no replace takes a bit away that another one has set.     *)
Bits == INSTANCE StatusListBits
          WITH revokedBindings <- RevokedBindings, setBits <- SetBits
BitsOnlySetForRevoked == Bits!Spec

IsSet(i) == StatusOf[i] \in SetBits

(* A revocation is never lost on the way: its bit is set, or the feed will *)
(* deliver it, or an invocation the feed waits for has it, or its batch    *)
(* failed, which is the one way to lose it.                                *)
EveryRevocationAccounted ==
  \A i \in Revoked :
    \/ StatusOf[i] = NoStatus
    \/ IsSet(i)
    \/ i \in feed
    \/ \E v \in Invocations : owner[v] /\ i \in batch[v]
    \/ i \in skipped

(* Every revocation whose batch does not fail is in the pages in the end:  *)
(* the loop that reads the page again after a failed condition ends.       *)
RevocationsReachThePages ==
  \A i \in WalletInstances :
    (document[i] = "revoked") ~> (StatusOf[i] = NoStatus \/ IsSet(i) \/ i \in skipped)
=============================================================================
