# A formal model of io-wallet

io-wallet is a set of Azure Functions apps. Citizens register *wallet instances*
(a key in a phone), get signed attestations for them, and every instance owns one
bit of a *token status list* that says whether it is revoked. The state is in
Cosmos DB containers, storage queues and blobs; every operation is a sequence of
remote calls with no transaction around it, on several hosts at once. That is what
this project models: TLA+ modules translated from the source, small instances
that TLC checks exhaustively, and theorems that TLAPS proves for every value of
the parameters.

Paths below are relative to `apps/io-wallet-user-func/src/` unless they start with
`apps/` or `packages/`.

## 1. The system

| Part | State | Operations | What is hard | What makes it correct |
|---|---|---|---|---|
| Index allocation (`infra/status-list-allocator.ts`) | per host: a block of reserved indices, a reservation in flight | `allocateStatusBinding` | requests interleave at every await and share one reservation; hosts compete for a document; answers are lost; hosts restart | an index is given out once; none is skipped silently; every request is answered; a refusal is true |
| Catalog (`infra/azure/cosmos/status-list-catalog.ts`) | one document per list: state, `nextFreeIndex`, etag | create, open, reserve a block, seal, queries | conditional patches whose failure is sometimes an error and sometimes not | lists only move forward; nothing is reserved past the end |
| Routing (`infra/azure/cosmos/status-list-routing.ts`) | the ids allocators may use | add, remove, list | not updated with the catalog | holds opened lists only; ends up equal to the OPEN lists |
| Lifecycle manager (`infra/status-list-lifecycle.ts`, `use-cases/status-list-manager.ts`) | none of its own | a timer run: reconcile, close, provision | four stores without transaction, parallel calls, failures half way, overlapping runs | a list opens only with pages and blob; drift heals; enough OPEN lists |
| Pages and bit revocation (`infra/azure/cosmos/status-list-pages.ts`, `infra/status-list-bit-revocation.ts`, `infra/handlers/revoke-wallet-instances.ts`) | the bits, by page | change-feed batches set bits | two batches on one page; a batch that fails is not delivered again | a set bit is never lost; no other bit is set |
| Publication (`infra/status-list-publication.ts` and its three handlers) | signed blob per list, CDN cache | hourly dispatch, queue deliveries, monitor | duplicate and overlapping deliveries, stale content written last | a revocation is eventually, and then always, visible |
| Wallet instances, nonces, attestations (`wallet-instance.ts`, `nonce.ts`, `infra/http/handlers/*`) | instance documents, nonces | create, revoke, attest | two creations of one user, crash between insertion and revocation, one nonce used twice, an instance revoked while it is attested | at most one valid instance per user; a nonce is used once |
| Whitelist (`apps/io-wallet-whitelist-func`) | whitelisted fiscal codes | split a blob in chunks, bulk insert | throttling, redelivery | every code ends up inserted |
| Messages (`apps/io-wallet-messages-func`) | queue | split a file, send | redelivery | every recipient gets a message |
| Key CLI (`packages/io-wallet-key-cli`) | vault keys, certificates in Cosmos DB | provision keys | runs that fail half way, are repeated or overlap; a vault that signs with the newest version | the document of a key names one version and its chain for good |
| Attestation and assertion validation (`certificates.ts`, `attestation-service.ts`, `infra/mobile-attestation-service/*`, `infra/http/key-attestation-request.ts`) | none | register a key, check an assertion, check a list of keys | many checks with exemptions and error kinds; certificates age while a device retries; Google fails | what is accepted deserved it; an outage is not bad evidence; the key that is attested is bound to the device |
| Entity configuration (`infra/handlers/generate-entity-configuration-*.ts`, `infra/http/handlers/create-entity-configuration-*.ts`) | a signed blob, CDN cache | timer and HTTP publications | keys that change while it is signed, published or cached | its keys are the registered ones, and its signature verifies |
| E-mails (`infra/handlers/send-email-*.ts`) | queues | enqueue, send | a mail is sent long after the request | it tells what happened |
| Open-lists policy, conflict metrics, support function | none of their own | reads | nothing | not modelled |

How they interact. `create-wallet-instance` asks the allocator for a binding and stores
it in the new instance. The allocator reads the routing and reserves blocks in the
catalog; the lifecycle manager creates, opens and seals the lists of that catalog,
writes the routing, creates the pages and publishes a first blob. A revoked instance
reaches the pages through the change feed, and the publication turns the pages of the
OPEN and SEALED lists into the blob that verifiers fetch. The whitelist excuses its users
from some checks of the validation and chooses a template of the mails; it is filled by
its own app. The keys of the CLI sign everything: status lists, attestations and the
entity configuration, which publishes them.

The hazards that follow from this are listed one by one, at their line, in
`PROJECT.json`, with the properties that would catch them.

## 2. Plan

The order followed: the allocator and the catalog it shares, then the lifecycle that feeds
it, then the way of a revocation from an instance to a verifier (`WalletInstances`,
`StatusListRevocation`, `StatusListPublication`, `StatusListFreshness`), then the checks that
guard an instance (`AttestationValidation` and the modules it extends), then the apps and tools
around it (`WhitelistedFiscalCodes`, `Messages`, `SigningKeys`). All of these are written.

```
 StatusListLifecycle ---> StatusListCatalog <--- StatusListAllocator ==> IndexAllocation
 ==> StatusListContainers                       ==> StatusListContainers
        | opens lists, first blob                      | bindings
        v                                              v
 StatusListPublication <--- StatusListRevocation <--- WalletInstances <--- AttestationValidation
        |     pages            ==> StatusListBits  feed                     (MobileAttestation,
        v                                                                    KeyAttestationRequest,
 StatusListFreshness                                                         Certificates)
```

`--->` is an interaction in the code, `==>` a refinement. The modules that interact and are
not composed (the lists below) meet at an interface that both model, each with the other
side as a nondeterministic environment. For the first, on which most depends, the interface is
a module of its own, `StatusListContainers`, and that either side does no more to it than the other
reckons with is checked and proved (`ImplementsContainers`):

| Interface | One side | Other side |
|---|---|---|
| catalog and routing | `StatusListAllocator`: lists are opened, sealed and routed at any time (`ManagerStep`) | `StatusListLifecycle`: blocks are reserved at any time (`HostStep`) |
| `isRevoked` in an instance document | `WalletInstances`: never taken back | `StatusListRevocation`: `Revoke` and `RevokeAgain` |
| bits of the pages | `StatusListRevocation`: `StatusListBits`, only set | `StatusListPublication`: `RevokeBit` |
| a list leaves INITIALIZING | `StatusListLifecycle`: `OpenedIsReady` | `StatusListPublication`: `CheckPublishedAndOpen`, `OpenInAnotherRun` |
| verdict on an attestation or assertion | `AttestationValidation` | `WalletInstances`: `ValidateAttestation`, `ValidateAssertion` |

Every property that a run checks is proved as well, but for liveness (end of section 5).

## 3. The modules

**`StatusListCatalog`** is the document and the database operations on it, shared by the
modules that use the container. The etag is a counter: every write changes it and no
value comes back, which is what the code relies on. An operator is a patch with its
condition (`OpenIfInitializing`, `SealIfClosable`, `AdvanceNextFreeIndex`), or a check the
code makes on the document it read (`HasFreeBlock`).

**`StatusListAllocator`** models `StatusListAllocatorService`. JavaScript runs a host's code
without interruption between two awaits, so an action is the answer of one call with the
code up to the next await. `cache[h]` is `cache.reservedBlock`; `phase[h]` says what the
promise `inFlightReservation` awaits, and `attempt`, `scan`, `read` are its local variables;
`pc[r]` is where a request is. The owner of a reservation is the request that created
it: it awaits the promise first, so it clears `inFlightReservation` before a waiting
request runs again, and `Settle` is one action. A restart forgets a host; a patch may have
been applied although its answer was lost (`PatchAppliedButFails`, `RestartAfterPatch`).
`leaked` is a ghost that remembers the indices nobody can give out any more.

**`IndexAllocation`** is what the allocator promises: one answer per request, and every
binding fresh and inside its list. `ImplementsPromise` is the refinement.

**`StatusListLifecycle`** models runs of `manageStatusLists`. `phase[m]` is the part of the
run; `todo`, `openSeen` are the ids it has read and will act on, which may be old when it
does; `adds` and `removes` are the routing writes of one `Promise.all`, answered one at a
time; `step[m][l]` is the call a provisioning of `l` awaits, used by the sequential loop of
`reconcileStatusLists` and by the parallel batches of `provisionNewStatusLists` alike. When
a call fails the run ends, but the other calls of its `Promise.all` stay under way and may
still be applied after (`EndRun`, `LeftoverWriteFails`): that is how overlapping work arises
on one host, besides runs that outlive their timer and slot swaps. A failed call may have
been applied in full, in part (the bulk of pages) or not at all (`MaybeDone`). `alone` is a
ghost: no other run has been at work since this one started.

**`StatusListContainers`** is what `StatusListAllocator` and `StatusListLifecycle` may do to the
catalog and the routing that they share: `HostStep` reserves the next block of an OPEN list,
`ManagerStep` creates, opens, seals, routes or unroutes a list, under the conditions of the
operations in the code. A list may exist from the start, as in the allocator's module, or be created
later, as in the lifecycle's. Both implement it, so an environment that takes these steps, as each has for
the other, leaves nothing out.

**`StatusListRevocation`** models `RevokeWalletInstancesHandler` and `revokeBits`. A 64-bit word
is the set of its bits that are 1; `PageOf`, `WordOffset` and `BitPosition` are the arithmetic
of `getRevocationPosition`. `feed` is the set of documents that the change feed has still to
deliver, each once, in its latest state; a batch is any set of those of one range, because the
handler treats it as one. An invocation `v` holds its `batch` and, for each page,
the `masks` it has still to apply and the page it has `seen`; its pages are updated in
parallel, each by a read and a replace with the etag, again after a 412. `Checkpoint`, `Crash`
and `LoseLease` are the change feed's at-least-once delivery; `FailUpdate` is a call that fails,
after which the feed goes on (the trigger has no retry policy) while the updates of the other
pages are still under way. `skipped` is a ghost: the documents of such batches.

**`StatusListBits`** is what the pages promise: one bit string to which bits of revoked
instances are added, never any other, never taken away.

**`StatusListPublication`** models the dispatcher, the queue, `publishStatusList`,
`publishInitializingStatusList` and the CDN. A page is how many of its bits are 1, since bits
are only ever added: an older page is a smaller number, and a token a number for
each page. `LoadPage` to `PurgeStatusListContent` are the awaits of one delivery, `FailPublication`
a failure of any of them (the copy applied or not) or a host that stops; a message is
visible again until its fifth delivery (`MaxDequeueCount`). A list is INITIALIZING, OPEN or SEALED:
the dispatcher takes the last two, and revocations go on in both (`opened`). When it is sealed is left
open here, as nothing depends on it. `overlapped` is a ghost: the blob was written since this
publication began to load.

**`StatusListFreshness`** has the clocks that `StatusListPublication` leaves out: the age of the
token in the blob and in each CDN node, the purge that may fail, and the monitor.

**`WalletInstances`** is one user: `instance[i]` is the document with its reason of revocation,
`pc[r]` the call that request `r` awaits or how it ended. The same steps serve several
handlers (`RevokeUserWalletInstances` is used by five), and `AfterPatch`, `AfterCredentials` and
`Failed` say what each does next. A call may be applied and its answer lost (`Answered`), or
fail (`FailCall`). The e-mail handlers and the PID issuer's credentials are parts of it.
`troubled` and `atStart` are ghosts.

**`Certificates`**, **`MobileAttestation`**, **`KeyAttestationRequest`** are functions: the checks in
their order, what excuses from each and which error they end in. A certificate is who
signed it, whether now is before, within or after its dates, its serial number and its key
description; evidence is the set of checks it would not pass, and of a token of the Play
Integrity API also those that throw (`Unreadable`), after which the code asks for the next
package. **`AttestationValidation`** is the world they are asked in: chains grow, certificates
become valid and expire (`Age`), the list of revoked ones gains and loses entries and may fail
to be fetched (`ChangeCrl`), users are whitelisted, Google fails and comes back. Its
properties relate the verdicts on one piece of evidence to those on another.

**`WhitelistedFiscalCodes`** and **`Messages`** are the two apps with a blob trigger that fills a
queue and a queue trigger that empties it. In `WhitelistedFiscalCodes` a line is a code or not, a
message may be in the queue several times because a send without an answer is repeated, and
`ExecuteBulkOperations` is one bulk call with any part of it throttled. In `Messages` a file is
a text of characters, because it is cut by counting them: `Split` and `SplitFiscalCodes` are
translated character by character, everything else works on recipients.

**`SigningKeys`** has the vault, where a key is a number of versions, the documents of one
edition of the configuration, the two commands of the CLI, the handlers that publish the
configuration, and the copy at the front door.

**Proof modules** (`...Proofs`) hold the theorems about the module they are named after:
`StatusListAllocator`, `StatusListLifecycle` (with the catalog), `StatusListRevocation`,
`StatusListPublication` (with `StatusListFreshness`), `WalletInstances`, `AttestationValidation` (with
`WhitelistedFiscalCodes`), `SigningKeys`, `Messages`. **Model-checking modules** (`MC...`)
only name the small sets and the symmetries. Definitions commented
`Mutant:` are plausible bugs that no specification uses: each is put in the place of
the definition below it to see that a property notices.

## 4. What is checked

**`allocator_safety`** — two hosts with two requests each, two lists of 5 bits, blocks of 2,
one retry. The sizes make the interesting cases happen: a list takes two blocks and
keeps one bit that no block can use, so hosts meet at the boundary and one list does
not suffice; two hosts on the same etag make conflicts and retries; two requests of one
host share a reservation and a block.
- `UniqueBindings`: no bit is given to two requests.
- `EveryIndexAccounted`: every index below `nextFreeIndex` is bound, cached or lost,
  exactly one of these, and nothing is reachable above it or past the capacity. So no new
  block is stored over one in use.
- `WaitersHaveAnOwner`: a reservation has one owner and requests wait only for one.
- `SealedHasNoRoom`: a seal never takes away a block that could be reserved.
- `ExhaustionIsReal`: "No OPEN status lists available" is only said when every list of the
  scan was closed or full, or when conflicts used up the last attempt.
- `ImplementsPromise`: refinement of `IndexAllocation`.
- `ImplementsContainers`: whatever a host has read, it only ever reserves the next block of a
  list that is OPEN at that moment; refinement of `StatusListContainers`.

**`allocator_liveness`** — three requests on one host, one on another, one list:
`EveryRequestAnswered`. Fairness: a woken request gets the event loop, and a database call
is answered or times out (the SDK has time-outs). Nothing is asked of arrivals, restarts,
or the lifecycle. Symmetry is not used.

**`lifecycle_safety`** — two runs that may overlap, two lists of 3 bits with blocks of 2 (one
block fills a list, so lists are sealed and replaced), two pages, batches of 2, targets 1
and 2.
- `OpenedIsReady`: a list is OPEN or SEALED only with all its pages and a blob, however the
  bulk of pages failed and whichever run finished the list.
- `RoutedWasOpened`: late calls of slow runs do not route a list that was not opened.
- `RoutingMatchesCatalog`: when an undisturbed run has reconciled, routing is the OPEN set.
- `TargetIsMet`: an undisturbed run ends with the number of lists the policy asks for.
- `ImplementsContainers`: runs that overlap, fail or crash only ever create, open, seal and route lists
  in the state that this needs, so late calls of slow runs do not bring a sealed list back
  (`NeverReopened`); refinement of `StatusListContainers`.

With two runs that overlap, `RoutingMatchesCatalog` does not hold at the end of each
reconciliation (the catalog is listed before the routing, so a list that another run opens
in between is removed again); this is why it is stated for an undisturbed run, and
why healing is stated as liveness.

**`lifecycle_liveness`** — the same two overlapping runs, one page, one stale list per query
page: `DriftHeals`, `InitializingIsCompleted`, `TargetIsReached`. Fairness: the timer starts
runs for ever, calls that do not fail are answered, time passes (`BecomeStale`), and
`FailuresStop`: after any number of failures and crashes, there are no more. The last is
an assumption on the environment, the usual one for repair; without it a list
whose publication fails at every run blocks all the others, since
`reconcileStatusLists` aborts on the first failure.

**`revocation`** — three instances of one list of 2 pages of 2 words of 2 bits; two of them share a
page and not a word, and come from different ranges; two invocations, one repetition.
32 408 states. The geometry makes two batches meet on a page, a batch span two pages, and a
word hold two bits.
- `EveryRevocationAccounted`: the bit of a revoked instance is set, or the feed has still to
  deliver it, or an invocation the feed waits for has it, or its batch failed. The last is
  the one way to lose a revocation, and it is real: nothing delivers that batch again.
- `BitsOnlySetForRevoked`: refinement of `StatusListBits`.
- `RevocationsReachThePages`: the loop of read and replace ends. Fairness: a range that is
  ready again and again is served (strong: hosts may be idle now and then), started calls are
  answered. `CHECK_DEADLOCK FALSE`: with every instance revoked and delivered nothing is left.

**`publication`** — one list of 2 pages of 1 bit, two hosts, two messages, one manager that
provisions while another run opens the list, one fault. 864 366 states.
- `ServedBitsAreSet`: no staged, copied, overtaken or cached token shows a valid index as
  revoked, and none that differs from what was signed is ever copied.
- `TakesBackOnlyWhenOvertaken`: a blob loses a bit only in the copy of a delivery that another
  write has overtaken since it began to read, or in the upload of the empty list by a slow
  provisioning whose list was opened meanwhile. Both can happen; a verifier then sees a revoked
  index as valid until the next hour.
- `RevocationsAreServed`: the next publications repair that, for ever, of OPEN lists and of SEALED
  ones, which nobody may forget. Fairness: the timer
  fires, messages are received, calls are answered, the CDN forgets after 12 hours. Faults are
  bounded, which is the assumption that they stop. One fault does not poison a message, but a poisoned
  one leaves what one that was never enqueued leaves, which the run has.

**`freshness`** — two CDN nodes, a tick of four hours (6, 3 and 3 ticks), one tick of delay. 12 022
states. `ExpiryIsAnnounced`: before some node has shown an expired token for a tick, the monitor has
complained, although it asks a node that may be another one. The durations of the code just fit
`DurationsAssumption`: a copy is kept no longer than the validity the monitor asks for (12 <= 12
hours), and the life of a copy with the delay of a publication fits in what is left (12 + delay <=
24 - 12 and a tick).

**`wallet_instances`** — two instances, three requests of any kind, two nonces, one fault; requests and
nonces are interchangeable (`SYMMETRY`). 1 880 376 states. Three requests are two creations
that meet and a third that attests, looks up or revokes. Requests end, so the deadlock check is off.
- `OneValidInstance`: two valid instances exist only while a creation of one still has to revoke
  the other, or has stopped before. Two creations may also revoke each other: then the user has
  none, which the property allows and no document excludes.
- `OldCredentialsAreRevoked`, `StatusIsAccurate`: what the issuer holds and what is reported agree
  with the document, but for a call that failed.
- `AttestedWasValid`: what is attested was not revoked when the nonce was used up. A revocation
  after that, while the attestation is being signed, the code does not notice and the property
  allows.
- `NonceOnce`: requests past their nonce are no more than the nonces used up.
- `MailTellsWhatHappened`: no mail announces what did not happen, with one exception that is
  in the code: `setWalletInstanceStatus` of an id that does not exist. The transactional batch
  does nothing, its result is not looked at, and the mail is enqueued all the same.

**`validation`** — chains of up to 3 certificates, two serial numbers one of which contains the
other, two packages, requests of up to 2 keys. 267 602 states. A request or registration ends: no
deadlock check.
- `AppendingKeepsTheKey`: whoever adds certificates below an accepted Android chain gets the
  chain refused or the same key registered.
- `VerdictChangesForAReason`: while only time passes and the list of revoked certificates changes,
  the verdict on what a device presents again changes only for its reason. A refusal turns into an
  acceptance when a certificate whose dates count has become valid, or an entry was lifted or the
  list can be fetched again; an acceptance into a refusal when one whose dates count has expired, or
  the list names one or cannot be fetched. A chain with an expired certificate whose dates count is
  refused for good. Whose dates count differs: on Android those between leaf and root of a chain
  with remote provisioning, on iOS all, or none where development builds are allowed.
- `VerdictIsDeserved`: accepted assertions are in order, and good ones are accepted or put down to
  Google, never to the device. One error is the exception: when the authorization with Google
  fails, `jwtClient.authorize()` throws outside of the `try` and it is reported as bad evidence.
- `AttestedKeysAreBound`: the keys of a request, their own attestations and the signed
  thumbprints agree position by position.

**`whitelist`** — files with a partial last batch, a code that is listed twice or an invalid
line; batches of 3, chunks of 2, two deliveries of a message, two faults. 52 565 states. `EveryCodeIsAccounted`: a code the
reader has passed is inserted, in a message, in the batch, or poisoned. `FileIsInserted`: a file
without invalid line that is not given up is in the database in the end, and of one with such
a line nothing after it. Fairness: triggers fire, calls are answered. The system stops when the
queue is empty.

**`messages`** — files of two or three codes of 2 characters, groups of 2, with and without a
last new line, two deliveries of a message, two faults. 154 010 states. `NobodyIsSentTwiceForNothing`: as many messages as
listings, times the calls of the triggers, and a report that says "201" is true. It cannot say
"once": a blob trigger that is called again enqueues all groups again, and a host that stops
forgets whom it has sent to. `EveryoneIsTried`: after a dispatch that succeeded everyone is sent
the message or refused by the API. Fairness as above.

**`signing_keys`** — two commands, two versions of each key, either edition. 183 340 states.
`PublishedKeysHold`: a registered leaf key is the one its certificate is for and has the chain of
its registered issuer; what is uploaded or cached lists exactly the registered keys; a signature
fails to verify only if the signing key was made again in the vault afterwards, since the vault
signs with the newest version as soon as a certificate is requested. It does not say that what is
registered is the newest version, nor that the key of the intermediate is the one its certificate
is for: the code does not see to either (lines 77 and 243 of
`packages/io-wallet-key-cli/src/provisioning.ts`). Commands may stop for ever, so there is no deadlock
check.

Bounds. `StatusLists` is finite, so uuids run out: a creation then adds nothing
(`CreateAnother`), and `TargetIsMet` and `TargetIsReached` say so. The etag and
`nextFreeIndex` are bounded by the capacity, and attempts by `MaxRetries`; no state
constraint is used. The code's sizes (5 retries, batches of 4, pages of 50 results)
are constants, and the theorems hold for all their values. In the other modules the bounds
have names: `MaxFaults` and `MaxRepeats` (what goes wrong), `Messages` (room in a queue), `Requests`,
`Nonces`, `MaxVersion`, `MaxChain`, `MaxKeys`, `MaxSignCount`. One fault or two are enough for what a
fault can do, as no code counts faults but `MaxDequeueCount`, `MaxEnqueueAttempts` and
`MaxBulkRetryAttempts`, whose values are small as well. Two actors are enough wherever the code
compares what it read with what is there: a conflict has two sides. The runs of allocator
and lifecycle check for deadlocks, and so do `publication` and `freshness`.

## 5. What is proved

*Allocator* (`StatusListAllocatorProofs`), for all hosts, requests, lists, capacities, block
sizes greater than 0 and numbers of retries. Assumptions: `CapacityAssumption`,
`BlockSizeAssumption`, `HostOfAssumption`, `MaxRetriesAssumption`, `NullAssumption`. Six layers,
each inductive relative to the ones before it:
1. `TypeInv`: `TypeOK`, and the shape of a reservation in each phase.
2. `ControlInv`: one owner per reservation, and no cache during one. The two need each
   other: a request becomes owner only when the cache is empty and none is in flight.
3. `IndexInv`: `UniqueBindings` is not inductive. It needs that cached blocks of different
   hosts do not overlap and hold no bound index, that both lie below `nextFreeIndex`
   (so a new block is fresh), and that a read with the current etag has the current
   `nextFreeIndex` (`ReadIsCurrent`), which is where the etag does its work.
4. `AccountInv`: `EveryIndexAccounted` for one index at a time, in a form that a step can be
   followed in (`Accounted`): a reserved index is bound, cached or lost, exactly one of them, and
   no other index is any of these. Layer 3 makes the alternatives exclusive: the block that a reservation
   adds is fresh, and what a host has cached nobody else holds.
5. `ScanInv`: the lists that a scan without conflict is done with are closed or full. It holds
   because the catalog only ages (`CatalogAges`): no closed list opens, no full one gets room,
   whoever works on it meanwhile. `ExhaustionIsReal` is what is left of that at a refusal.
6. `PatchedIsOpen`: a host never compares the state of a list when it patches, only the etag; that
   the list is still OPEN follows, because every write raises the etag and a block was read
   as free. With it each step of a host is a `HostStep` of `StatusListContainers` or leaves the
   containers alone. `EnvironmentManages` and `ManagersAreEnvironment` say that the allocator's
   environment is `ManagerStep`, no less and no more, where all lists exist.

Theorems: `AllocatorTypeOK`, `OneOwnerPerReservation`, `NoBlockOverwritten`,
`AllocatorUniqueBindings`, `AllocatorSealedHasNoRoom`, `AllocatorEveryIndexAccounted`, the action property
`AllocatorExhaustionIsReal`, and the two refinements, step by step: `AllocatorImplementsPromise` and
`AllocatorImplementsContainers`.

*Lifecycle* (`StatusListLifecycleProofs`), for all numbers of runs, lists, pages and targets.
`LifecycleInv` says what a provisioning has achieved when it awaits its next call
(`SetupInv`) and what a run's memory is still worth (`SeenInv`). Nothing about it depends
on the other runs because no store forgets (`Grows`): pages and blobs stay, and
states only move on. Every action is shown to do to the stores what `StoresStep` allows, and
`KeepsInv` does the rest once for all. On top of it `RoutingInv` follows one undisturbed run through its
phases (`Undisturbed`): the other runs are at rest, so the OPEN lists that it has read are the OPEN
lists until it goes on to close some, and `adds` and `removes` are at every moment the difference
between the routing and the catalog. A failure, and a run that starts, end being undisturbed.

The rest of the module is about numbers. `CountersInv` has the counters of the provisioning, which need
the snapshot of the free capacity to be a number: a sum over a set, which the community modules define by
recursion. That such a sum exists for every finite set (`SumExists`) and is a number (`SumIsInt`) is
proved by the least counterexample, as the induction theorems of the library are of no use here. `TargetInv`
counts for an undisturbed run: the lists that are OPEN or under way, with those still to be created, are
enough (`IsEnough`), or no identifier is left; what it has opened is not sealed before the end of
the run, as nobody else seals.

`LifecycleImplementsContainers` maps each step of a run to a `ManagerStep` and each step of the
environment to a `HostStep`; that the environment is all of `HostStep` is `HostsAreEnvironment`. Together with the
allocator's lemmas this closes the circle: what either side assumes of the other is what the other does.

Theorems: `LifecycleCorrect`, `LifecycleOpenedIsReady`, `LifecycleRoutedWasOpened`, `LifecycleNeverReopened`,
`LifecycleRoutingCorrect`, `LifecycleRoutingMatchesCatalog`, `LifecycleCountersCorrect`, `LifecycleTypeOK`,
`LifecycleTargetCorrect`, `LifecycleTargetIsMet`, `LifecycleImplementsContainers`. The module begins with
the lemmas on the catalog operations.

*Revocation* (`StatusListRevocationProofs`), for all pages, words, instances, ranges and invocations
that satisfy `SizesAssumption` and `StatusAssumption`. First the arithmetic: an index is put together
again from its page, its word and its bit (`PositionOfIndex`), so that two indices never
share a bit. `EveryRevocationAccounted` is not inductive, as a batch in the hands of an invocation does
not say that the bit will be set: `Accounted` asks that it is still in the masks of its page. When
an update ends, the bit must be in the page, which rests on `SeenIsCurrent`: a page read with the
current etag is the current one. `OnlyRevokedBits` says of every copy of a page, the masks
included, that its bits are of revoked instances. `Moves` is what any step may do to
pages, masks and pages read, and both follow from it whichever action the step is. Theorems:
`RevocationCorrect`, `RevocationEveryRevocationAccounted`, and `RevocationBitsOnlySetForRevoked`, the
refinement of `StatusListBits`.

*Publication* (`StatusListPublicationProofs`), for all lists, pages, hosts, provisionings, messages and
faults (`SizesAssumption`: there is a page, a list and room in the queue). `ServedBitsAreSet` speaks of
blobs and copies, but what will be copied is in the hands of hosts: `TokensInv` is one chain of
inequalities for each host, blob <= what it has loaded <= page, whose first half is given up when
the blob is written meanwhile (`overlapped`). That a host's list stays what it was needs the queue:
`HandlersInv` says that a message is handled by one host at a time, and `QueueInv` that one that waits has
an attempt left. Theorems: `PublicationCorrect`, `PublicationServedBitsAreSet` and the action property
`PublicationTakesBackOnlyWhenOvertaken`.

*Wallet instances* (`WalletInstancesProofs`), for all instances, nonces, requests and faults
(`BoundsAssumption`: requests and nonces are finitely many, as in any run so far, and there is
an instance to name). `RequestInv` says of each request what it may count on at the call that it
awaits: `StatusIsRead`, `TargetIsRead`, `ValidIsRead` and so on. The request that moves is looked at
action by action; for the others it is enough that the world goes on (`WorldGoesOn`): an instance is
neither deleted nor made valid again, a certificate stays revoked. `OneValidInstance` is inductive next
to it: a creation that inserts is at "finding", and finds every valid instance. `NonceOnce` is a count:
each step that adds a request to those past their nonce takes a nonce out of the container, by
the theorems on cardinalities. Theorems: `WalletInstancesCorrect`, `WalletInstancesTypeOK` and one
for each of the six invariants of the run.

*Validation* (`AttestationValidationProofs`), for all packages, serial numbers, records and defects, chains of any
length and requests of any number of keys. Assumptions: `BundleIdentifiersAssumption` (a list of names),
`SerialsAssumption` and `BoundsAssumption` (what devices send is of its type, and the defects are ones that the code
checks for). The invariant itself, `ValidationInv`, is short: the types, a chain that is presented has a
root, and assertions come after the registration. The work is in what the verdicts are functions of. A
verdict is the reason of the first check that fails, and the key that is registered is in the last certificate
with an extension: both are `CHOOSE` of an extreme, which exists by `HasLeast` (the well-founded order of the
naturals) and `HasGreatest` (the same, mirrored). With these a verdict is a conjunction
(`AttestationIsAccepted`, `AndroidIsAccepted`, `TokenIsJudged`). The action properties then need to
know what a step does to evidence (`EvidenceSteps`): it adds a leaf (`Extended`), lets time pass (`TimePasses`) or drops it.
A leaf moves every certificate by one place (`Appended`), so the key stays where it was counted from the root
(`AppendedKey`). Time touches nothing but dates (`DatesAreAllThatDiffers`), so an acceptance carries over to
any two moments between which no date that counts and no entry that concerns the chain has turned
(`AcceptanceCarriesOver`). That is used in both directions, from before to after and from after to before, which gives the
two reasons of `VerdictChangesForAReason`; its first clause is that what is expired is refused (`ExpiredIsRefused`) and
stays so, whether time passes or a leaf is added (`ExpiredStaysWithTime`, `ExpiredStaysWithLeaf`). `ValidationAppendingKeepsTheKey` is proved without the last hypothesis of
the property, the verdict on the longer chain. Theorems: `ValidationCorrect`, `ValidationTypeOK` and one for each of
the four properties of the run.

*Keys* (`SigningKeysProofs`), for all commands and versions (`MaxVersionAssumption`). `PublishedKeysHold`
needs to know what commands and handlers hold between two calls (`CommandHolds`, `HandlerHolds`): the
chain of the issuer that is registered, documents that are registered still, a signature that
verifies or that a newer version has outdated. Other steps do not disturb it because versions only
grow and no document is written twice (`Later`). Theorems: `SigningKeysCorrect`, `SigningKeysTypeOK`,
`SigningKeysPublishedKeysHold`.

*Freshness* (at the end of `StatusListPublicationProofs`), for all durations that satisfy `DurationsAssumption`, all
delays and any number of CDN nodes. `ExpiryIsAnnounced` speaks of what one node shows, and the
monitor may have asked another one, so `FreshnessInv` relates both to the blob: a content monitor
means that the token in the blob is young (`BlobIsYoung`), because no copy is much younger
than the blob (`CopiesAreNotYounger`), and a copy was made of such a blob or of one that the
monitor complained of (`CopiesWereYoung`). Theorems: `FreshnessCorrect`, `FreshnessExpiryIsAnnounced`.

*Whitelist* (at the end of `AttestationValidationProofs`), for files of any length, batches and chunks of
any size, and any number of attempts, messages and faults (`SizesAssumption`). `EveryCodeIsAccounted` asks
that a code is inserted, in the batch, in a message or poisoned, and a message may leave the queue only when
all its codes are in the container. For that `BatchIsCovered` follows a delivery chunk by chunk: a code
of the message is inserted already, in the bulk call under way, or in a chunk that comes after it. That the
chunks hold the whole message is the division lemma `ChunksCover`, with `ChunkCount` rounding up.
Theorems: `WhitelistCorrect`, `WhitelistTypesHold`, `WhitelistEveryCodeIsAccounted`.

*Messages* (`MessagesProofs`), for files, groups and codes of any length and any numbers of attempts and faults
(`SizesAssumption`). The first half is about text: the code cuts the file at every so many characters and
each group at its new lines, and `TextIs`, `GroupIs` and `SplitIs` say, character by character, what comes out:
groups begin where lines begin, because the size of a group is a multiple of the length of a line, so the
recipients of the groups are the listings of the file (`RecipientsAreListings`). The second half counts,
one recipient at a time: what was sent and what is on its way in the dispatch, the queue and the hands of
the handler is no more than the places of the recipient in the groups, times the calls of the blob trigger
and the deliveries made again (`CountInv`). Places are no more than listings (`PlacesAreListings`), which
gives `NobodyIsSentTwiceForNothing`. Theorems: `MessagesCorrect`, `MessagesTypeOK`,
`MessagesNobodyIsSentTwiceForNothing` and `MessagesGroupsAreTheFile`, which no run checks: cutting by
characters loses and garbles nobody.

Only model-checked: liveness, which is out of the prover's reach, namely `EveryRequestAnswered`,
`DriftHeals`, `InitializingIsCompleted`, `TargetIsReached`, `RevocationsReachThePages`,
`RevocationsAreServed`, `FileIsInserted` and `EveryoneIsTried`. Everything else that a run checks has
a theorem.

## 6. Abstractions

- The rotation of the scan is any order: the routing query has no `ORDER BY`.
- A read returns the current document. A stale read of a replica would be refused by
  the etag, a conflict the model has anyway.
- A patch that is applied after its caller timed out or crashed is applied at that moment.
- The capacity and the block size are constants: the code stores the capacity in each
  document, so a change of configuration applies to new lists only, and is not modelled. The
  configuration does not check that the block size is positive (`BlockSizeAssumption` does).
- The order of the changes within a batch of the feed is left out: the handler groups a batch by
  page and word and never looks at the order.
- A blob is present or absent in `StatusListLifecycle`: what it says belongs to the
  publication module. Its CDN check is the answer of the same action as its upload.
- Telemetry, Slack messages and timestamps other than the staleness of a list are left out.
- The containers have session consistency (`infra/resources/_modules/cosmos/cosmos_accounts.tf:25`),
  and a session belongs to a client. The models let every read see the last committed write; where
  the code compares etags a stale read is a conflict, and the other reads (those of
  `WalletInstances`) are of the moment they are made, which another host may see a little later.
- A delivery that a queue makes twice is a duplicate message; mails may be doubled, and the
  choice of a template by a read of the whitelist is left out.
- In `WalletInstances` the revocation of credentials at the PID issuer that answers 404 or times out
  counts as success, as in the code; the allocation of the binding (`addStatus`) is one step, whose
  detail is `StatusListAllocator`.
- In `Messages` the limit on the rate of calls is left out, and so are the delays between attempts
  everywhere.
- In `AttestationValidation` a signature verifies or not, and parsing fails as a check does.

**Not modelled**, and why: cryptography, ASN.1 and CBOR parsing (functions of their bytes, with
no state); the read-only handlers (support function, whitelist look-up, health); the
open-lists policy and the conflict metrics (a read and a query, any answer of which the
lifecycle module takes); trust marks, metadata and other text of the entity configuration;
configuration parsing; infrastructure code and pipelines.
