------------------------ MODULE StatusListAllocator ------------------------
(***************************************************************************)
(* StatusListAllocatorService                                              *)
(* (apps/io-wallet-user-func/src/infra/status-list-allocator.ts): every    *)
(* host keeps one block of reserved indices in memory and hands them to    *)
(* the requests it serves.  When the block is used up, one request (the    *)
(* owner) reserves another block with an optimistic patch on the catalog   *)
(* and the requests that arrive meanwhile wait for it.                     *)
(*                                                                         *)
(* Between two awaits a host runs alone, so an action is the code from one *)
(* await to the next; the answer of a database call and the continuation   *)
(* that handles it are one action.  The status lists are opened, sealed    *)
(* and routed by the lifecycle manager: here they are the environment.     *)
(***************************************************************************)
EXTENDS StatusListCatalog

CONSTANTS
  Hosts,          \* instances of the function app
  Requests,       \* calls of allocateStatusBinding
  HostOf,         \* the host that serves each request
  MaxRetries,     \* statusListAllocatorDefaultMaxRetries
  NoBlock, NoBinding, NoList

ASSUME HostOfAssumption     == HostOf \in [Requests -> Hosts]
ASSUME MaxRetriesAssumption == MaxRetries \in Nat

Block   == [statusListId: StatusLists, nextIdx: Nat, endExclusive: Nat]
Binding == [statusListId: StatusLists, index: Nat]

ASSUME NullAssumption ==
  /\ NoBlock \notin Block
  /\ NoBinding \notin Binding
  /\ NoList \notin StatusLists

VARIABLES
  routable,      \* the ids in the routing container
  cache,         \* cache.reservedBlock of each host
  phase,         \* what inFlightReservation of each host is awaiting
  attempt,       \* its loop counter
  scan,          \* its scan of the routable lists
  read,          \* the document it read, and is patching
  pc,            \* where each request is
  binding,       \* the value each request was answered with
  leaked         \* ghost: bindings that no request can ever get

vars ==
  <<catalog, routable, cache, phase, attempt, scan, read, pc, binding, leaked>>

(* "none" is an undefined inFlightReservation; otherwise the reservation   *)
(* awaits the routable ids, the document of the next list of the scan, the *)
(* patch of that document, or the delay before the next attempt.           *)
Phase == {"none", "routing", "scanning", "patching", "backoff"}

Scan == [openStatusListIds: SUBSET StatusLists, remaining: SUBSET StatusLists,
         hadConflict: BOOLEAN]

Read == [list: StatusLists \cup {NoList}, index: Nat, etag: Nat]

NoScan == [openStatusListIds |-> {}, remaining |-> {}, hadConflict |-> FALSE]
NoRead == [list |-> NoList, index |-> 0, etag |-> 0]

Awaits(h, p) == phase[h] = p
InFlight(h) == phase[h] # "none"

(* The owner awaits the promise of its host in the try block; the waiting  *)
(* requests await it in waitForInFlightReservation.                        *)
RequestState == {"new", "waiting", "woken", "owner", "done", "failed"}

Owns(r, h) == HostOf[r] = h /\ pc[r] = "owner"
WaitsFor(r, h) == HostOf[r] = h /\ pc[r] = "waiting"

TypeOK ==
  /\ catalog \in [StatusLists -> CatalogDocument]
  /\ routable \in SUBSET StatusLists
  /\ cache \in [Hosts -> Block \cup {NoBlock}]
  /\ phase \in [Hosts -> Phase]
  /\ attempt \in [Hosts -> 0..MaxRetries]
  /\ scan \in [Hosts -> Scan]
  /\ read \in [Hosts -> Read]
  /\ pc \in [Requests -> RequestState]
  /\ binding \in [Requests -> Binding \cup {NoBinding}]
  /\ leaked \in SUBSET Binding

Init ==
  /\ catalog = [l \in StatusLists |-> InitializingDocument]
  /\ routable = {}
  /\ cache = [h \in Hosts |-> NoBlock]
  /\ phase = [h \in Hosts |-> "none"]
  /\ attempt = [h \in Hosts |-> 0]
  /\ scan = [h \in Hosts |-> NoScan]
  /\ read = [h \in Hosts |-> NoRead]
  /\ pc = [r \in Requests |-> "new"]
  /\ binding = [r \in Requests |-> NoBinding]
  /\ leaked = {}

----------------------------------------------------------------------------
(* Blocks and indices *)

CachedBinding(h) ==
  [statusListId |-> cache[h].statusListId, index |-> cache[h].nextIdx]

(* A block whose first index has just been given out; undefined when that  *)
(* was the last one.                                                       *)
AfterFirst(block) ==
  IF block.nextIdx + 1 >= block.endExclusive
    THEN NoBlock
    ELSE [block EXCEPT !.nextIdx = @ + 1]

ReservedBlock(l, start) ==
  [statusListId |-> l, nextIdx |-> start, endExclusive |-> start + BlockSize]

(* The bindings that are lost when nobody remembers the block any more.    *)
Unissued(block) ==
  IF block = NoBlock THEN {}
  ELSE {[statusListId |-> block.statusListId, index |-> i] :
          i \in block.nextIdx .. (block.endExclusive - 1)}

----------------------------------------------------------------------------
(* allocateStatusBindingInternal: the requests *)

Runnable(r) == pc[r] \in {"new", "woken"}

TakeFromCache(r) ==
  LET h == HostOf[r] IN
  /\ Runnable(r)
  /\ cache[h] # NoBlock
  /\ binding' = [binding EXCEPT ![r] = CachedBinding(h)]
  /\ cache' = [cache EXCEPT ![h] = AfterFirst(@)]
  /\ pc' = [pc EXCEPT ![r] = "done"]
  /\ UNCHANGED <<catalog, routable, phase, attempt, scan, read, leaked>>

WaitForInFlightReservation(r) ==
  LET h == HostOf[r] IN
  /\ Runnable(r)
  /\ cache[h] = NoBlock
  /\ InFlight(h)
  /\ pc' = [pc EXCEPT ![r] = "waiting"]
  /\ UNCHANGED <<catalog, routable, cache, phase, attempt, scan, read,
                 binding, leaked>>

BecomeOwner(r) ==
  /\ phase' = [phase EXCEPT ![HostOf[r]] = "routing"]
  /\ pc' = [pc EXCEPT ![r] = "owner"]
  /\ UNCHANGED <<catalog, routable, cache, attempt, scan, read, binding, leaked>>

StartReservation(r) ==
  /\ Runnable(r)
  /\ cache[HostOf[r]] = NoBlock
  /\ ~InFlight(HostOf[r])
  /\ BecomeOwner(r)

ClearReservation(h) ==
  /\ phase' = [phase EXCEPT ![h] = "none"]
  /\ attempt' = [attempt EXCEPT ![h] = 0]
  /\ scan' = [scan EXCEPT ![h] = NoScan]
  /\ read' = [read EXCEPT ![h] = NoRead]

\* Mutant: the waiting requests are not woken.
SettleOwnerOnly(h, answer) ==
  /\ ClearReservation(h)
  /\ pc' = [r \in Requests |-> IF Owns(r, h) THEN answer ELSE pc[r]]

(* The promise of a host settles: the owner gets the answer and clears     *)
(* inFlightReservation before any waiting request runs again, because it   *)
(* was the first to await the promise.  Waiting requests ignore a failure. *)
Settle(h, answer) ==
  /\ ClearReservation(h)
  /\ pc' = [r \in Requests |->
       IF Owns(r, h) THEN answer ELSE IF WaitsFor(r, h) THEN "woken" ELSE pc[r]]

\* Mutant: the waiting requests return the value of the promise they awaited.
ResolveEveryone(h, b) ==
  /\ ClearReservation(h)
  /\ pc' = [r \in Requests |->
       IF Owns(r, h) \/ WaitsFor(r, h) THEN "done" ELSE pc[r]]
  /\ binding' = [r \in Requests |->
       IF Owns(r, h) \/ WaitsFor(r, h) THEN b ELSE binding[r]]

ResolveWith(h, b) ==
  /\ Settle(h, "done")
  /\ binding' = [r \in Requests |-> IF Owns(r, h) THEN b ELSE binding[r]]

Reject(h) ==
  /\ Settle(h, "failed")
  /\ UNCHANGED binding

----------------------------------------------------------------------------
(* reserveNextAvailableBlock and scanOpenStatusListIds: the reservation *)

Await(h, p) == phase' = [phase EXCEPT ![h] = p]

(* The lists are scanned in a rotation of the order of the query, which    *)
(* has no ORDER BY: in any order.                                          *)
GetRoutableStatusListIds(h) ==
  /\ Awaits(h, "routing")
  /\ Await(h, "scanning")
  /\ scan' = [scan EXCEPT ![h] =
       [openStatusListIds |-> routable, remaining |-> routable,
        hadConflict |-> FALSE]]
  /\ UNCHANGED <<catalog, routable, cache, attempt, read, pc, binding, leaked>>

ReadFreeBlock(h) ==
  /\ Awaits(h, "scanning")
  /\ \E l \in scan[h].remaining :
       /\ HasFreeBlock(l)
       /\ read' = [read EXCEPT ![h] = [list |-> l,
            index |-> catalog[l].nextFreeIndex, etag |-> catalog[l].etag]]
       /\ scan' = [scan EXCEPT ![h].remaining = @ \ {l}]
  /\ Await(h, "patching")
  /\ UNCHANGED <<catalog, routable, cache, attempt, pc, binding, leaked>>

SkipFullOrClosed(h) ==
  /\ Awaits(h, "scanning")
  /\ \E l \in scan[h].remaining :
       /\ ~HasFreeBlock(l)
       /\ scan' = [scan EXCEPT ![h].remaining = @ \ {l}]
  /\ UNCHANGED <<catalog, routable, cache, phase, attempt, read, pc, binding,
                 leaked>>

PatchApplies(h) ==
  /\ Awaits(h, "patching")
  /\ EtagMatches(read[h].list, read[h].etag)
  /\ AdvanceNextFreeIndex(read[h].list, read[h].index)

(* storeReservedBlockAndAllocate *)
PatchSucceeds(h) ==
  /\ PatchApplies(h)
  /\ cache' = [cache EXCEPT ![h] =
       AfterFirst(ReservedBlock(read[h].list, read[h].index))]
  /\ ResolveWith(h, [statusListId |-> read[h].list, index |-> read[h].index])
  /\ UNCHANGED <<routable, leaked>>

\* Mutant: the scan goes on but the conflict is not remembered.
ConflictForgotten(h) ==
  /\ Awaits(h, "patching")
  /\ ~EtagMatches(read[h].list, read[h].etag)
  /\ Await(h, "scanning")
  /\ read' = [read EXCEPT ![h] = NoRead]
  /\ UNCHANGED <<catalog, routable, cache, attempt, scan, pc, binding, leaked>>

PatchConflicts(h) ==
  /\ Awaits(h, "patching")
  /\ ~EtagMatches(read[h].list, read[h].etag)
  /\ Await(h, "scanning")
  /\ scan' = [scan EXCEPT ![h].hadConflict = TRUE]
  /\ read' = [read EXCEPT ![h] = NoRead]
  /\ UNCHANGED <<catalog, routable, cache, attempt, pc, binding, leaked>>

\* Mutant: one attempt too many.
RetryAtLimit(h) == scan[h].hadConflict /\ attempt[h] <= MaxRetries

(* Only a conflict makes another scan worth while, after a delay.          *)
MayRetry(h) == scan[h].hadConflict /\ attempt[h] < MaxRetries

ScanIsOver(h) == Awaits(h, "scanning") /\ scan[h].remaining = {}

(* The recheck of the cache in the middle of a reservation, at the start   *)
(* of an attempt and after a scan.                                         *)
ResolveFromCache(h) ==
  /\ ResolveWith(h, CachedBinding(h))
  /\ cache' = [cache EXCEPT ![h] = AfterFirst(@)]

ScanExhausted(h) ==
  /\ ScanIsOver(h)
  /\ IF cache[h] # NoBlock THEN ResolveFromCache(h)
     ELSE IF MayRetry(h)
       THEN Await(h, "backoff")
            /\ UNCHANGED <<cache, attempt, scan, read, pc, binding>>
       ELSE Reject(h) /\ UNCHANGED cache
  /\ UNCHANGED <<catalog, routable, leaked>>

NextAttempt(h) ==
  /\ Awaits(h, "backoff")
  /\ IF cache[h] # NoBlock THEN ResolveFromCache(h)
     ELSE /\ Await(h, "routing")
          /\ attempt' = [attempt EXCEPT ![h] = @ + 1]
          /\ UNCHANGED <<cache, scan, read, pc, binding>>
  /\ UNCHANGED <<catalog, routable, leaked>>

(* An error of the database other than a failed condition ends the whole   *)
(* allocation: the routing query, a read of the scan, or the patch.        *)
CallFails(h) ==
  /\ \/ Awaits(h, "routing") \/ Awaits(h, "patching")
     \/ Awaits(h, "scanning") /\ scan[h].remaining # {}
  /\ Reject(h)
  /\ UNCHANGED <<catalog, routable, cache, leaked>>

(* A patch may have been applied although its answer was lost: its block   *)
(* then belongs to nobody.                                                 *)
LoseReservedBlock(h) ==
  /\ PatchApplies(h)
  /\ leaked' = leaked \cup Unissued(ReservedBlock(read[h].list, read[h].index))

PatchAppliedButFails(h) ==
  /\ LoseReservedBlock(h)
  /\ Reject(h)
  /\ UNCHANGED <<routable, cache>>

----------------------------------------------------------------------------
(* A host restarts: what it held in memory is gone, and the requests it    *)
(* was serving get no answer.  The patch it was waiting for may be applied *)
(* or not.                                                                 *)
IsServing(r, h) == HostOf[r] = h /\ pc[r] \in {"waiting", "woken", "owner"}

ForgetHost(h) ==
  /\ cache' = [cache EXCEPT ![h] = NoBlock]
  /\ ClearReservation(h)
  /\ pc' = [r \in Requests |-> IF IsServing(r, h) THEN "failed" ELSE pc[r]]
  /\ UNCHANGED <<routable, binding>>

Restart(h) ==
  /\ leaked' = leaked \cup Unissued(cache[h])
  /\ ForgetHost(h)
  /\ UNCHANGED catalog

RestartAfterPatch(h) ==
  /\ LoseReservedBlock(h)
  /\ ForgetHost(h)

----------------------------------------------------------------------------
(* The environment: the lifecycle manager opens, seals and routes lists.   *)
(* Routing lags behind the catalog in both directions.                     *)
hostVars == <<cache, phase, attempt, scan, read, pc, binding, leaked>>

OpenStatusList(l) ==
  /\ StateIs(l, "INITIALIZING")
  /\ OpenIfInitializing(l)
  /\ UNCHANGED <<routable, hostVars>>

SealStatusList(l) ==
  /\ IsClosable(l)
  /\ SealIfClosable(l)
  /\ UNCHANGED <<routable, hostVars>>

AddRoutableStatusListId(l) ==
  /\ catalog[l].state \in {"OPEN", "SEALED"}
  /\ routable' = routable \cup {l}
  /\ UNCHANGED <<catalog, hostVars>>

RemoveRoutableStatusListId(l) ==
  /\ routable' = routable \ {l}
  /\ UNCHANGED <<catalog, hostVars>>

----------------------------------------------------------------------------
AllocateStatusBinding(r) ==
  \/ TakeFromCache(r)
  \/ WaitForInFlightReservation(r)
  \/ StartReservation(r)

PatchAnswered(h) ==
  \/ PatchSucceeds(h)
  \/ PatchConflicts(h)
  \/ PatchAppliedButFails(h)

ReserveNextAvailableBlock(h) ==
  \/ GetRoutableStatusListIds(h)
  \/ ReadFreeBlock(h)
  \/ SkipFullOrClosed(h)
  \/ PatchAnswered(h)
  \/ ScanExhausted(h)
  \/ NextAttempt(h)
  \/ CallFails(h)

Lifecycle(l) ==
  \/ OpenStatusList(l)
  \/ SealStatusList(l)
  \/ AddRoutableStatusListId(l)
  \/ RemoveRoutableStatusListId(l)

Next ==
  \/ \E r \in Requests : AllocateStatusBinding(r)
  \/ \E h \in Hosts : ReserveNextAvailableBlock(h)
  \/ \E h \in Hosts : Restart(h) \/ RestartAfterPatch(h)
  \/ \E l \in StatusLists : Lifecycle(l)

Spec == Init /\ [][Next]_vars

(* A runnable request gets the event loop, and every call of the database  *)
(* is answered or times out.  Nothing is asked of the environment, of      *)
(* restarts, or of the arrival of new requests.                            *)
FairSpec ==
  /\ Spec
  /\ \A r \in Requests :
       WF_vars(pc[r] = "woken" /\ AllocateStatusBinding(r))
  /\ \A h \in Hosts : WF_vars(ReserveNextAvailableBlock(h))

----------------------------------------------------------------------------
(* Properties *)

(* No two requests ever get the same bit of the same list, across hosts,   *)
(* conflicts, lost answers and restarts (reserveNextBlock's etag, and the  *)
(* cursor of allocateFromCache).                                           *)
UniqueBindings ==
  \A r1, r2 \in Requests :
    binding[r1] # NoBinding /\ binding[r1] = binding[r2] => r1 = r2

IsCached(b) ==
  \E h \in Hosts : cache[h] # NoBlock /\ b \in Unissued(cache[h])

IsBound(b) == \E r \in Requests : binding[r] = b

(* Every index below nextFreeIndex is accounted for: bound to a request,   *)
(* waiting in the cache of a host, or lost by a crash or by a lost answer, *)
(* and never two of these.  Nothing else is bound, cached or lost: no      *)
(* index is skipped, none is reachable past the capacity of its list.      *)
EveryIndexAccounted ==
  \A l \in StatusLists : \A i \in 0 .. (CapacityBits + BlockSize) :
    LET b == [statusListId |-> l, index |-> i]
        holds == {n \in {"bound", "cached", "leaked"} :
                    \/ n = "bound" /\ IsBound(b)
                    \/ n = "cached" /\ IsCached(b)
                    \/ n = "leaked" /\ b \in leaked}
    IN IF i < catalog[l].nextFreeIndex
         THEN i < CapacityBits /\ \E n \in holds : holds = {n}
         ELSE holds = {}

(* One host never has two blocks: while a reservation is in flight the     *)
(* cache is empty, so storing the new block overwrites no index that is    *)
(* still to be given out, and the rechecks of the cache inside             *)
(* reserveNextAvailableBlock never find one.                               *)
CacheEmptyWhileReserving == \A h \in Hosts : InFlight(h) => cache[h] = NoBlock

(* No request waits on a promise that nobody settles: a host has a         *)
(* reservation in flight exactly while one of its requests, and only one,  *)
(* owns it, and requests wait only meanwhile.                              *)
WaitersHaveAnOwner ==
  \A h \in Hosts :
    /\ InFlight(h) <=> \E r \in Requests : Owns(r, h)
    /\ \A r1, r2 \in Requests : Owns(r1, h) /\ Owns(r2, h) => r1 = r2
    /\ (\E r \in Requests : WaitsFor(r, h)) => InFlight(h)

(* A status list is sealed only when no block can be reserved from it any  *)
(* more: no request has ever been refused a block that a seal took away.   *)
SealedHasNoRoom ==
  \A l \in StatusLists :
    StateIs(l, "SEALED") => catalog[l].nextFreeIndex + BlockSize > CapacityBits

(* "No OPEN status lists available" is the truth: a reservation that ends  *)
(* that way found every list it was routed to closed or without a whole    *)
(* free block, unless conflicts used up the last attempt.                  *)
ExhaustionIsReal ==
  [][\A h \in Hosts : ScanExhausted(h) /\ ~InFlight(h)' =>
       \/ scan[h].hadConflict /\ attempt[h] = MaxRetries
       \/ \A l \in scan[h].openStatusListIds : ~HasFreeBlock(l)]_vars

(* The allocator implements its promise: at every step at most one request *)
(* gets a binding, a fresh one, and an answer never changes.               *)
Promise ==
  INSTANCE IndexAllocation WITH
    granted <- binding,
    refused <- {r \in Requests : pc[r] = "failed"}

ImplementsPromise == Promise!Spec

(* What hosts do to the containers they share with the lifecycle runs is   *)
(* to reserve the next block of an OPEN list: a patch that was computed    *)
(* from an older document, or of a list sealed since, changes nothing.     *)
Containers == INSTANCE StatusListContainers

ImplementsContainers == Containers!Spec

(* Every request that waits for a block is answered: a waiting request is  *)
(* woken when the owner succeeds or fails, and retries are bounded.        *)
EveryRequestAnswered ==
  \A r \in Requests :
    pc[r] \in {"waiting", "woken", "owner"} ~> pc[r] \in {"done", "failed"}
=============================================================================
