--------------------- MODULE StatusListAllocatorProofs ---------------------
(***************************************************************************)
(* Theorems about StatusListAllocator, for every number of hosts,          *)
(* requests and lists, every capacity, block size and number of retries.   *)
(***************************************************************************)
EXTENDS StatusListAllocator, TLAPS

----------------------------------------------------------------------------
(* The inductive invariant *)

(* A reservation that patches has read a list with a free block, and the   *)
(* one that backs off has an attempt left.                                 *)
ReservationShape ==
  \A h \in Hosts :
    /\ Awaits(h, "patching") => read[h].list \in StatusLists
    /\ Awaits(h, "backoff") => attempt[h] < MaxRetries

(* The index a patch was computed from is still the next free one, unless  *)
(* the document has another etag.                                          *)
ReadIsCurrent ==
  \A h \in Hosts : Awaits(h, "patching") =>
    LET doc == catalog[read[h].list] IN
    /\ read[h].etag <= doc.etag
    /\ read[h].etag = doc.etag => read[h].index = doc.nextFreeIndex
    /\ read[h].index + BlockSize <= CapacityBits

(* What was reserved lies below nextFreeIndex.                             *)
CachedIsReserved ==
  \A h \in Hosts : cache[h] # NoBlock =>
    /\ cache[h].nextIdx < cache[h].endExclusive
    /\ cache[h].endExclusive <= catalog[cache[h].statusListId].nextFreeIndex

(* A bound index lies below nextFreeIndex.                                 *)
BoundIsReserved ==
  \A r \in Requests : binding[r] # NoBinding =>
    binding[r].index < catalog[binding[r].statusListId].nextFreeIndex

(* The blocks of two hosts do not overlap, and a cached block holds no     *)
(* index that was already given out.                                       *)
CachesAreDisjoint ==
  \A g, h \in Hosts :
    /\ g # h /\ cache[g] # NoBlock /\ cache[h] # NoBlock
    /\ cache[g].statusListId = cache[h].statusListId
    => \/ cache[g].endExclusive <= cache[h].nextIdx
       \/ cache[h].endExclusive <= cache[g].nextIdx

(* No bound index lies in what is left of a cached block.                  *)
CachedIsUnbound ==
  \A h \in Hosts, r \in Requests :
    /\ cache[h] # NoBlock /\ binding[r] # NoBinding
    /\ cache[h].statusListId = binding[r].statusListId
    => \/ binding[r].index < cache[h].nextIdx
       \/ cache[h].endExclusive <= binding[r].index

(* Nothing is reserved past the end of a list.                             *)
WithinCapacity ==
  \A l \in StatusLists : catalog[l].nextFreeIndex <= CapacityBits

(* The first layer: types and the shape of a reservation in each phase.    *)
TypeInv == TypeOK /\ ReservationShape

(* The second: one owner per reservation and no cache meanwhile.           *)
ControlInv == WaitersHaveAnOwner /\ CacheEmptyWhileReserving

(* The third: who holds the reserved indices.                              *)
IndexInv ==
  /\ ReadIsCurrent
  /\ CachedIsReserved
  /\ BoundIsReserved
  /\ CachesAreDisjoint
  /\ CachedIsUnbound
  /\ WithinCapacity
  /\ UniqueBindings

----------------------------------------------------------------------------
(* Type correctness *)

(* The first layer. The initial state has its types.                       *)
LEMMA InitTypeInv == Init => TypeInv
BY CapacityAssumption, MaxRetriesAssumption
DEF Init, TypeInv, TypeOK, ReservationShape, Awaits, InitializingDocument,
    AbsentDocument, CatalogDocument, ListState, NoScan, Scan, NoRead, Read,
    Phase, RequestState

LEMMA CachedBindingType ==
  ASSUME TypeOK, NEW h \in Hosts, cache[h] # NoBlock
  PROVE  CachedBinding(h) \in Binding
BY DEF TypeOK, CachedBinding, Block, Binding

LEMMA AfterFirstType ==
  ASSUME NEW block \in Block
  PROVE  AfterFirst(block) \in Block \cup {NoBlock}
BY DEF AfterFirst, Block

LEMMA ReservedBlockType ==
  ASSUME NEW l \in StatusLists, NEW i \in Nat
  PROVE  ReservedBlock(l, i) \in Block
BY BlockSizeAssumption DEF ReservedBlock, Block

LEMMA UnissuedType ==
  ASSUME NEW block \in Block \cup {NoBlock}
  PROVE  Unissued(block) \in SUBSET Binding
BY NullAssumption DEF Unissued, Block, Binding

(* Writes to the catalog keep its type.                                    *)
LEMMA PatchType ==
  ASSUME TypeOK, NEW l \in StatusLists, NEW doc \in CatalogDocument,
         Patch(l, doc)
  PROVE  catalog' \in [StatusLists -> CatalogDocument]
BY DEF TypeOK, Patch, CatalogDocument

LEMMA AdvanceType ==
  ASSUME TypeOK, NEW l \in StatusLists, NEW i \in Nat,
         AdvanceNextFreeIndex(l, i)
  PROVE  catalog' \in [StatusLists -> CatalogDocument]
<1>1. [catalog[l] EXCEPT !.nextFreeIndex = i + BlockSize] \in CatalogDocument
  BY BlockSizeAssumption DEF TypeOK, CatalogDocument
<1>2. QED
  BY <1>1, PatchType DEF AdvanceNextFreeIndex

LEMMA PatchStateType ==
  ASSUME TypeOK, NEW l \in StatusLists, NEW state \in ListState,
         PatchState(l, state)
  PROVE  catalog' \in [StatusLists -> CatalogDocument]
<1>1. [catalog[l] EXCEPT !.state = state] \in CatalogDocument
  BY DEF TypeOK, CatalogDocument
<1>2. QED
  BY <1>1, PatchType DEF PatchState

(* Ending a reservation keeps the types and its shape.                     *)
LEMMA ClearReservationType ==
  ASSUME TypeInv, NEW h \in Hosts, ClearReservation(h)
  PROVE  /\ phase' \in [Hosts -> Phase]
         /\ attempt' \in [Hosts -> 0..MaxRetries]
         /\ scan' \in [Hosts -> Scan]
         /\ read' \in [Hosts -> Read]
         /\ ReservationShape'
<1> USE DEF TypeInv, TypeOK, ClearReservation
<1>1. phase' \in [Hosts -> Phase] /\ attempt' \in [Hosts -> 0..MaxRetries]
  BY MaxRetriesAssumption DEF Phase
<1>2. scan' \in [Hosts -> Scan] /\ read' \in [Hosts -> Read]
  BY DEF Scan, NoScan, Read, NoRead
<1>3. ReservationShape'
  BY DEF ReservationShape, Awaits
<1>4. QED
  BY <1>1, <1>2, <1>3

(* So does answering the requests that waited for it.                      *)
LEMMA SettleType ==
  ASSUME TypeInv, NEW h \in Hosts, NEW answer \in RequestState,
         Settle(h, answer)
  PROVE  pc' \in [Requests -> RequestState]
BY DEF Settle, TypeInv, TypeOK, RequestState

LEMMA AllocateType ==
  ASSUME TypeInv, NEW r \in Requests, AllocateStatusBinding(r)
  PROVE  TypeInv'
<1> USE DEF TypeInv, TypeOK
<1>h. HostOf[r] \in Hosts
  BY HostOfAssumption
<1>1. CASE TakeFromCache(r)
  <2>1. cache' \in [Hosts -> Block \cup {NoBlock}]
    BY <1>1, <1>h, AfterFirstType DEF TakeFromCache
  <2>2. binding' \in [Requests -> Binding \cup {NoBinding}]
    BY <1>1, <1>h, CachedBindingType DEF TakeFromCache
  <2>3. QED
    BY <1>1, <2>1, <2>2 DEF TakeFromCache, ReservationShape, Awaits, RequestState
<1>2. CASE WaitForInFlightReservation(r)
  BY <1>2 DEF WaitForInFlightReservation, ReservationShape, Awaits, RequestState
<1>3. CASE StartReservation(r)
  BY <1>3, <1>h
  DEF StartReservation, BecomeOwner, ReservationShape, Awaits, Phase, RequestState
<1>4. QED
  BY <1>1, <1>2, <1>3 DEF AllocateStatusBinding

LEMMA ResolveType ==
  ASSUME TypeInv, NEW h \in Hosts, NEW b \in Binding, ResolveWith(h, b)
  PROVE  /\ pc' \in [Requests -> RequestState]
         /\ binding' \in [Requests -> Binding \cup {NoBinding}]
<1>1. pc' \in [Requests -> RequestState]
  BY SettleType DEF ResolveWith, RequestState
<1>2. binding' \in [Requests -> Binding \cup {NoBinding}]
  BY DEF ResolveWith, TypeInv, TypeOK
<1>3. QED
  BY <1>1, <1>2

LEMMA RejectType ==
  ASSUME TypeInv, NEW h \in Hosts, Reject(h),
         UNCHANGED <<routable, cache>>,
         catalog' \in [StatusLists -> CatalogDocument],
         leaked' \in SUBSET Binding
  PROVE  TypeInv'
<1>1. pc' \in [Requests -> RequestState]
  BY SettleType DEF Reject, RequestState
<1>2. QED
  BY <1>1, ClearReservationType DEF Reject, Settle, TypeInv, TypeOK

LEMMA ResolveFromCacheType ==
  ASSUME TypeInv, NEW h \in Hosts, cache[h] # NoBlock, ResolveFromCache(h),
         UNCHANGED <<catalog, routable, leaked>>
  PROVE  TypeInv'
<1>1. cache' \in [Hosts -> Block \cup {NoBlock}]
  BY AfterFirstType DEF ResolveFromCache, TypeInv, TypeOK
<1>2. CachedBinding(h) \in Binding
  BY CachedBindingType DEF TypeInv
<1>3. QED
  BY <1>1, <1>2, ClearReservationType, ResolveType
  DEF ResolveFromCache, ResolveWith, Settle, TypeInv, TypeOK

LEMMA LoseReservedBlockType ==
  ASSUME TypeInv, NEW h \in Hosts, LoseReservedBlock(h)
  PROVE  /\ catalog' \in [StatusLists -> CatalogDocument]
         /\ leaked' \in SUBSET Binding
<1>1. read[h].list \in StatusLists /\ read[h].index \in Nat
  BY DEF LoseReservedBlock, PatchApplies, TypeInv, TypeOK, ReservationShape, Read
<1>2. catalog' \in [StatusLists -> CatalogDocument]
  BY <1>1, AdvanceType DEF LoseReservedBlock, PatchApplies, TypeInv
<1>3. Unissued(ReservedBlock(read[h].list, read[h].index)) \in SUBSET Binding
  BY <1>1, ReservedBlockType, UnissuedType
<1>4. QED
  BY <1>2, <1>3 DEF LoseReservedBlock, TypeInv, TypeOK

LEMMA ReserveType ==
  ASSUME TypeInv, NEW h \in Hosts, ReserveNextAvailableBlock(h)
  PROVE  TypeInv'
<1> USE DEF TypeInv, TypeOK
<1>1. CASE GetRoutableStatusListIds(h)
  <2>1. scan' \in [Hosts -> Scan]
    BY <1>1 DEF GetRoutableStatusListIds, Scan
  <2>2. QED
    BY <1>1, <2>1
    DEF GetRoutableStatusListIds, Await, Awaits, ReservationShape, Phase
<1>2. CASE ReadFreeBlock(h)
  <2>1. PICK l \in scan[h].remaining :
          /\ HasFreeBlock(l)
          /\ read' = [read EXCEPT ![h] = [list |-> l,
               index |-> catalog[l].nextFreeIndex, etag |-> catalog[l].etag]]
          /\ scan' = [scan EXCEPT ![h].remaining = @ \ {l}]
    BY <1>2 DEF ReadFreeBlock
  <2>2. l \in StatusLists
    BY DEF Scan
  <2>3. read' \in [Hosts -> Read]
    BY <2>1, <2>2 DEF Read, CatalogDocument
  <2>4. scan' \in [Hosts -> Scan]
    BY <2>1 DEF Scan
  <2>5. ReservationShape'
    BY <1>2, <2>1, <2>2 DEF ReadFreeBlock, Await, Awaits, ReservationShape
  <2>6. QED
    BY <1>2, <2>3, <2>4, <2>5 DEF ReadFreeBlock, Await, Phase
<1>3. CASE SkipFullOrClosed(h)
  <2>1. scan' \in [Hosts -> Scan]
    BY <1>3 DEF SkipFullOrClosed, Scan
  <2>2. QED
    BY <1>3, <2>1 DEF SkipFullOrClosed, Awaits, ReservationShape
<1>4. CASE PatchSucceeds(h)
  <2>1. read[h].list \in StatusLists /\ read[h].index \in Nat
    BY <1>4 DEF PatchSucceeds, PatchApplies, ReservationShape, Read
  <2>2. catalog' \in [StatusLists -> CatalogDocument]
    BY <1>4, <2>1, AdvanceType DEF PatchSucceeds, PatchApplies
  <2>3. cache' \in [Hosts -> Block \cup {NoBlock}]
    BY <1>4, <2>1, ReservedBlockType, AfterFirstType DEF PatchSucceeds
  <2>4. [statusListId |-> read[h].list, index |-> read[h].index] \in Binding
    BY <2>1 DEF Binding
  <2>5. QED
    BY <1>4, <2>2, <2>3, <2>4, ClearReservationType, ResolveType
    DEF PatchSucceeds, ResolveWith, Settle
<1>5. CASE PatchConflicts(h)
  <2>1. scan' \in [Hosts -> Scan]
    BY <1>5 DEF PatchConflicts, Scan
  <2>2. read' \in [Hosts -> Read]
    BY <1>5 DEF PatchConflicts, Read, NoRead
  <2>3. QED
    BY <1>5, <2>1, <2>2
    DEF PatchConflicts, Await, Awaits, ReservationShape, Phase
<1>6. CASE PatchAppliedButFails(h)
  BY <1>6, LoseReservedBlockType, RejectType DEF PatchAppliedButFails
<1>7. CASE ScanExhausted(h)
  <2>1. CASE cache[h] # NoBlock
    BY <1>7, <2>1, ResolveFromCacheType DEF ScanExhausted
  <2>2. CASE cache[h] = NoBlock /\ MayRetry(h)
    BY <1>7, <2>2
    DEF ScanExhausted, MayRetry, Await, Awaits, ReservationShape, Phase
  <2>3. CASE cache[h] = NoBlock /\ ~MayRetry(h)
    BY <1>7, <2>3, RejectType DEF ScanExhausted
  <2>4. QED
    BY <2>1, <2>2, <2>3
<1>8. CASE NextAttempt(h)
  <2>1. CASE cache[h] # NoBlock
    BY <1>8, <2>1, ResolveFromCacheType DEF NextAttempt
  <2>2. CASE cache[h] = NoBlock
    <3>1. attempt' \in [Hosts -> 0..MaxRetries]
      BY <1>8, <2>2, MaxRetriesAssumption
      DEF NextAttempt, Awaits, ReservationShape
    <3>2. QED
      BY <1>8, <2>2, <3>1
      DEF NextAttempt, Await, Awaits, ReservationShape, Phase
  <2>3. QED
    BY <2>1, <2>2
<1>9. CASE CallFails(h)
  BY <1>9, RejectType DEF CallFails
<1>10. QED
  BY <1>1, <1>2, <1>3, <1>4, <1>5, <1>6, <1>7, <1>8, <1>9
  DEF ReserveNextAvailableBlock, PatchAnswered

LEMMA ForgetHostType ==
  ASSUME TypeInv, NEW h \in Hosts, ForgetHost(h),
         catalog' \in [StatusLists -> CatalogDocument],
         leaked' \in SUBSET Binding
  PROVE  TypeInv'
<1>1. /\ cache' \in [Hosts -> Block \cup {NoBlock}]
      /\ pc' \in [Requests -> RequestState]
  BY DEF ForgetHost, RequestState, TypeInv, TypeOK
<1>2. QED
  BY <1>1, ClearReservationType DEF ForgetHost, TypeInv, TypeOK

LEMMA RestartType ==
  ASSUME TypeInv, NEW h \in Hosts, Restart(h) \/ RestartAfterPatch(h)
  PROVE  TypeInv'
<1>1. CASE Restart(h)
  BY <1>1, UnissuedType, ForgetHostType DEF Restart, TypeInv, TypeOK
<1>2. CASE RestartAfterPatch(h)
  BY <1>2, LoseReservedBlockType, ForgetHostType DEF RestartAfterPatch
<1>3. QED
  BY <1>1, <1>2

LEMMA LifecycleType ==
  ASSUME TypeInv, NEW l \in StatusLists, Lifecycle(l)
  PROVE  TypeInv'
<1> USE DEF TypeInv, TypeOK, ReservationShape, Awaits, hostVars
<1>1. CASE OpenStatusList(l)
  BY <1>1, PatchStateType DEF OpenStatusList, OpenIfInitializing, ListState
<1>2. CASE SealStatusList(l)
  BY <1>2, PatchStateType DEF SealStatusList, SealIfClosable, ListState
<1>3. CASE AddRoutableStatusListId(l) \/ RemoveRoutableStatusListId(l)
  BY <1>3 DEF AddRoutableStatusListId, RemoveRoutableStatusListId
<1>4. QED
  BY <1>1, <1>2, <1>3 DEF Lifecycle

(* Every step keeps the first layer.                                       *)
LEMMA NextTypeInv == TypeInv /\ [Next]_vars => TypeInv'
<1> SUFFICES ASSUME TypeInv, [Next]_vars PROVE TypeInv'
  OBVIOUS
<1>1. CASE UNCHANGED vars
  BY <1>1 DEF vars, TypeInv, TypeOK, ReservationShape, Awaits
<1>2. CASE Next
  BY <1>2, AllocateType, ReserveType, RestartType, LifecycleType DEF Next
<1>3. QED
  BY <1>1, <1>2

(* The first layer is invariant.                                           *)
THEOREM TypeCorrect == Spec => []TypeInv
BY InitTypeInv, NextTypeInv, PTL DEF Spec

(* Every variable keeps its type in every reachable state, and a           *)
(* reservation that patches holds a list it read.                          *)
THEOREM AllocatorTypeOK == Spec => []TypeOK
<1>1. TypeInv => TypeOK
  BY DEF TypeInv
<1>2. QED
  BY <1>1, TypeCorrect, PTL

----------------------------------------------------------------------------
(* One reservation per host, with one owner and an empty cache *)

(* The second layer. Nobody owns a reservation at first.                   *)
LEMMA InitControlInv == Init => ControlInv
BY HostOfAssumption
DEF Init, ControlInv, WaitersHaveAnOwner, CacheEmptyWhileReserving, InFlight,
    Owns, WaitsFor

(* A settled reservation leaves nobody waiting on its host, and the other  *)
(* hosts alone.                                                            *)
LEMMA SettleControl ==
  ASSUME TypeInv, WaitersHaveAnOwner, NEW h \in Hosts,
         NEW answer \in {"done", "failed"}, Settle(h, answer)
  PROVE  WaitersHaveAnOwner'
<1>1. \A r \in Requests : ~Owns(r, h)' /\ ~WaitsFor(r, h)'
  BY DEF Settle, Owns, WaitsFor, TypeInv, TypeOK
<1>2. \A r \in Requests, g \in Hosts :
        g # h => /\ Owns(r, g)' <=> Owns(r, g)
                 /\ WaitsFor(r, g)' <=> WaitsFor(r, g)
  BY DEF Settle, Owns, WaitsFor, TypeInv, TypeOK
<1>3. ~InFlight(h)' /\ \A g \in Hosts : g # h => (InFlight(g)' <=> InFlight(g))
  BY DEF Settle, ClearReservation, InFlight, TypeInv, TypeOK
<1>4. QED
  BY <1>1, <1>2, <1>3 DEF WaitersHaveAnOwner

(* When a reservation ends, its host alone may get a cache.                *)
LEMMA SettleCacheEmpty ==
  ASSUME TypeInv, CacheEmptyWhileReserving, NEW h \in Hosts,
         ClearReservation(h),
         \A g \in Hosts : g # h => cache'[g] = cache[g]
  PROVE  CacheEmptyWhileReserving'
BY DEF ClearReservation, CacheEmptyWhileReserving, InFlight, TypeInv, TypeOK

(* A step from one await of a reservation to the next.                     *)
LEMMA AwaitControl ==
  ASSUME TypeInv, ControlInv, NEW h \in Hosts, InFlight(h),
         NEW p \in Phase \ {"none"}, Await(h, p), UNCHANGED <<cache, pc>>
  PROVE  ControlInv'
<1>1. \A g \in Hosts : InFlight(g)' <=> InFlight(g)
  BY DEF Await, InFlight, TypeInv, TypeOK
<1>2. \A r \in Requests, g \in Hosts :
        (Owns(r, g)' <=> Owns(r, g)) /\ (WaitsFor(r, g)' <=> WaitsFor(r, g))
  BY DEF Owns, WaitsFor
<1>3. QED
  BY <1>1, <1>2 DEF ControlInv, WaitersHaveAnOwner, CacheEmptyWhileReserving

LEMMA AllocateControl ==
  ASSUME TypeInv, ControlInv, NEW r \in Requests, AllocateStatusBinding(r)
  PROVE  ControlInv'
<1> USE DEF ControlInv
<1>h. HostOf[r] \in Hosts
  BY HostOfAssumption
<1>o. \A q \in Requests, g \in Hosts :
        q # r => (pc'[q] = pc[q] =>
                   /\ Owns(q, g)' <=> Owns(q, g)
                   /\ WaitsFor(q, g)' <=> WaitsFor(q, g))
  BY DEF Owns, WaitsFor
<1>n. \A g \in Hosts : Runnable(r) => ~Owns(r, g) /\ ~WaitsFor(r, g)
  BY DEF Runnable, Owns, WaitsFor
<1>1. CASE TakeFromCache(r)
  <2>1. ~InFlight(HostOf[r])
    BY <1>1, <1>h DEF TakeFromCache, CacheEmptyWhileReserving
  <2>2. CacheEmptyWhileReserving'
    BY <1>1, <1>h, <2>1
    DEF TakeFromCache, CacheEmptyWhileReserving, InFlight, TypeInv, TypeOK
  <2>3. \A q \in Requests, g \in Hosts :
          (Owns(q, g)' <=> Owns(q, g)) /\ (WaitsFor(q, g)' <=> WaitsFor(q, g))
    BY <1>1, <1>n DEF TakeFromCache, Owns, WaitsFor, TypeInv, TypeOK
  <2>4. WaitersHaveAnOwner'
    BY <1>1, <2>3 DEF TakeFromCache, WaitersHaveAnOwner, InFlight
  <2>5. QED
    BY <2>2, <2>4
<1>2. CASE WaitForInFlightReservation(r)
  <2>1. \A q \in Requests, g \in Hosts :
          /\ Owns(q, g)' <=> Owns(q, g)
          /\ WaitsFor(q, g)' <=> WaitsFor(q, g) \/ (q = r /\ g = HostOf[r])
    BY <1>2, <1>n
    DEF WaitForInFlightReservation, Owns, WaitsFor, TypeInv, TypeOK
  <2>2. WaitersHaveAnOwner'
    BY <1>2, <2>1 DEF WaitForInFlightReservation, WaitersHaveAnOwner, InFlight
  <2>3. CacheEmptyWhileReserving'
    BY <1>2 DEF WaitForInFlightReservation, CacheEmptyWhileReserving, InFlight
  <2>4. QED
    BY <2>2, <2>3
<1>3. CASE StartReservation(r)
  <2>1. \A q \in Requests, g \in Hosts :
          /\ Owns(q, g)' <=> Owns(q, g) \/ (q = r /\ g = HostOf[r])
          /\ WaitsFor(q, g)' <=> WaitsFor(q, g)
    BY <1>3, <1>n DEF StartReservation, BecomeOwner, Owns, WaitsFor, TypeInv, TypeOK
  <2>2. \A g \in Hosts : InFlight(g)' <=> InFlight(g) \/ g = HostOf[r]
    BY <1>3, <1>h DEF StartReservation, BecomeOwner, InFlight, TypeInv, TypeOK
  <2>3. ~InFlight(HostOf[r])
    BY <1>3 DEF StartReservation
  <2>4. WaitersHaveAnOwner'
    BY <1>h, <2>1, <2>2, <2>3 DEF WaitersHaveAnOwner
  <2>5. CacheEmptyWhileReserving'
    BY <1>3, <2>2 DEF StartReservation, BecomeOwner, CacheEmptyWhileReserving
  <2>6. QED
    BY <2>4, <2>5
<1>4. QED
  BY <1>1, <1>2, <1>3 DEF AllocateStatusBinding

LEMMA RejectControl ==
  ASSUME TypeInv, ControlInv, NEW h \in Hosts, Reject(h), UNCHANGED cache
  PROVE  ControlInv'
BY SettleControl, SettleCacheEmpty DEF Reject, Settle, ControlInv

LEMMA ReserveControl ==
  ASSUME TypeInv, ControlInv, NEW h \in Hosts, ReserveNextAvailableBlock(h)
  PROVE  ControlInv'
<1> USE DEF ControlInv
<1>1. CASE GetRoutableStatusListIds(h)
  BY <1>1, AwaitControl DEF GetRoutableStatusListIds, Awaits, InFlight, Phase
<1>2. CASE ReadFreeBlock(h)
  BY <1>2, AwaitControl DEF ReadFreeBlock, Awaits, InFlight, Phase
<1>3. CASE SkipFullOrClosed(h)
  BY <1>3
  DEF SkipFullOrClosed, WaitersHaveAnOwner, CacheEmptyWhileReserving, InFlight,
      Owns, WaitsFor
<1>4. CASE PatchSucceeds(h)
  <2>1. Settle(h, "done")
    BY <1>4 DEF PatchSucceeds, ResolveWith
  <2>2. CacheEmptyWhileReserving'
    BY <1>4, <2>1, SettleCacheEmpty DEF PatchSucceeds, Settle, TypeInv, TypeOK
  <2>3. QED
    BY <2>1, <2>2, SettleControl
<1>5. CASE PatchConflicts(h)
  BY <1>5, AwaitControl DEF PatchConflicts, Awaits, InFlight, Phase
<1>6. CASE PatchAppliedButFails(h)
  BY <1>6, RejectControl DEF PatchAppliedButFails
<1>c. InFlight(h) => cache[h] = NoBlock
  BY DEF CacheEmptyWhileReserving
<1>7. CASE ScanExhausted(h)
  <2>1. cache[h] = NoBlock /\ InFlight(h)
    BY <1>7, <1>c DEF ScanExhausted, ScanIsOver, Awaits, InFlight
  <2>2. CASE MayRetry(h)
    BY <1>7, <2>1, <2>2, AwaitControl DEF ScanExhausted, Phase
  <2>3. CASE ~MayRetry(h)
    BY <1>7, <2>1, <2>3, RejectControl DEF ScanExhausted
  <2>4. QED
    BY <2>2, <2>3
<1>8. CASE NextAttempt(h)
  <2>1. cache[h] = NoBlock /\ InFlight(h)
    BY <1>8, <1>c DEF NextAttempt, Awaits, InFlight
  <2>2. QED
    BY <1>8, <2>1, AwaitControl DEF NextAttempt, Phase
<1>9. CASE CallFails(h)
  BY <1>9, RejectControl DEF CallFails
<1>10. QED
  BY <1>1, <1>2, <1>3, <1>4, <1>5, <1>6, <1>7, <1>8, <1>9
  DEF ReserveNextAvailableBlock, PatchAnswered

LEMMA RestartControl ==
  ASSUME TypeInv, ControlInv, NEW h \in Hosts, ForgetHost(h)
  PROVE  ControlInv'
<1> USE DEF ControlInv
<1>1. \A r \in Requests, g \in Hosts :
        /\ Owns(r, g)' <=> Owns(r, g) /\ g # h
        /\ WaitsFor(r, g)' <=> WaitsFor(r, g) /\ g # h
  BY DEF ForgetHost, IsServing, Owns, WaitsFor, TypeInv, TypeOK
<1>2. \A g \in Hosts : InFlight(g)' <=> InFlight(g) /\ g # h
  BY DEF ForgetHost, ClearReservation, InFlight, TypeInv, TypeOK
<1>3. WaitersHaveAnOwner'
  BY <1>1, <1>2 DEF WaitersHaveAnOwner
<1>4. CacheEmptyWhileReserving'
  BY <1>2 DEF ForgetHost, CacheEmptyWhileReserving, TypeInv, TypeOK
<1>5. QED
  BY <1>3, <1>4

(* Every step keeps the second layer.                                      *)
LEMMA NextControlInv == TypeInv /\ ControlInv /\ [Next]_vars => ControlInv'
<1> SUFFICES ASSUME TypeInv, ControlInv, [Next]_vars PROVE ControlInv'
  OBVIOUS
<1> DEFINE HostsUnchanged == UNCHANGED <<cache, phase, pc>>
<1>u. HostsUnchanged => ControlInv'
  BY DEF ControlInv, WaitersHaveAnOwner, CacheEmptyWhileReserving, InFlight,
         Owns, WaitsFor
<1>1. CASE UNCHANGED vars
  BY <1>1, <1>u DEF vars
<1>2. ASSUME NEW l \in StatusLists, Lifecycle(l) PROVE ControlInv'
  BY <1>2, <1>u
  DEF Lifecycle, OpenStatusList, SealStatusList, AddRoutableStatusListId,
      RemoveRoutableStatusListId, hostVars
<1>3. ASSUME NEW h \in Hosts, Restart(h) \/ RestartAfterPatch(h)
      PROVE  ControlInv'
  BY <1>3, RestartControl DEF Restart, RestartAfterPatch
<1>4. QED
  BY <1>1, <1>2, <1>3, AllocateControl, ReserveControl DEF Next

(* The second layer is invariant: each host's reservation has one owner,   *)
(* and no cached block meanwhile.                                          *)
THEOREM ControlCorrect == Spec => []ControlInv
BY InitControlInv, NextControlInv, TypeCorrect, PTL DEF Spec

(* No request waits on a reservation without an owner, and no host has two *)
(* owners: the promise of inFlightReservation is always settled by one.    *)
THEOREM OneOwnerPerReservation == Spec => []WaitersHaveAnOwner
<1>1. ControlInv => WaitersHaveAnOwner
  BY DEF ControlInv
<1>2. QED
  BY <1>1, ControlCorrect, PTL

(* A reservation never overwrites a block that still has indices.          *)
THEOREM NoBlockOverwritten == Spec => []CacheEmptyWhileReserving
<1>1. ControlInv => CacheEmptyWhileReserving
  BY DEF ControlInv
<1>2. QED
  BY <1>1, ControlCorrect, PTL

----------------------------------------------------------------------------
(* No index is given out twice *)

(* The catalog documents only grow, and a written one has a new etag.      *)
CatalogGrows ==
  \A l \in StatusLists :
    /\ catalog'[l].nextFreeIndex >= catalog[l].nextFreeIndex
    /\ \/ catalog'[l] = catalog[l]
       \/ catalog'[l].etag > catalog[l].etag

(* Whoever still patches after a step was patching before, with what it    *)
(* had read.                                                               *)
ReadsKept ==
  \A h \in Hosts : Awaits(h, "patching")' =>
    Awaits(h, "patching") /\ read'[h] = read[h]

(* The third layer. Nothing is reserved at first.                          *)
LEMMA InitIndexInv == Init => IndexInv
BY CapacityAssumption
DEF Init, IndexInv, ReadIsCurrent, CachedIsReserved, BoundIsReserved,
    CachesAreDisjoint, CachedIsUnbound, WithinCapacity, UniqueBindings, Awaits,
    InitializingDocument, AbsentDocument

(* A read document with the current etag stays the current one, because    *)
(* every write changes the etag.                                           *)
LEMMA ReadStaysCurrent ==
  ASSUME TypeInv, TypeInv', ReadIsCurrent, CatalogGrows, ReadsKept
  PROVE  ReadIsCurrent'
<1> SUFFICES ASSUME NEW h \in Hosts, Awaits(h, "patching")'
             PROVE  LET doc == catalog[read[h].list] IN
                    (/\ read[h].etag <= doc.etag
                     /\ read[h].etag = doc.etag => read[h].index = doc.nextFreeIndex
                     /\ read[h].index + BlockSize <= CapacityBits)'
  BY DEF ReadIsCurrent
<1> DEFINE l == read[h].list
<1>1. Awaits(h, "patching") /\ read'[h] = read[h] /\ l \in StatusLists
  BY DEF ReadsKept, TypeInv, ReservationShape
<1>2. /\ catalog[l].etag \in Nat /\ catalog'[l].etag \in Nat
      /\ read[h].etag \in Nat
  BY <1>1 DEF TypeInv, TypeOK, CatalogDocument, Read
<1>3. /\ read[h].etag <= catalog[l].etag
      /\ read[h].etag = catalog[l].etag => read[h].index = catalog[l].nextFreeIndex
      /\ read[h].index + BlockSize <= CapacityBits
  BY <1>1 DEF ReadIsCurrent
<1>4. CASE catalog'[l] = catalog[l]
  BY <1>1, <1>3, <1>4
<1>5. CASE catalog'[l].etag > catalog[l].etag
  BY <1>1, <1>2, <1>3, <1>5
<1>6. QED
  BY <1>1, <1>4, <1>5 DEF CatalogGrows

(* What lies below nextFreeIndex goes on to, because it only grows.        *)
LEMMA ReservedStaysReserved ==
  ASSUME TypeInv, TypeInv', CatalogGrows
  PROVE  /\ CachedIsReserved =>
              \A h \in Hosts : cache[h] # NoBlock =>
                cache[h].endExclusive
                  <= catalog'[cache[h].statusListId].nextFreeIndex
         /\ BoundIsReserved =>
              \A r \in Requests : binding[r] # NoBinding =>
                binding[r].index < catalog'[binding[r].statusListId].nextFreeIndex
<1>1. \A l \in StatusLists : /\ catalog[l].nextFreeIndex \in Nat
                             /\ catalog'[l].nextFreeIndex \in Nat
  BY DEF TypeInv, TypeOK, CatalogDocument
<1>2. \A h \in Hosts : cache[h] # NoBlock =>
        cache[h].statusListId \in StatusLists /\ cache[h].endExclusive \in Nat
  BY DEF TypeInv, TypeOK, Block
<1>3. \A r \in Requests : binding[r] # NoBinding =>
        binding[r].statusListId \in StatusLists /\ binding[r].index \in Nat
  BY DEF TypeInv, TypeOK, Binding
<1>4. QED
  BY <1>1, <1>2, <1>3 DEF CatalogGrows, CachedIsReserved, BoundIsReserved

(* A step that gives out nothing, and at most forgets a cached block.      *)
LEMMA NothingIssued ==
  ASSUME TypeInv, TypeInv', IndexInv, CatalogGrows, ReadsKept,
         WithinCapacity', UNCHANGED binding,
         \A h \in Hosts : cache'[h] \in {cache[h], NoBlock}
  PROVE  IndexInv'
<1> USE DEF IndexInv
<1>1. ReadIsCurrent'
  BY ReadStaysCurrent
<1>2. CachedIsReserved'
  BY ReservedStaysReserved DEF CachedIsReserved
<1>3. BoundIsReserved'
  BY ReservedStaysReserved DEF BoundIsReserved
<1>4. CachesAreDisjoint'
  BY DEF CachesAreDisjoint
<1>5. CachedIsUnbound'
  BY DEF CachedIsUnbound
<1>6. UniqueBindings'
  BY DEF UniqueBindings
<1>7. QED
  BY <1>1, <1>2, <1>3, <1>4, <1>5, <1>6

(* A step that leaves the catalog alone is a case of this.                 *)
LEMMA CatalogUnchangedGrows ==
  ASSUME TypeInv, UNCHANGED catalog
  PROVE  CatalogGrows /\ (WithinCapacity => WithinCapacity')
BY DEF CatalogGrows, WithinCapacity, TypeInv, TypeOK, CatalogDocument

(* The first index of a cached block is given to one request.              *)
LEMMA TakeFromCacheIndex ==
  ASSUME TypeInv, TypeInv', IndexInv, NEW r \in Requests, TakeFromCache(r)
  PROVE  IndexInv'
<1> DEFINE h == HostOf[r]
           b == cache[h]
<1> USE DEF IndexInv
<1>h. h \in Hosts
  BY HostOfAssumption
<1>b. /\ b # NoBlock /\ b \in Block
      /\ b.statusListId \in StatusLists /\ b.nextIdx \in Nat
      /\ b.endExclusive \in Nat /\ b.nextIdx < b.endExclusive
      /\ b.endExclusive <= catalog[b.statusListId].nextFreeIndex
      /\ catalog[b.statusListId].nextFreeIndex \in Nat
  BY <1>h DEF TakeFromCache, CachedIsReserved, TypeInv, TypeOK, Block,
              CatalogDocument
<1>c. /\ \A g \in Hosts : g # h => cache'[g] = cache[g]
      /\ cache'[h] # NoBlock =>
           cache'[h] = [b EXCEPT !.nextIdx = b.nextIdx + 1]
           /\ b.nextIdx + 1 < b.endExclusive
  BY <1>h, <1>b DEF TakeFromCache, AfterFirst, TypeInv, TypeOK
<1>n. cache'[h] # NoBlock =>
        /\ cache'[h].statusListId = b.statusListId
        /\ cache'[h].nextIdx = b.nextIdx + 1
        /\ cache'[h].endExclusive = b.endExclusive
  BY <1>b, <1>c DEF Block
<1>d. /\ binding'[r] = [statusListId |-> b.statusListId, index |-> b.nextIdx]
      /\ \A q \in Requests : q # r => binding'[q] = binding[q]
  BY DEF TakeFromCache, CachedBinding, TypeInv, TypeOK
<1>t. /\ \A q \in Requests : binding[q] # NoBinding => binding[q].index \in Nat
      /\ \A g \in Hosts : cache[g] # NoBlock =>
           cache[g].nextIdx \in Nat /\ cache[g].endExclusive \in Nat
           /\ cache[g].nextIdx < cache[g].endExclusive
  BY DEF TypeInv, TypeOK, Binding, Block, CachedIsReserved
<1>1. ReadIsCurrent'
  BY CatalogUnchangedGrows, ReadStaysCurrent
  DEF TakeFromCache, ReadsKept, Awaits
<1>2. CachedIsReserved'
  BY <1>b, <1>c, <1>n DEF CachedIsReserved, TakeFromCache
<1>3. BoundIsReserved'
  BY <1>b, <1>d DEF BoundIsReserved, TakeFromCache
<1>4. CachesAreDisjoint'
  <2> SUFFICES ASSUME NEW f \in Hosts, NEW g \in Hosts, f # g,
                      cache'[f] # NoBlock, cache'[g] # NoBlock,
                      cache'[f].statusListId = cache'[g].statusListId
               PROVE  \/ cache'[f].endExclusive <= cache'[g].nextIdx
                      \/ cache'[g].endExclusive <= cache'[f].nextIdx
    BY DEF CachesAreDisjoint
  <2>1. CASE f = h
    BY <1>b, <1>c, <1>n, <1>t, <2>1 DEF CachesAreDisjoint
  <2>2. CASE g = h
    BY <1>b, <1>c, <1>n, <1>t, <2>2 DEF CachesAreDisjoint
  <2>3. CASE f # h /\ g # h
    BY <1>c, <2>3 DEF CachesAreDisjoint
  <2>4. QED
    BY <2>1, <2>2, <2>3
<1>5. CachedIsUnbound'
  <2> SUFFICES ASSUME NEW g \in Hosts, NEW q \in Requests,
                      cache'[g] # NoBlock, binding'[q] # NoBinding,
                      cache'[g].statusListId = binding'[q].statusListId
               PROVE  \/ binding'[q].index < cache'[g].nextIdx
                      \/ cache'[g].endExclusive <= binding'[q].index
    BY DEF CachedIsUnbound
  <2>1. CASE g = h /\ q = r
    BY <1>b, <1>n, <1>d, <2>1
  <2>2. CASE g = h /\ q # r
    BY <1>b, <1>n, <1>d, <1>t, <2>2 DEF CachedIsUnbound
  <2>3. CASE g # h /\ q = r
    BY <1>h, <1>b, <1>c, <1>d, <1>t, <2>3 DEF CachesAreDisjoint
  <2>4. CASE g # h /\ q # r
    BY <1>c, <1>d, <2>4 DEF CachedIsUnbound
  <2>5. QED
    BY <2>1, <2>2, <2>3, <2>4
<1>6. WithinCapacity'
  BY DEF TakeFromCache, WithinCapacity
<1>7. UniqueBindings'
  <2>1. ASSUME NEW q \in Requests, q # r, binding'[q] = binding'[r]
        PROVE  FALSE
    <3>1. binding[q] = [statusListId |-> b.statusListId, index |-> b.nextIdx]
      BY <1>d, <2>1
    <3>2. binding[q] # NoBinding
      BY <1>b, <3>1, NullAssumption DEF Binding
    <3>3. binding[q].statusListId = b.statusListId /\ binding[q].index = b.nextIdx
      BY <3>1
    <3>4. QED
      BY <1>h, <1>b, <3>2, <3>3 DEF CachedIsUnbound
  <2>2. QED
    BY <1>d, <2>1 DEF UniqueBindings
<1>8. QED
  BY <1>1, <1>2, <1>3, <1>4, <1>5, <1>6, <1>7

(* The effect of an applied patch on the catalog.                          *)
LEMMA PatchAppliesEffect ==
  ASSUME TypeInv, IndexInv, NEW h \in Hosts, PatchApplies(h)
  PROVE  /\ read[h].list \in StatusLists
         /\ read[h].index \in Nat
         /\ catalog[read[h].list].nextFreeIndex = read[h].index
         /\ catalog'[read[h].list].nextFreeIndex = read[h].index + BlockSize
         /\ read[h].index + BlockSize <= CapacityBits
         /\ \A l \in StatusLists : l # read[h].list => catalog'[l] = catalog[l]
         /\ CatalogGrows
         /\ WithinCapacity'
<1> DEFINE l == read[h].list
           doc == [catalog[l] EXCEPT !.nextFreeIndex = read[h].index + BlockSize]
<1> USE DEF TypeInv, TypeOK
<1>1. l \in StatusLists /\ read[h].index \in Nat
  BY DEF PatchApplies, ReservationShape, Read
<1>2. /\ catalog[l].nextFreeIndex = read[h].index
      /\ read[h].index + BlockSize <= CapacityBits
  BY DEF PatchApplies, EtagMatches, IndexInv, ReadIsCurrent
<1>3. catalog' = [catalog EXCEPT ![l] = [doc EXCEPT !.etag = doc.etag + 1]]
  BY DEF PatchApplies, AdvanceNextFreeIndex, Patch
<1>4. /\ catalog'[l].nextFreeIndex = read[h].index + BlockSize
      /\ catalog'[l].etag = catalog[l].etag + 1
  BY <1>1, <1>3 DEF CatalogDocument
<1>5. \A m \in StatusLists : m # l => catalog'[m] = catalog[m]
  BY <1>3
<1>6. \A m \in StatusLists : catalog[m].nextFreeIndex \in Nat /\ catalog[m].etag \in Nat
  BY DEF CatalogDocument
<1>7. CatalogGrows
  BY <1>1, <1>2, <1>4, <1>5, <1>6, BlockSizeAssumption DEF CatalogGrows
<1>8. WithinCapacity'
  BY <1>2, <1>4, <1>5 DEF IndexInv, WithinCapacity
<1>9. QED
  BY <1>1, <1>2, <1>4, <1>5, <1>7, <1>8

(* The reserved block: its first index goes to the owner, the rest to the  *)
(* cache of its host; nobody else had any of it.                           *)
LEMMA PatchSucceedsIndex ==
  ASSUME TypeInv, TypeInv', ControlInv, IndexInv, NEW h \in Hosts,
         PatchSucceeds(h)
  PROVE  IndexInv'
<1> DEFINE l == read[h].list
           i == read[h].index
           b == [statusListId |-> l, index |-> i]
<1> USE DEF IndexInv
<1>p. /\ l \in StatusLists /\ i \in Nat
      /\ catalog[l].nextFreeIndex = i
      /\ catalog'[l].nextFreeIndex = i + BlockSize
      /\ CatalogGrows
      /\ WithinCapacity'
  BY PatchAppliesEffect DEF PatchSucceeds
<1>c. /\ \A g \in Hosts : g # h => cache'[g] = cache[g]
      /\ cache'[h] # NoBlock =>
           /\ cache'[h].statusListId = l
           /\ cache'[h].nextIdx = i + 1
           /\ cache'[h].endExclusive = i + BlockSize
           /\ i + 1 < i + BlockSize
  BY <1>p, BlockSizeAssumption
  DEF PatchSucceeds, AfterFirst, ReservedBlock, TypeInv, TypeOK
<1>d. PICK r \in Requests : /\ Owns(r, h)
                            /\ binding'[r] = b
                            /\ \A q \in Requests : q # r => binding'[q] = binding[q]
  BY DEF PatchSucceeds, PatchApplies, ResolveWith, ControlInv,
         WaitersHaveAnOwner, InFlight, Awaits
<1>t. /\ \A q \in Requests : binding[q] # NoBinding =>
           binding[q].index \in Nat /\ binding[q].statusListId \in StatusLists
      /\ \A g \in Hosts : cache[g] # NoBlock =>
           cache[g].nextIdx \in Nat /\ cache[g].endExclusive \in Nat
           /\ cache[g].nextIdx < cache[g].endExclusive
           /\ cache[g].statusListId \in StatusLists
  BY DEF TypeInv, TypeOK, Binding, Block, CachedIsReserved
<1>o. /\ \A q \in Requests :
           binding[q] # NoBinding /\ binding[q].statusListId = l
             => binding[q].index < i
      /\ \A g \in Hosts :
           cache[g] # NoBlock /\ cache[g].statusListId = l
             => cache[g].endExclusive <= i
  BY <1>p DEF BoundIsReserved, CachedIsReserved
<1>1. ReadIsCurrent'
  <2>1. ReadsKept
    BY DEF PatchSucceeds, ResolveWith, Settle, ClearReservation, ReadsKept,
           Awaits, TypeInv, TypeOK
  <2>2. QED
    BY <1>p, <2>1, ReadStaysCurrent
<1>2. CachedIsReserved'
  <2> SUFFICES ASSUME NEW g \in Hosts, cache'[g] # NoBlock
               PROVE  /\ cache'[g].nextIdx < cache'[g].endExclusive
                      /\ cache'[g].endExclusive
                           <= catalog'[cache'[g].statusListId].nextFreeIndex
    BY DEF CachedIsReserved
  <2>1. CASE g = h
    BY <1>p, <1>c, <2>1, BlockSizeAssumption
  <2>2. CASE g # h
    BY <1>p, <1>c, <1>t, <2>2, ReservedStaysReserved
  <2>3. QED
    BY <2>1, <2>2
<1>3. BoundIsReserved'
  <2> SUFFICES ASSUME NEW q \in Requests, binding'[q] # NoBinding
               PROVE  binding'[q].index
                        < catalog'[binding'[q].statusListId].nextFreeIndex
    BY DEF BoundIsReserved
  <2>1. CASE q = r
    BY <1>p, <1>d, <2>1, BlockSizeAssumption
  <2>2. CASE q # r
    BY <1>p, <1>d, <2>2, ReservedStaysReserved
  <2>3. QED
    BY <2>1, <2>2
<1>4. CachesAreDisjoint'
  <2> SUFFICES ASSUME NEW f \in Hosts, NEW g \in Hosts, f # g,
                      cache'[f] # NoBlock, cache'[g] # NoBlock,
                      cache'[f].statusListId = cache'[g].statusListId
               PROVE  \/ cache'[f].endExclusive <= cache'[g].nextIdx
                      \/ cache'[g].endExclusive <= cache'[f].nextIdx
    BY DEF CachesAreDisjoint
  <2>1. CASE f = h
    BY <1>p, <1>c, <1>o, <1>t, <2>1
  <2>2. CASE g = h
    BY <1>p, <1>c, <1>o, <1>t, <2>2
  <2>3. CASE f # h /\ g # h
    BY <1>c, <2>3 DEF CachesAreDisjoint
  <2>4. QED
    BY <2>1, <2>2, <2>3
<1>5. CachedIsUnbound'
  <2> SUFFICES ASSUME NEW g \in Hosts, NEW q \in Requests,
                      cache'[g] # NoBlock, binding'[q] # NoBinding,
                      cache'[g].statusListId = binding'[q].statusListId
               PROVE  \/ binding'[q].index < cache'[g].nextIdx
                      \/ cache'[g].endExclusive <= binding'[q].index
    BY DEF CachedIsUnbound
  <2>1. CASE g = h /\ q = r
    BY <1>p, <1>c, <1>d, <2>1
  <2>2. CASE g = h /\ q # r
    BY <1>p, <1>c, <1>d, <1>o, <1>t, <2>2
  <2>3. CASE g # h /\ q = r
    BY <1>p, <1>c, <1>d, <1>o, <1>t, <2>3
  <2>4. CASE g # h /\ q # r
    BY <1>c, <1>d, <2>4 DEF CachedIsUnbound
  <2>5. QED
    BY <2>1, <2>2, <2>3, <2>4
<1>6. UniqueBindings'
  <2>1. ASSUME NEW q \in Requests, q # r, binding'[q] = binding'[r]
        PROVE  FALSE
    <3>1. binding[q] = b
      BY <1>d, <2>1
    <3>2. binding[q] # NoBinding
      BY <1>p, <3>1, NullAssumption DEF Binding
    <3>3. QED
      BY <1>p, <1>o, <3>1, <3>2
  <2>2. QED
    BY <1>d, <2>1 DEF UniqueBindings
<1>7. QED
  BY <1>p, <1>1, <1>2, <1>3, <1>4, <1>5, <1>6

(* A block that was reserved but whose answer is lost lies above what      *)
(* anybody holds.                                                          *)
LEMMA LoseReservedBlockIndex ==
  ASSUME TypeInv, TypeInv', IndexInv, NEW h \in Hosts, LoseReservedBlock(h),
         ClearReservation(h), UNCHANGED binding,
         \A g \in Hosts : cache'[g] \in {cache[g], NoBlock}
  PROVE  IndexInv'
<1>1. CatalogGrows /\ WithinCapacity'
  BY PatchAppliesEffect DEF LoseReservedBlock
<1>2. ReadsKept
  BY DEF ClearReservation, ReadsKept, Awaits, TypeInv, TypeOK
<1>3. QED
  BY <1>1, <1>2, NothingIssued

LEMMA RejectIndex ==
  ASSUME TypeInv, TypeInv', IndexInv, NEW h \in Hosts, ClearReservation(h),
         UNCHANGED <<catalog, binding>>,
         \A g \in Hosts : cache'[g] \in {cache[g], NoBlock}
  PROVE  IndexInv'
<1>1. CatalogGrows /\ WithinCapacity'
  BY CatalogUnchangedGrows DEF IndexInv
<1>2. ReadsKept
  BY DEF ClearReservation, ReadsKept, Awaits, TypeInv, TypeOK
<1>3. QED
  BY <1>1, <1>2, NothingIssued

(* A step that only goes on to the next call keeps the third layer.        *)
LEMMA AwaitIndex ==
  ASSUME TypeInv, TypeInv', IndexInv, ReadsKept,
         UNCHANGED <<catalog, cache, binding>>
  PROVE  IndexInv'
BY CatalogUnchangedGrows, NothingIssued DEF IndexInv

LEMMA ReadFreeBlockIndex ==
  ASSUME TypeInv, TypeInv', IndexInv, NEW h \in Hosts, ReadFreeBlock(h)
  PROVE  IndexInv'
<1>1. PICK l \in scan[h].remaining :
        /\ HasFreeBlock(l)
        /\ read' = [read EXCEPT ![h] = [list |-> l,
             index |-> catalog[l].nextFreeIndex, etag |-> catalog[l].etag]]
  BY DEF ReadFreeBlock
<1>2. l \in StatusLists /\ catalog[l].etag \in Nat
  BY DEF TypeInv, TypeOK, Scan, CatalogDocument
<1>3. read'[h] = [list |-> l, index |-> catalog[l].nextFreeIndex,
                  etag |-> catalog[l].etag]
  BY <1>1 DEF TypeInv, TypeOK
<1>4. \A g \in Hosts : g # h =>
        /\ read'[g] = read[g]
        /\ Awaits(g, "patching")' <=> Awaits(g, "patching")
  BY <1>1 DEF ReadFreeBlock, Await, Awaits, TypeInv, TypeOK
<1>5. UNCHANGED <<catalog, cache, binding>>
  BY DEF ReadFreeBlock
<1>6. ReadIsCurrent'
  <2> SUFFICES ASSUME NEW g \in Hosts, Awaits(g, "patching")'
               PROVE  LET doc == catalog[read'[g].list] IN
                      /\ read'[g].etag <= doc.etag
                      /\ read'[g].etag = doc.etag
                           => read'[g].index = doc.nextFreeIndex
                      /\ read'[g].index + BlockSize <= CapacityBits
    BY <1>5 DEF ReadIsCurrent
  <2>1. CASE g = h
    BY <1>1, <1>2, <1>3, <2>1 DEF HasFreeBlock
  <2>2. CASE g # h
    BY <1>4, <2>2 DEF IndexInv, ReadIsCurrent
  <2>3. QED
    BY <2>1, <2>2
<1>7. QED
  BY <1>5, <1>6
  DEF IndexInv, CachedIsReserved, BoundIsReserved, CachesAreDisjoint,
      CachedIsUnbound, WithinCapacity, UniqueBindings

LEMMA ReserveIndex ==
  ASSUME TypeInv, TypeInv', ControlInv, IndexInv, NEW h \in Hosts,
         ReserveNextAvailableBlock(h)
  PROVE  IndexInv'
<1>c. InFlight(h) => cache[h] = NoBlock
  BY DEF ControlInv, CacheEmptyWhileReserving
<1>r. ASSUME Reject(h), UNCHANGED <<catalog, cache>> PROVE IndexInv'
  BY <1>r, RejectIndex DEF Reject, Settle
<1>a. ASSUME NEW p \in {"routing", "scanning", "backoff"}, Await(h, p),
             \A g \in Hosts : g # h => read'[g] = read[g],
             UNCHANGED <<catalog, cache, binding>>
      PROVE  IndexInv'
  <2>1. ReadsKept
    BY <1>a DEF ReadsKept, Await, Awaits, TypeInv, TypeOK
  <2>2. QED
    BY <1>a, <2>1, AwaitIndex
<1>1. CASE GetRoutableStatusListIds(h)
  BY <1>1, <1>a DEF GetRoutableStatusListIds
<1>2. CASE ReadFreeBlock(h)
  BY <1>2, ReadFreeBlockIndex
<1>3. CASE SkipFullOrClosed(h)
  BY <1>3, AwaitIndex DEF SkipFullOrClosed, ReadsKept, Awaits
<1>4. CASE PatchSucceeds(h)
  BY <1>4, PatchSucceedsIndex
<1>5. CASE PatchConflicts(h)
  BY <1>5, <1>a DEF PatchConflicts, TypeInv, TypeOK
<1>6. CASE PatchAppliedButFails(h)
  BY <1>6, LoseReservedBlockIndex DEF PatchAppliedButFails, Reject, Settle
<1>7. CASE ScanExhausted(h)
  <2>1. cache[h] = NoBlock
    BY <1>7, <1>c DEF ScanExhausted, ScanIsOver, Awaits, InFlight
  <2>2. CASE MayRetry(h)
    BY <1>7, <2>1, <2>2, <1>a DEF ScanExhausted
  <2>3. CASE ~MayRetry(h)
    BY <1>7, <2>1, <2>3, <1>r DEF ScanExhausted
  <2>4. QED
    BY <2>2, <2>3
<1>8. CASE NextAttempt(h)
  <2>1. cache[h] = NoBlock
    BY <1>8, <1>c DEF NextAttempt, Awaits, InFlight
  <2>2. QED
    BY <1>8, <2>1, <1>a DEF NextAttempt
<1>9. CASE CallFails(h)
  BY <1>9, <1>r DEF CallFails
<1>10. QED
  BY <1>1, <1>2, <1>3, <1>4, <1>5, <1>6, <1>7, <1>8, <1>9
  DEF ReserveNextAvailableBlock, PatchAnswered

LEMMA RestartIndex ==
  ASSUME TypeInv, TypeInv', IndexInv, NEW h \in Hosts,
         Restart(h) \/ RestartAfterPatch(h)
  PROVE  IndexInv'
<1>1. ForgetHost(h)
  BY DEF Restart, RestartAfterPatch
<1>2. /\ ClearReservation(h) /\ UNCHANGED binding
      /\ \A g \in Hosts : cache'[g] \in {cache[g], NoBlock}
  BY <1>1 DEF ForgetHost, TypeInv, TypeOK
<1>3. CASE Restart(h)
  BY <1>2, <1>3, RejectIndex DEF Restart
<1>4. CASE RestartAfterPatch(h)
  BY <1>2, <1>4, LoseReservedBlockIndex DEF RestartAfterPatch
<1>5. QED
  BY <1>3, <1>4

(* A change of state keeps nextFreeIndex and renews the etag.              *)
LEMMA PatchStateGrows ==
  ASSUME TypeInv, IndexInv, NEW l \in StatusLists, NEW state \in ListState,
         PatchState(l, state)
  PROVE  CatalogGrows /\ WithinCapacity'
<1> DEFINE doc == [catalog[l] EXCEPT !.state = state]
<1>1. catalog' = [catalog EXCEPT ![l] = [doc EXCEPT !.etag = doc.etag + 1]]
  BY DEF PatchState, Patch
<1>2. /\ catalog'[l].nextFreeIndex = catalog[l].nextFreeIndex
      /\ catalog'[l].etag = catalog[l].etag + 1
  BY <1>1 DEF TypeInv, TypeOK, CatalogDocument
<1>3. \A m \in StatusLists : m # l => catalog'[m] = catalog[m]
  BY <1>1 DEF TypeInv, TypeOK
<1>4. \A m \in StatusLists : catalog[m].nextFreeIndex \in Nat /\ catalog[m].etag \in Nat
  BY DEF TypeInv, TypeOK, CatalogDocument
<1>5. QED
  BY <1>2, <1>3, <1>4 DEF CatalogGrows, IndexInv, WithinCapacity

LEMMA LifecycleIndex ==
  ASSUME TypeInv, TypeInv', IndexInv, NEW l \in StatusLists, Lifecycle(l)
  PROVE  IndexInv'
<1>1. CASE OpenStatusList(l) \/ SealStatusList(l)
  <2>1. CatalogGrows /\ WithinCapacity'
    BY <1>1, PatchStateGrows
    DEF OpenStatusList, SealStatusList, OpenIfInitializing, SealIfClosable,
        ListState
  <2>2. ReadsKept /\ UNCHANGED <<binding, cache>>
    BY <1>1 DEF OpenStatusList, SealStatusList, hostVars, ReadsKept, Awaits
  <2>3. QED
    BY <2>1, <2>2, NothingIssued
<1>2. CASE AddRoutableStatusListId(l) \/ RemoveRoutableStatusListId(l)
  BY <1>2, AwaitIndex
  DEF AddRoutableStatusListId, RemoveRoutableStatusListId, hostVars, ReadsKept,
      Awaits
<1>3. QED
  BY <1>1, <1>2 DEF Lifecycle

LEMMA AllocateIndex ==
  ASSUME TypeInv, TypeInv', IndexInv, NEW r \in Requests,
         AllocateStatusBinding(r)
  PROVE  IndexInv'
<1>1. CASE TakeFromCache(r)
  BY <1>1, TakeFromCacheIndex
<1>2. CASE WaitForInFlightReservation(r)
  BY <1>2, AwaitIndex DEF WaitForInFlightReservation, ReadsKept, Awaits
<1>3. CASE StartReservation(r)
  <2>1. ReadsKept
    BY <1>3, HostOfAssumption
    DEF StartReservation, BecomeOwner, ReadsKept, Awaits, TypeInv, TypeOK
  <2>2. QED
    BY <1>3, <2>1, AwaitIndex DEF StartReservation, BecomeOwner
<1>4. QED
  BY <1>1, <1>2, <1>3 DEF AllocateStatusBinding

(* Every step keeps the third layer, given the others.                     *)
LEMMA NextIndexInv ==
  TypeInv /\ TypeInv' /\ ControlInv /\ IndexInv /\ [Next]_vars => IndexInv'
<1> SUFFICES ASSUME TypeInv, TypeInv', ControlInv, IndexInv, [Next]_vars
             PROVE  IndexInv'
  OBVIOUS
<1>1. CASE UNCHANGED vars
  BY <1>1, AwaitIndex DEF vars, ReadsKept, Awaits
<1>2. CASE Next
  BY <1>2, AllocateIndex, ReserveIndex, RestartIndex, LifecycleIndex DEF Next
<1>3. QED
  BY <1>1, <1>2

(* The third layer is invariant: nobody holds what another one does.       *)
THEOREM IndexCorrect == Spec => []IndexInv
BY InitIndexInv, NextIndexInv, TypeCorrect, ControlCorrect, PTL DEF Spec

(* No two requests ever get the same index of the same status list,        *)
(* whatever the hosts, the conflicts, the lost answers and the restarts.   *)
THEOREM AllocatorUniqueBindings == Spec => []UniqueBindings
<1>1. IndexInv => UniqueBindings
  BY DEF IndexInv
<1>2. QED
  BY <1>1, IndexCorrect, PTL

----------------------------------------------------------------------------
(* Sealing takes no free block away *)

(* No list is sealed at first.                                             *)
LEMMA InitSealed == Init => SealedHasNoRoom
BY DEF Init, SealedHasNoRoom, StateIs, InitializingDocument, AbsentDocument

(* A list is sealed when it has no whole free block, and never gets one.   *)
LEMMA NextSealed ==
  ASSUME TypeInv, TypeInv', IndexInv, SealedHasNoRoom, [Next]_vars
  PROVE  SealedHasNoRoom'
<1> USE DEF SealedHasNoRoom, StateIs
<1>u. UNCHANGED catalog => SealedHasNoRoom'
  OBVIOUS
<1>p. ASSUME NEW h \in Hosts, PatchApplies(h) PROVE SealedHasNoRoom'
  <2> DEFINE l == read[h].list
             doc == [catalog[l] EXCEPT !.nextFreeIndex = read[h].index + BlockSize]
  <2>1. /\ l \in StatusLists /\ read[h].index \in Nat
        /\ catalog[l].nextFreeIndex = read[h].index
        /\ catalog'[l].nextFreeIndex = read[h].index + BlockSize
        /\ \A m \in StatusLists : m # l => catalog'[m] = catalog[m]
    BY <1>p, PatchAppliesEffect
  <2>2. catalog'[l].state = catalog[l].state
    BY <1>p, <2>1
    DEF PatchApplies, AdvanceNextFreeIndex, Patch, TypeInv, TypeOK, CatalogDocument
  <2>3. QED
    BY <2>1, <2>2, BlockSizeAssumption, CapacityAssumption
<1>s. ASSUME NEW l \in StatusLists, NEW state \in ListState, PatchState(l, state),
             state = "SEALED" => IsClosable(l)
      PROVE  SealedHasNoRoom'
  <2>1. /\ catalog'[l].nextFreeIndex = catalog[l].nextFreeIndex
        /\ catalog'[l].state = state
        /\ \A m \in StatusLists : m # l => catalog'[m] = catalog[m]
    BY <1>s DEF PatchState, Patch, TypeInv, TypeOK, CatalogDocument
  <2>2. catalog[l].nextFreeIndex \in Nat
    BY DEF TypeInv, TypeOK, CatalogDocument
  <2>3. QED
    BY <1>s, <2>1, <2>2, BlockSizeAssumption, CapacityAssumption DEF IsClosable
<1>1. CASE UNCHANGED vars
  BY <1>1, <1>u DEF vars
<1>2. ASSUME NEW r \in Requests, AllocateStatusBinding(r) PROVE SealedHasNoRoom'
  BY <1>2, <1>u
  DEF AllocateStatusBinding, TakeFromCache, WaitForInFlightReservation,
      StartReservation, BecomeOwner
<1>3. ASSUME NEW h \in Hosts, ReserveNextAvailableBlock(h) PROVE SealedHasNoRoom'
  BY <1>3, <1>u, <1>p
  DEF ReserveNextAvailableBlock, PatchAnswered, GetRoutableStatusListIds,
      ReadFreeBlock, SkipFullOrClosed, PatchSucceeds, PatchConflicts,
      PatchAppliedButFails, LoseReservedBlock, ScanExhausted, NextAttempt, CallFails
<1>4. ASSUME NEW h \in Hosts, Restart(h) \/ RestartAfterPatch(h)
      PROVE  SealedHasNoRoom'
  BY <1>4, <1>u, <1>p DEF Restart, RestartAfterPatch, LoseReservedBlock
<1>5. ASSUME NEW l \in StatusLists, Lifecycle(l) PROVE SealedHasNoRoom'
  BY <1>5, <1>u, <1>s
  DEF Lifecycle, OpenStatusList, OpenIfInitializing, SealStatusList,
      SealIfClosable, AddRoutableStatusListId, RemoveRoutableStatusListId, ListState
<1>6. QED
  BY <1>1, <1>2, <1>3, <1>4, <1>5 DEF Next

(* A sealed list had no free block left when it was sealed, and has none.  *)
THEOREM AllocatorSealedHasNoRoom == Spec => []SealedHasNoRoom
BY InitSealed, NextSealed, TypeCorrect, IndexCorrect, PTL DEF Spec

----------------------------------------------------------------------------
(* The allocator implements IndexAllocation *)

(* Only an answered request has a binding.                                 *)
BoundIsAnswered ==
  \A r \in Requests : binding[r] # NoBinding => pc[r] = "done"

(* Nobody is bound or answered at first.                                   *)
LEMMA InitBoundIsAnswered == Init => BoundIsAnswered
BY DEF Init, BoundIsAnswered

(* Answering the requests of a reservation binds those it answers.         *)
LEMMA SettleAnswers ==
  ASSUME TypeInv, BoundIsAnswered, NEW h \in Hosts, NEW answer \in RequestState,
         Settle(h, answer), UNCHANGED binding \/ answer = "done",
         \A r \in Requests : ~Owns(r, h) => binding'[r] = binding[r]
  PROVE  BoundIsAnswered'
BY DEF Settle, BoundIsAnswered, Owns, WaitsFor, TypeInv, TypeOK

(* Every step binds exactly the requests that it answers.                  *)
LEMMA NextBoundIsAnswered ==
  ASSUME TypeInv, BoundIsAnswered, [Next]_vars
  PROVE  BoundIsAnswered'
<1>u. UNCHANGED <<binding, pc>> => BoundIsAnswered'
  BY DEF BoundIsAnswered
<1>1. CASE UNCHANGED vars
  BY <1>1, <1>u DEF vars
<1>2. ASSUME NEW r \in Requests, AllocateStatusBinding(r) PROVE BoundIsAnswered'
  BY <1>2
  DEF AllocateStatusBinding, TakeFromCache, WaitForInFlightReservation,
      StartReservation, BecomeOwner, BoundIsAnswered, Runnable, TypeInv, TypeOK
<1>b. ASSUME NEW h \in Hosts, NEW b, ResolveWith(h, b) PROVE BoundIsAnswered'
  BY <1>b, SettleAnswers DEF ResolveWith, RequestState, TypeInv, TypeOK
<1>r. ASSUME NEW h \in Hosts, Reject(h) PROVE BoundIsAnswered'
  BY <1>r, SettleAnswers DEF Reject, RequestState
<1>3. ASSUME NEW h \in Hosts, ReserveNextAvailableBlock(h) PROVE BoundIsAnswered'
  BY <1>3, <1>u, <1>b, <1>r
  DEF ReserveNextAvailableBlock, PatchAnswered, GetRoutableStatusListIds,
      ReadFreeBlock, SkipFullOrClosed, PatchSucceeds, PatchConflicts,
      PatchAppliedButFails, ScanExhausted, NextAttempt, CallFails,
      ResolveFromCache
<1>4. ASSUME NEW h \in Hosts, Restart(h) \/ RestartAfterPatch(h)
      PROVE  BoundIsAnswered'
  BY <1>4
  DEF Restart, RestartAfterPatch, ForgetHost, IsServing, BoundIsAnswered, TypeInv,
      TypeOK
<1>5. ASSUME NEW l \in StatusLists, Lifecycle(l) PROVE BoundIsAnswered'
  BY <1>5, <1>u
  DEF Lifecycle, OpenStatusList, SealStatusList, AddRoutableStatusListId,
      RemoveRoutableStatusListId, hostVars
<1>6. QED
  BY <1>1, <1>2, <1>3, <1>4, <1>5 DEF Next

(* A request has a binding just when it has been answered with one.        *)
LEMMA AnsweredCorrect == Spec => []BoundIsAnswered
BY InitBoundIsAnswered, NextBoundIsAnswered, TypeCorrect, PTL DEF Spec

(* The refinement mapping of ImplementsPromise.                            *)
Refused == {r \in Requests : pc[r] = "failed"}

(* The refinement. An initial state is one of the promise.                 *)
LEMMA InitPromise == Init => Promise!Init
BY DEF Init, Promise!Init

(* One request gets a binding that IndexInv makes fresh and in range.      *)
LEMMA GrantStep ==
  ASSUME TypeInv, TypeInv', IndexInv', BoundIsAnswered,
         NEW r \in Requests, NEW b \in Binding,
         pc[r] \notin {"done", "failed"},
         binding' = [binding EXCEPT ![r] = b],
         Refused' = Refused
  PROVE  Promise!Grant(r)
<1>1. binding[r] = NoBinding /\ binding'[r] = b /\ b # NoBinding
  BY NullAssumption DEF BoundIsAnswered, TypeInv, TypeOK
<1>2. b \in Promise!Binding
  <2>1. /\ b.statusListId \in StatusLists /\ b.index \in Nat
        /\ b = [statusListId |-> b.statusListId, index |-> b.index]
    BY DEF Binding
  <2>2. /\ b.index < catalog'[b.statusListId].nextFreeIndex
        /\ catalog'[b.statusListId].nextFreeIndex <= CapacityBits
        /\ catalog'[b.statusListId].nextFreeIndex \in Nat
    BY <1>1, <2>1
    DEF IndexInv, BoundIsReserved, WithinCapacity, TypeInv, TypeOK, CatalogDocument
  <2>3. b.index \in 0..(CapacityBits - 1)
    BY <2>1, <2>2, CapacityAssumption
  <2>4. QED
    BY <2>1, <2>3 DEF Promise!Binding
<1>3. ASSUME NEW q \in Requests, binding[q] = b PROVE FALSE
  <2>1. q # r
    BY <1>1, <1>3
  <2>2. binding'[q] = b
    BY <1>3, <2>1 DEF TypeInv, TypeOK
  <2>3. QED
    BY <1>1, <2>1, <2>2 DEF IndexInv, UniqueBindings
<1>4. Promise!IsFresh(b)
  BY <1>3 DEF Promise!IsFresh
<1>5. r \notin Refused
  BY DEF Refused
<1>6. QED
  BY <1>1, <1>2, <1>4, <1>5 DEF Promise!Grant, Promise!Unanswered, Refused

(* The requests that fail in a step had no answer before.                  *)
LEMMA RefuseStep ==
  ASSUME TypeInv, BoundIsAnswered, UNCHANGED binding,
         \A r \in Requests : \/ pc'[r] = "failed" /\ pc[r] # "done"
                             \/ pc'[r] # "failed" /\ pc[r] # "failed"
  PROVE  Promise!Next
<1>1. PICK R \in SUBSET Requests :
        R = {r \in Requests : pc'[r] = "failed" /\ pc[r] # "failed"}
  OBVIOUS
<1>2. \A r \in R : Promise!Unanswered(r)
  BY <1>1 DEF Promise!Unanswered, BoundIsAnswered
<1>3. Refused' = Refused \cup R
  BY <1>1 DEF Refused
<1>4. Promise!Refuse(R)
  BY <1>2, <1>3 DEF Promise!Refuse, Refused
<1>5. QED
  BY <1>4 DEF Promise!Next

(* A step that answers nobody is a stutter of the promise.                 *)
LEMMA StutterStep ==
  ASSUME UNCHANGED binding,
         \A r \in Requests : pc'[r] = "failed" <=> pc[r] = "failed"
  PROVE  UNCHANGED Promise!vars
BY DEF Promise!vars

(* Every other one grants a fresh binding or refuses one request.          *)
LEMMA NextPromise ==
  ASSUME TypeInv, TypeInv', ControlInv, IndexInv', BoundIsAnswered, [Next]_vars
  PROVE  [Promise!Next]_(Promise!vars)
<1>u. UNCHANGED <<binding, pc>> => UNCHANGED Promise!vars
  BY StutterStep
<1>r. ASSUME NEW h \in Hosts, Reject(h) PROVE Promise!Next
  <2>1. \A r \in Requests : \/ pc'[r] = "failed" /\ pc[r] # "done"
                            \/ pc'[r] # "failed" /\ pc[r] # "failed"
    BY <1>r DEF Reject, Settle, Owns, WaitsFor
  <2>2. QED
    BY <1>r, <2>1, RefuseStep DEF Reject
<1>1. CASE UNCHANGED vars
  BY <1>1, <1>u DEF vars
<1>2. ASSUME NEW r \in Requests, AllocateStatusBinding(r)
      PROVE  [Promise!Next]_(Promise!vars)
  <2>1. CASE TakeFromCache(r)
    <3>1. CachedBinding(HostOf[r]) \in Binding
      BY <2>1, CachedBindingType, HostOfAssumption DEF TakeFromCache, TypeInv
    <3>2. pc[r] \notin {"done", "failed"} /\ Refused' = Refused
      BY <2>1 DEF TakeFromCache, Runnable, Refused, TypeInv, TypeOK
    <3>3. Promise!Grant(r)
      BY <2>1, <3>1, <3>2, GrantStep DEF TakeFromCache
    <3>4. QED
      BY <3>3 DEF Promise!Next
  <2>2. CASE WaitForInFlightReservation(r) \/ StartReservation(r)
    <3>1. \A q \in Requests : pc'[q] = "failed" <=> pc[q] = "failed"
      BY <2>2 DEF WaitForInFlightReservation, StartReservation, BecomeOwner,
                  Runnable, TypeInv, TypeOK
    <3>2. QED
      BY <2>2, <3>1, StutterStep
      DEF WaitForInFlightReservation, StartReservation, BecomeOwner
  <2>3. QED
    BY <1>2, <2>1, <2>2 DEF AllocateStatusBinding
<1>3. ASSUME NEW h \in Hosts, ReserveNextAvailableBlock(h)
      PROVE  [Promise!Next]_(Promise!vars)
  <2>c. InFlight(h) => cache[h] = NoBlock
    BY DEF ControlInv, CacheEmptyWhileReserving
  <2>1. CASE PatchSucceeds(h)
    <3> DEFINE b == [statusListId |-> read[h].list, index |-> read[h].index]
    <3>1. b \in Binding
      BY <2>1 DEF PatchSucceeds, PatchApplies, TypeInv, TypeOK, ReservationShape,
                  Read, Binding
    <3>2. PICK r \in Requests : /\ Owns(r, h)
                                /\ \A q \in Requests : Owns(q, h) => q = r
      BY <2>1 DEF PatchSucceeds, PatchApplies, ControlInv, WaitersHaveAnOwner,
                  InFlight, Awaits
    <3>3. binding' = [binding EXCEPT ![r] = b]
      BY <2>1, <3>2 DEF PatchSucceeds, ResolveWith, TypeInv, TypeOK
    <3>4. pc[r] \notin {"done", "failed"}
      BY <3>2 DEF Owns
    <3>5. Refused' = Refused
      BY <2>1 DEF PatchSucceeds, ResolveWith, Settle, Owns, WaitsFor, Refused
    <3>6. Promise!Grant(r)
      BY <3>1, <3>3, <3>4, <3>5, GrantStep
    <3>7. QED
      BY <3>6 DEF Promise!Next
  <2>2. CASE PatchAppliedButFails(h) \/ CallFails(h)
    BY <1>r, <2>2 DEF PatchAppliedButFails, CallFails
  <2>3. CASE ScanExhausted(h)
    <3>1. cache[h] = NoBlock
      BY <2>3, <2>c DEF ScanExhausted, ScanIsOver, Awaits, InFlight
    <3>2. QED
      BY <2>3, <3>1, <1>u, <1>r DEF ScanExhausted
  <2>4. CASE NextAttempt(h)
    <3>1. cache[h] = NoBlock
      BY <2>4, <2>c DEF NextAttempt, Awaits, InFlight
    <3>2. QED
      BY <2>4, <3>1, <1>u DEF NextAttempt
  <2>5. CASE GetRoutableStatusListIds(h) \/ ReadFreeBlock(h)
             \/ SkipFullOrClosed(h) \/ PatchConflicts(h)
    BY <1>u, <2>5 DEF GetRoutableStatusListIds, ReadFreeBlock, SkipFullOrClosed,
                      PatchConflicts
  <2>6. QED
    BY <1>3, <2>1, <2>2, <2>3, <2>4, <2>5
    DEF ReserveNextAvailableBlock, PatchAnswered
<1>4. ASSUME NEW h \in Hosts, Restart(h) \/ RestartAfterPatch(h)
      PROVE  Promise!Next
  <2>1. ForgetHost(h)
    BY <1>4 DEF Restart, RestartAfterPatch
  <2>2. \A r \in Requests : \/ pc'[r] = "failed" /\ pc[r] # "done"
                            \/ pc'[r] # "failed" /\ pc[r] # "failed"
    BY <2>1 DEF ForgetHost, IsServing
  <2>3. QED
    BY <2>1, <2>2, RefuseStep DEF ForgetHost
<1>5. ASSUME NEW l \in StatusLists, Lifecycle(l)
      PROVE  UNCHANGED Promise!vars
  BY <1>5, <1>u
  DEF Lifecycle, OpenStatusList, SealStatusList, AddRoutableStatusListId,
      RemoveRoutableStatusListId, hostVars
<1>6. QED
  BY <1>1, <1>2, <1>3, <1>4, <1>5 DEF Next

(* The allocator implements its promise: every behaviour of the hosts is,  *)
(* request by request, one of IndexAllocation.                             *)
THEOREM AllocatorImplementsPromise == Spec => ImplementsPromise
<1>1. Spec => Promise!Spec
  BY InitPromise, NextPromise, TypeCorrect, ControlCorrect, IndexCorrect,
     AnsweredCorrect, PTL DEF Spec, Promise!Spec
<1>2. QED
  BY <1>1 DEF ImplementsPromise

----------------------------------------------------------------------------
(* Every index is accounted for *)

(* Index b lies below nextFreeIndex of its list.                           *)
IsReserved(b) == b.index < catalog[b.statusListId].nextFreeIndex

(* An index is reserved exactly when it is bound, cached or lost, and it is *)
(* only one of the three.                                                  *)
Accounted(b) ==
  /\ IsReserved(b) <=> (IsBound(b) \/ IsCached(b) \/ b \in leaked)
  /\ ~(IsBound(b) /\ IsCached(b))
  /\ ~(IsBound(b) /\ b \in leaked)
  /\ ~(IsCached(b) /\ b \in leaked)

(* That, of every index of every list.                                     *)
AccountInv == \A b \in Binding : Accounted(b)

(* The indices that a block holds.                                         *)
LEMMA InUnissued ==
  ASSUME NEW block \in Block, NEW b \in Binding
  PROVE  b \in Unissued(block) <=>
           /\ b.statusListId = block.statusListId
           /\ block.nextIdx <= b.index
           /\ b.index < block.endExclusive
<1>1. /\ block # NoBlock
      /\ block.nextIdx \in Nat /\ block.endExclusive \in Nat
      /\ b.index \in Nat
      /\ b = [statusListId |-> b.statusListId, index |-> b.index]
  BY NullAssumption DEF Block, Binding
<1>2. ASSUME NEW i \in block.nextIdx .. (block.endExclusive - 1),
             b = [statusListId |-> block.statusListId, index |-> i]
      PROVE  /\ b.statusListId = block.statusListId
             /\ block.nextIdx <= b.index
             /\ b.index < block.endExclusive
  BY <1>1, <1>2
<1>3. ASSUME b.statusListId = block.statusListId,
             block.nextIdx <= b.index,
             b.index < block.endExclusive
      PROVE  b \in Unissued(block)
  <2>1. b.index \in block.nextIdx .. (block.endExclusive - 1)
    BY <1>1, <1>3
  <2>2. QED
    BY <1>1, <1>3, <2>1 DEF Unissued
<1>4. QED
  BY <1>1, <1>2, <1>3 DEF Unissued

(* A block without its first index holds the same indices but that one.    *)
LEMMA InAfterFirst ==
  ASSUME NEW block \in Block, block.nextIdx < block.endExclusive,
         NEW b \in Binding
  PROVE  (AfterFirst(block) # NoBlock /\ b \in Unissued(AfterFirst(block)))
           <=> (/\ b \in Unissued(block)
                /\ b # [statusListId |-> block.statusListId,
                        index |-> block.nextIdx])
<1>1. /\ block.statusListId \in StatusLists
      /\ block.nextIdx \in Nat /\ block.endExclusive \in Nat
      /\ b.index \in Nat
      /\ b = [statusListId |-> b.statusListId, index |-> b.index]
  BY DEF Block, Binding
<1>2. b = [statusListId |-> block.statusListId, index |-> block.nextIdx]
        <=> (b.statusListId = block.statusListId /\ b.index = block.nextIdx)
  BY <1>1
<1>3. CASE block.nextIdx + 1 >= block.endExclusive
  <2>1. AfterFirst(block) = NoBlock
    BY <1>3 DEF AfterFirst
  <2>2. QED
    BY <1>1, <1>2, <1>3, <2>1, InUnissued
<1>4. CASE ~(block.nextIdx + 1 >= block.endExclusive)
  <2> DEFINE rest == AfterFirst(block)
  <2>1. rest = [block EXCEPT !.nextIdx = block.nextIdx + 1]
    BY <1>4 DEF AfterFirst
  <2>2. /\ rest \in Block
        /\ rest.statusListId = block.statusListId
        /\ rest.nextIdx = block.nextIdx + 1
        /\ rest.endExclusive = block.endExclusive
    BY <1>1, <2>1 DEF Block
  <2>3. rest # NoBlock
    BY <2>2, NullAssumption
  <2> HIDE DEF rest
  <2>4. b \in Unissued(rest) <=>
          /\ b.statusListId = block.statusListId
          /\ block.nextIdx + 1 <= b.index
          /\ b.index < block.endExclusive
    BY <2>2, InUnissued
  <2>5. QED
    BY <1>1, <1>2, <2>3, <2>4, InUnissued DEF rest
<1>5. QED
  BY <1>3, <1>4

(* Nothing is reserved, bound, cached or lost at first.                    *)
LEMMA InitAccount == Init => AccountInv
<1> SUFFICES ASSUME Init, NEW b \in Binding PROVE Accounted(b)
  BY DEF AccountInv
<1>1. b.statusListId \in StatusLists /\ b.index \in Nat /\ b # NoBinding
  BY NullAssumption DEF Binding
<1>2. ~IsReserved(b)
  BY <1>1 DEF Init, IsReserved, InitializingDocument, AbsentDocument
<1>3. ~IsBound(b) /\ ~IsCached(b) /\ b \notin leaked
  BY <1>1 DEF Init, IsBound, IsCached
<1>4. QED
  BY <1>2, <1>3 DEF Accounted

(* What matters of a step are the catalog, the caches, the answers and     *)
(* what is lost.                                                           *)
LEMMA SameAccount ==
  ASSUME AccountInv, NEW b \in Binding,
         IsReserved(b)' <=> IsReserved(b),
         UNCHANGED <<cache, binding, leaked>>
  PROVE  Accounted(b)'
<1>1. (IsBound(b)' <=> IsBound(b)) /\ (IsCached(b)' <=> IsCached(b))
  BY DEF IsBound, IsCached
<1>2. QED
  BY <1>1 DEF AccountInv, Accounted

(* Taking from the cache makes one cached index a bound one.               *)
LEMMA TakeFromCacheAccount ==
  ASSUME TypeInv, TypeInv', IndexInv, IndexInv', BoundIsAnswered, AccountInv,
         NEW r \in Requests, TakeFromCache(r), NEW b \in Binding
  PROVE  Accounted(b)'
<1> DEFINE h == HostOf[r]
           c == CachedBinding(h)
<1>h. /\ h \in Hosts /\ cache[h] # NoBlock /\ cache[h] \in Block
      /\ cache[h].nextIdx < cache[h].endExclusive
  BY HostOfAssumption
  DEF TakeFromCache, TypeInv, TypeOK, IndexInv, CachedIsReserved
<1>1. (IsReserved(b)' <=> IsReserved(b)) /\ (b \in leaked' <=> b \in leaked)
  BY DEF TakeFromCache, IsReserved
<1>2. IsBound(b)' <=> (IsBound(b) \/ b = c)
  <2>1. binding[r] # b
    BY NullAssumption
    DEF TakeFromCache, Runnable, BoundIsAnswered, TypeInv, TypeOK
  <2>2. binding'[r] = c /\ \A q \in Requests : q # r => binding'[q] = binding[q]
    BY DEF TakeFromCache, TypeInv, TypeOK
  <2>3. QED
    BY <2>1, <2>2 DEF IsBound
<1>3. \A g \in Hosts : cache[g] # NoBlock /\ g # h => ~(c \in Unissued(cache[g]))
  <2> SUFFICES ASSUME NEW g \in Hosts, cache[g] # NoBlock, g # h,
                      c \in Unissued(cache[g])
               PROVE  FALSE
    OBVIOUS
  <2>1. cache[g] \in Block /\ c \in Binding
    BY <1>h, CachedBindingType DEF TypeInv, TypeOK
  <2>2. /\ cache[h].statusListId = cache[g].statusListId
        /\ cache[g].nextIdx <= cache[h].nextIdx
        /\ cache[h].nextIdx < cache[g].endExclusive
    BY <2>1, InUnissued DEF CachedBinding
  <2>3. \/ cache[g].endExclusive <= cache[h].nextIdx
        \/ cache[h].endExclusive <= cache[g].nextIdx
    BY <1>h, <2>2 DEF IndexInv, CachesAreDisjoint
  <2>4. /\ cache[h].nextIdx \in Nat /\ cache[h].endExclusive \in Nat
        /\ cache[g].nextIdx \in Nat /\ cache[g].endExclusive \in Nat
    BY <1>h, <2>1 DEF Block
  <2>5. QED
    BY <1>h, <2>2, <2>3, <2>4
<1>4. /\ cache'[h] = AfterFirst(cache[h])
      /\ \A g \in Hosts : g # h => cache'[g] = cache[g]
  BY <1>h DEF TakeFromCache, TypeInv, TypeOK
<1>5. (cache'[h] # NoBlock /\ b \in Unissued(cache'[h]))
        <=> (b \in Unissued(cache[h]) /\ b # c)
  BY <1>h, <1>4, InAfterFirst DEF CachedBinding
<1>6. IsCached(b)' <=> (IsCached(b) /\ b # c)
  BY <1>h, <1>3, <1>4, <1>5 DEF IsCached
<1>7. c \in Unissued(cache[h])
  <2>1. c \in Binding /\ cache[h].nextIdx \in Nat
    BY <1>h, CachedBindingType DEF TypeInv, Block
  <2>2. QED
    BY <1>h, <2>1, InUnissued DEF CachedBinding
<1>8. b = c => IsCached(b)
  BY <1>h, <1>7 DEF IsCached
<1> HIDE DEF c, h
<1>9. QED
  BY <1>1, <1>2, <1>6, <1>8 DEF AccountInv, Accounted

(* The indices that an applied patch reserves are those of its block.      *)
LEMMA PatchAppliesReserves ==
  ASSUME TypeInv, IndexInv, NEW h \in Hosts, PatchApplies(h), NEW b \in Binding
  PROVE  LET block == ReservedBlock(read[h].list, read[h].index) IN
         /\ block \in Block
         /\ IsReserved(b)' <=> (IsReserved(b) \/ b \in Unissued(block))
         /\ ~(IsReserved(b) /\ b \in Unissued(block))
<1> DEFINE l == read[h].list
           i == read[h].index
           block == ReservedBlock(l, i)
<1>1. /\ l \in StatusLists /\ i \in Nat
      /\ catalog[l].nextFreeIndex = i
      /\ catalog'[l].nextFreeIndex = i + BlockSize
      /\ \A m \in StatusLists : m # l => catalog'[m] = catalog[m]
  BY PatchAppliesEffect
<1>2. /\ block \in Block
      /\ block.statusListId = l /\ block.nextIdx = i
      /\ block.endExclusive = i + BlockSize
  BY <1>1, ReservedBlockType DEF ReservedBlock
<1>3. b.statusListId \in StatusLists /\ b.index \in Nat
  BY DEF Binding
<1> HIDE DEF block
<1>4. b \in Unissued(block) <=>
        (b.statusListId = l /\ i <= b.index /\ b.index < i + BlockSize)
  BY <1>2, InUnissued
<1>5. CASE b.statusListId = l
  BY <1>1, <1>2, <1>3, <1>4, <1>5, BlockSizeAssumption DEF IsReserved, block
<1>6. CASE b.statusListId # l
  BY <1>1, <1>2, <1>3, <1>4, <1>6 DEF IsReserved, block
<1>7. QED
  BY <1>5, <1>6 DEF block

(* A reservation makes the indices of the new block cached, but for the    *)
(* first, which is bound.                                                  *)
LEMMA PatchSucceedsAccount ==
  ASSUME TypeInv, ControlInv, IndexInv, BoundIsAnswered, AccountInv,
         NEW h \in Hosts, PatchSucceeds(h), NEW b \in Binding
  PROVE  Accounted(b)'
<1> DEFINE l == read[h].list
           i == read[h].index
           block == ReservedBlock(l, i)
           c == [statusListId |-> l, index |-> i]
<1>1. /\ block \in Block
      /\ IsReserved(b)' <=> (IsReserved(b) \/ b \in Unissued(block))
      /\ ~(IsReserved(b) /\ b \in Unissued(block))
  BY PatchAppliesReserves DEF PatchSucceeds
<1>2. /\ l \in StatusLists /\ i \in Nat
  BY PatchAppliesEffect DEF PatchSucceeds
<1>3. PICK r \in Requests : /\ Owns(r, h)
                            /\ binding'[r] = c
                            /\ \A q \in Requests : q # r => binding'[q] = binding[q]
  BY DEF PatchSucceeds, PatchApplies, ResolveWith, ControlInv,
         WaitersHaveAnOwner, InFlight, Awaits
<1>4. binding[r] # b
  BY <1>3, NullAssumption DEF Owns, BoundIsAnswered, TypeInv, TypeOK
<1>5. IsBound(b)' <=> (IsBound(b) \/ b = c)
  BY <1>3, <1>4 DEF IsBound
<1>6. cache[h] = NoBlock
  BY DEF PatchSucceeds, PatchApplies, ControlInv, CacheEmptyWhileReserving,
         InFlight, Awaits
<1>7. /\ cache'[h] = AfterFirst(block)
      /\ \A g \in Hosts : g # h => cache'[g] = cache[g]
  BY DEF PatchSucceeds, TypeInv, TypeOK
<1>8. /\ block.statusListId = l /\ block.nextIdx = i
      /\ block.endExclusive = i + BlockSize
  BY DEF ReservedBlock
<1>9. c \in Binding
  BY <1>2 DEF Binding
<1> HIDE DEF block
<1>10. block.nextIdx < block.endExclusive
  BY <1>2, <1>8, BlockSizeAssumption
<1>11. c \in Unissued(block)
  BY <1>1, <1>2, <1>8, <1>9, <1>10, InUnissued
<1>12. (cache'[h] # NoBlock /\ b \in Unissued(cache'[h]))
         <=> (b \in Unissued(block) /\ b # c)
  BY <1>1, <1>7, <1>8, <1>10, InAfterFirst
<1>13. IsCached(b)' <=> (IsCached(b) \/ (b \in Unissued(block) /\ b # c))
  BY <1>6, <1>7, <1>12 DEF IsCached
<1>14. leaked' = leaked
  BY DEF PatchSucceeds
<1>15. QED
  BY <1>1, <1>5, <1>11, <1>13, <1>14 DEF AccountInv, Accounted

(* The block of a patch whose answer is lost is lost with it.              *)
LEMMA LoseReservedBlockAccount ==
  ASSUME TypeInv, IndexInv, AccountInv, NEW h \in Hosts, LoseReservedBlock(h),
         UNCHANGED <<binding, cache>>, NEW b \in Binding
  PROVE  Accounted(b)'
<1> DEFINE lost == Unissued(ReservedBlock(read[h].list, read[h].index))
<1>1. /\ IsReserved(b)' <=> (IsReserved(b) \/ b \in lost)
      /\ ~(IsReserved(b) /\ b \in lost)
  BY PatchAppliesReserves DEF LoseReservedBlock
<1>2. (IsBound(b)' <=> IsBound(b)) /\ (IsCached(b)' <=> IsCached(b))
  BY DEF IsBound, IsCached
<1>3. b \in leaked' <=> (b \in leaked \/ b \in lost)
  BY DEF LoseReservedBlock
<1>4. QED
  BY <1>1, <1>2, <1>3 DEF AccountInv, Accounted

(* A restart loses what the host had cached, and nothing else.             *)
LEMMA RestartAccount ==
  ASSUME TypeInv, ControlInv, IndexInv, AccountInv, NEW h \in Hosts,
         Restart(h) \/ RestartAfterPatch(h), NEW b \in Binding
  PROVE  Accounted(b)'
<1>1. /\ cache'[h] = NoBlock
      /\ \A g \in Hosts : g # h => cache'[g] = cache[g]
      /\ UNCHANGED binding
  BY DEF Restart, RestartAfterPatch, ForgetHost, TypeInv, TypeOK
<1>2. CASE Restart(h)
  <2>1. b \in leaked' <=> (b \in leaked \/ b \in Unissued(cache[h]))
    BY <1>2 DEF Restart
  <2>2. IsReserved(b)' <=> IsReserved(b)
    BY <1>2 DEF Restart, IsReserved
  <2>3. IsBound(b)' <=> IsBound(b)
    BY <1>1 DEF IsBound
  <2>4. ASSUME NEW g \in Hosts, g # h, cache[g] # NoBlock, cache[h] # NoBlock,
               b \in Unissued(cache[g]), b \in Unissued(cache[h])
        PROVE  FALSE
    <3>1. cache[g] \in Block /\ cache[h] \in Block
      BY <2>4 DEF TypeInv, TypeOK
    <3>2. /\ cache[g].statusListId = cache[h].statusListId
          /\ cache[g].nextIdx <= b.index /\ b.index < cache[g].endExclusive
          /\ cache[h].nextIdx <= b.index /\ b.index < cache[h].endExclusive
      BY <2>4, <3>1, InUnissued
    <3>3. /\ cache[h].nextIdx \in Nat /\ cache[h].endExclusive \in Nat
          /\ cache[g].nextIdx \in Nat /\ cache[g].endExclusive \in Nat
          /\ b.index \in Nat
      BY <3>1 DEF Block, Binding
    <3>4. \/ cache[g].endExclusive <= cache[h].nextIdx
          \/ cache[h].endExclusive <= cache[g].nextIdx
      BY <2>4, <3>2 DEF IndexInv, CachesAreDisjoint
    <3>5. QED
      BY <3>2, <3>3, <3>4
  <2>5. b \in Unissued(cache[h]) => cache[h] # NoBlock
    BY DEF Unissued
  <2>6. IsCached(b)' <=> (IsCached(b) /\ b \notin Unissued(cache[h]))
    BY <1>1, <2>4, <2>5 DEF IsCached
  <2>7. b \in Unissued(cache[h]) => IsCached(b)
    BY <2>5 DEF IsCached
  <2>8. QED
    BY <2>1, <2>2, <2>3, <2>6, <2>7 DEF AccountInv, Accounted
<1>3. CASE RestartAfterPatch(h)
  <2>1. cache[h] = NoBlock
    BY <1>3
    DEF RestartAfterPatch, LoseReservedBlock, PatchApplies, ControlInv,
        CacheEmptyWhileReserving, InFlight, Awaits
  <2>2. UNCHANGED cache
    BY <1>3, <2>1 DEF RestartAfterPatch, ForgetHost, TypeInv, TypeOK
  <2>3. QED
    BY <1>1, <1>3, <2>2, LoseReservedBlockAccount DEF RestartAfterPatch
<1>4. QED
  BY <1>2, <1>3

(* Opening or sealing a list reserves nothing.                             *)
LEMMA PatchStateReserves ==
  ASSUME TypeInv, NEW l \in StatusLists, NEW state \in ListState,
         PatchState(l, state), NEW b \in Binding
  PROVE  IsReserved(b)' <=> IsReserved(b)
<1>1. \A m \in StatusLists : catalog'[m].nextFreeIndex = catalog[m].nextFreeIndex
  BY DEF PatchState, Patch, TypeInv, TypeOK, CatalogDocument
<1>2. b.statusListId \in StatusLists
  BY DEF Binding
<1>3. QED
  BY <1>1, <1>2 DEF IsReserved

(* Every step keeps the account.                                           *)
LEMMA NextAccount ==
  ASSUME TypeInv, TypeInv', ControlInv, IndexInv, IndexInv', BoundIsAnswered,
         AccountInv, [Next]_vars
  PROVE  AccountInv'
<1> SUFFICES ASSUME NEW b \in Binding PROVE Accounted(b)'
  BY DEF AccountInv
<1>u. UNCHANGED <<catalog, cache, binding, leaked>> => Accounted(b)'
  BY SameAccount DEF IsReserved
<1>1. CASE UNCHANGED vars
  BY <1>1, <1>u DEF vars
<1>2. ASSUME NEW r \in Requests, AllocateStatusBinding(r) PROVE Accounted(b)'
  BY <1>2, <1>u, TakeFromCacheAccount
  DEF AllocateStatusBinding, WaitForInFlightReservation, StartReservation,
      BecomeOwner
<1>3. ASSUME NEW h \in Hosts, ReserveNextAvailableBlock(h) PROVE Accounted(b)'
  <2>c. InFlight(h) => cache[h] = NoBlock
    BY DEF ControlInv, CacheEmptyWhileReserving
  <2>1. CASE PatchSucceeds(h)
    BY <2>1, PatchSucceedsAccount
  <2>2. CASE PatchAppliedButFails(h)
    BY <2>2, LoseReservedBlockAccount DEF PatchAppliedButFails, Reject
  <2>3. CASE ScanExhausted(h)
    <3>1. cache[h] = NoBlock
      BY <2>3, <2>c DEF ScanExhausted, ScanIsOver, Awaits, InFlight
    <3>2. QED
      BY <2>3, <3>1, <1>u DEF ScanExhausted, Reject
  <2>4. CASE NextAttempt(h)
    <3>1. cache[h] = NoBlock
      BY <2>4, <2>c DEF NextAttempt, Awaits, InFlight
    <3>2. QED
      BY <2>4, <3>1, <1>u DEF NextAttempt
  <2>5. CASE GetRoutableStatusListIds(h) \/ ReadFreeBlock(h)
             \/ SkipFullOrClosed(h) \/ PatchConflicts(h) \/ CallFails(h)
    BY <2>5, <1>u
    DEF GetRoutableStatusListIds, ReadFreeBlock, SkipFullOrClosed,
        PatchConflicts, CallFails, Reject
  <2>6. QED
    BY <1>3, <2>1, <2>2, <2>3, <2>4, <2>5
    DEF ReserveNextAvailableBlock, PatchAnswered
<1>4. ASSUME NEW h \in Hosts, Restart(h) \/ RestartAfterPatch(h)
      PROVE  Accounted(b)'
  BY <1>4, RestartAccount
<1>5. ASSUME NEW l \in StatusLists, Lifecycle(l) PROVE Accounted(b)'
  <2>1. CASE OpenStatusList(l) \/ SealStatusList(l)
    <3>1. IsReserved(b)' <=> IsReserved(b)
      BY <2>1, PatchStateReserves
      DEF OpenStatusList, SealStatusList, OpenIfInitializing, SealIfClosable,
          ListState
    <3>2. UNCHANGED <<cache, binding, leaked>>
      BY <2>1 DEF OpenStatusList, SealStatusList, hostVars
    <3>3. QED
      BY <3>1, <3>2, SameAccount
  <2>2. CASE AddRoutableStatusListId(l) \/ RemoveRoutableStatusListId(l)
    BY <2>2, <1>u
    DEF AddRoutableStatusListId, RemoveRoutableStatusListId, hostVars
  <2>3. QED
    BY <1>5, <2>1, <2>2 DEF Lifecycle
<1>6. QED
  BY <1>1, <1>2, <1>3, <1>4, <1>5 DEF Next

(* The account is invariant.                                               *)
LEMMA AccountCorrect == Spec => []AccountInv
BY InitAccount, NextAccount, TypeCorrect, ControlCorrect, IndexCorrect,
   AnsweredCorrect, PTL DEF Spec

(* Every index below nextFreeIndex is bound, cached or lost by a crash or  *)
(* a lost answer, never two of these, and no other index is.               *)
THEOREM AllocatorEveryIndexAccounted == Spec => []EveryIndexAccounted
<1>1. TypeInv /\ IndexInv /\ AccountInv => EveryIndexAccounted
  <2> SUFFICES ASSUME TypeInv, IndexInv, AccountInv, NEW l \in StatusLists,
                      NEW i \in 0 .. (CapacityBits + BlockSize)
               PROVE  LET b == [statusListId |-> l, index |-> i]
                          holds == {n \in {"bound", "cached", "leaked"} :
                                      \/ n = "bound" /\ IsBound(b)
                                      \/ n = "cached" /\ IsCached(b)
                                      \/ n = "leaked" /\ b \in leaked}
                      IN IF i < catalog[l].nextFreeIndex
                           THEN i < CapacityBits /\ \E n \in holds : holds = {n}
                           ELSE holds = {}
    BY DEF EveryIndexAccounted
  <2> DEFINE b == [statusListId |-> l, index |-> i]
             holds == {n \in {"bound", "cached", "leaked"} :
                         \/ n = "bound" /\ IsBound(b)
                         \/ n = "cached" /\ IsCached(b)
                         \/ n = "leaked" /\ b \in leaked}
  <2>1. i \in Nat /\ b \in Binding
    BY CapacityAssumption, BlockSizeAssumption DEF Binding
  <2>2. Accounted(b) /\ (IsReserved(b) <=> i < catalog[l].nextFreeIndex)
    BY <2>1 DEF AccountInv, IsReserved
  <2>3. i < catalog[l].nextFreeIndex => i < CapacityBits
    BY <2>1, CapacityAssumption
    DEF IndexInv, WithinCapacity, TypeInv, TypeOK, CatalogDocument
  <2>4. /\ "bound" \in holds <=> IsBound(b)
        /\ "cached" \in holds <=> IsCached(b)
        /\ "leaked" \in holds <=> b \in leaked
        /\ holds \subseteq {"bound", "cached", "leaked"}
    OBVIOUS
  <2> HIDE DEF b, holds
  <2>5. CASE i < catalog[l].nextFreeIndex
    <3>1. CASE IsBound(b)
      <4>1. holds = {"bound"}
        BY <2>2, <2>4, <3>1 DEF Accounted
      <4>2. QED
        BY <2>3, <2>5, <4>1 DEF b, holds
    <3>2. CASE IsCached(b)
      <4>1. holds = {"cached"}
        BY <2>2, <2>4, <3>2 DEF Accounted
      <4>2. QED
        BY <2>3, <2>5, <4>1 DEF b, holds
    <3>3. CASE b \in leaked
      <4>1. holds = {"leaked"}
        BY <2>2, <2>4, <3>3 DEF Accounted
      <4>2. QED
        BY <2>3, <2>5, <4>1 DEF b, holds
    <3>4. QED
      BY <2>2, <2>5, <3>1, <3>2, <3>3 DEF Accounted
  <2>6. CASE ~(i < catalog[l].nextFreeIndex)
    <3>1. holds = {}
      BY <2>2, <2>4, <2>6 DEF Accounted
    <3>2. QED
      BY <2>6, <3>1 DEF b, holds
  <2>7. QED
    BY <2>5, <2>6
<1>2. QED
  BY <1>1, TypeCorrect, IndexCorrect, AccountCorrect, PTL

----------------------------------------------------------------------------
(* A reservation is refused only when there is nothing to reserve *)

(* List l has been opened, and may be sealed since.                        *)
Opened(l) == catalog[l].state \in {"OPEN", "SEALED"}

(* A list is routed, or scanned, only once it was opened.                  *)
RoutedIsOpened ==
  /\ \A l \in routable : Opened(l)
  /\ \A h \in Hosts : \A l \in scan[h].openStatusListIds : Opened(l)

(* While a scan has met no conflict, the lists it is done with are closed  *)
(* or have no whole free block.                                            *)
ScannedIsFull ==
  \A h \in Hosts : Awaits(h, "scanning") /\ ~scan[h].hadConflict =>
    \A l \in scan[h].openStatusListIds \ scan[h].remaining : ~HasFreeBlock(l)

(* What a scan knows of the lists it is done with.                         *)
ScanInv == RoutedIsOpened /\ ScannedIsFull

(* No scan is under way at first.                                          *)
LEMMA InitScanInv == Init => ScanInv
BY DEF Init, ScanInv, RoutedIsOpened, ScannedIsFull, NoScan, Awaits

(* An opened list stays so, and one without a free block never gets one.   *)
CatalogAges ==
  \A l \in StatusLists : Opened(l) =>
    Opened(l)' /\ (~HasFreeBlock(l) => ~HasFreeBlock(l)')

(* A step that leaves the catalog alone ages nothing.                      *)
LEMMA CatalogUnchangedAges ==
  ASSUME UNCHANGED catalog
  PROVE  CatalogAges
BY DEF CatalogAges, Opened, HasFreeBlock, StateIs

(* Nor does a reservation bring a closed list or a free block back.        *)
LEMMA PatchAppliesAges ==
  ASSUME TypeInv, IndexInv, NEW h \in Hosts, PatchApplies(h)
  PROVE  CatalogAges
<1> DEFINE l == read[h].list
<1>1. /\ l \in StatusLists /\ read[h].index \in Nat
      /\ catalog[l].nextFreeIndex = read[h].index
      /\ catalog'[l].nextFreeIndex = read[h].index + BlockSize
      /\ \A m \in StatusLists : m # l => catalog'[m] = catalog[m]
  BY PatchAppliesEffect
<1>2. catalog'[l].state = catalog[l].state
  BY <1>1
  DEF PatchApplies, AdvanceNextFreeIndex, Patch, TypeInv, TypeOK, CatalogDocument
<1>3. QED
  BY <1>1, <1>2, BlockSizeAssumption, CapacityAssumption
  DEF CatalogAges, Opened, HasFreeBlock, StateIs

(* Nor does the lifecycle.                                                 *)
LEMMA LifecycleAges ==
  ASSUME TypeInv, NEW l \in StatusLists, Lifecycle(l)
  PROVE  CatalogAges
<1>1. ASSUME NEW state \in ListState, PatchState(l, state),
             \/ state = "OPEN" /\ StateIs(l, "INITIALIZING")
             \/ state = "SEALED" /\ IsClosable(l)
      PROVE  CatalogAges
  <2>1. /\ catalog'[l].nextFreeIndex = catalog[l].nextFreeIndex
        /\ catalog'[l].state = state
        /\ \A m \in StatusLists : m # l => catalog'[m] = catalog[m]
    BY <1>1 DEF PatchState, Patch, TypeInv, TypeOK, CatalogDocument
  <2>2. QED
    BY <1>1, <2>1 DEF CatalogAges, Opened, HasFreeBlock, StateIs, IsClosable
<1>2. CASE OpenStatusList(l) \/ SealStatusList(l)
  BY <1>1, <1>2
  DEF OpenStatusList, OpenIfInitializing, SealStatusList, SealIfClosable, ListState
<1>3. CASE AddRoutableStatusListId(l) \/ RemoveRoutableStatusListId(l)
  BY <1>3, CatalogUnchangedAges
  DEF AddRoutableStatusListId, RemoveRoutableStatusListId
<1>4. QED
  BY <1>2, <1>3 DEF Lifecycle

(* Whoever scans after a step was scanning before, with the same lists to  *)
(* go, or has met a conflict.                                              *)
ScanKept(h) ==
  /\ scan'[h].openStatusListIds \subseteq scan[h].openStatusListIds
  /\ Awaits(h, "scanning")' =>
       \/ scan'[h].hadConflict
       \/ Awaits(h, "scanning") /\ scan'[h] = scan[h]

(* What a scan knows survives a step that keeps the scan.                  *)
LEMMA ScanAges ==
  ASSUME TypeInv, ScanInv, CatalogAges, \A l \in routable' : Opened(l)',
         \A h \in Hosts : ScanKept(h)
  PROVE  ScanInv'
<1>1. \A h \in Hosts : scan[h].openStatusListIds \subseteq StatusLists
  BY DEF TypeInv, TypeOK, Scan
<1>2. RoutedIsOpened'
  BY <1>1 DEF ScanInv, RoutedIsOpened, ScanKept, CatalogAges
<1>3. ScannedIsFull'
  <2> SUFFICES ASSUME NEW h \in Hosts, Awaits(h, "scanning")',
                      ~scan'[h].hadConflict,
                      NEW l \in scan'[h].openStatusListIds \ scan'[h].remaining
               PROVE  ~HasFreeBlock(l)'
    BY DEF ScannedIsFull
  <2>1. Awaits(h, "scanning") /\ scan'[h] = scan[h]
    BY DEF ScanKept
  <2>2. l \in StatusLists /\ Opened(l) /\ ~HasFreeBlock(l)
    BY <1>1, <2>1 DEF ScanInv, RoutedIsOpened, ScannedIsFull
  <2>3. QED
    BY <2>2 DEF CatalogAges
<1>4. QED
  BY <1>2, <1>3 DEF ScanInv

(* Lists that stay routed stay opened.                                     *)
LEMMA RoutableAges ==
  ASSUME TypeInv, ScanInv, CatalogAges, UNCHANGED routable
  PROVE  \A l \in routable' : Opened(l)'
BY DEF ScanInv, RoutedIsOpened, CatalogAges, TypeInv, TypeOK

(* Ending a reservation ends its scan and leaves the others.               *)
LEMMA ClearReservationScan ==
  ASSUME TypeInv, NEW h \in Hosts, ClearReservation(h)
  PROVE  \A g \in Hosts : ScanKept(g)
<1> SUFFICES ASSUME NEW g \in Hosts PROVE ScanKept(g)
  OBVIOUS
<1>1. CASE g = h
  BY <1>1 DEF ClearReservation, ScanKept, Awaits, NoScan, TypeInv, TypeOK
<1>2. CASE g # h
  BY <1>2 DEF ClearReservation, ScanKept, Awaits, TypeInv, TypeOK
<1>3. QED
  BY <1>1, <1>2

(* So does going on to another call.                                       *)
LEMMA AwaitScan ==
  ASSUME TypeInv, NEW h \in Hosts, NEW p \in Phase \ {"scanning"}, Await(h, p),
         \A g \in Hosts : g # h => scan'[g] = scan[g],
         scan'[h].openStatusListIds = scan[h].openStatusListIds
  PROVE  \A g \in Hosts : ScanKept(g)
<1> SUFFICES ASSUME NEW g \in Hosts PROVE ScanKept(g)
  OBVIOUS
<1>1. CASE g = h
  BY <1>1 DEF Await, ScanKept, Awaits, TypeInv, TypeOK
<1>2. CASE g # h
  BY <1>2 DEF Await, ScanKept, Awaits, TypeInv, TypeOK
<1>3. QED
  BY <1>1, <1>2

(* The start of a scan: nothing is done with yet.                          *)
LEMMA GetRoutableScan ==
  ASSUME TypeInv, ScanInv, NEW h \in Hosts, GetRoutableStatusListIds(h)
  PROVE  ScanInv'
<1>1. /\ scan'[h] = [openStatusListIds |-> routable, remaining |-> routable,
                     hadConflict |-> FALSE]
      /\ \A g \in Hosts : g # h =>
           /\ scan'[g] = scan[g]
           /\ Awaits(g, "scanning")' <=> Awaits(g, "scanning")
      /\ UNCHANGED <<catalog, routable>>
  BY DEF GetRoutableStatusListIds, Await, Awaits, TypeInv, TypeOK
<1>2. /\ scan'[h].openStatusListIds = routable
      /\ scan'[h].remaining = routable
  BY <1>1
<1>3. RoutedIsOpened'
  BY <1>1, <1>2 DEF ScanInv, RoutedIsOpened, Opened
<1>4. ScannedIsFull'
  BY <1>1, <1>2 DEF ScanInv, ScannedIsFull, HasFreeBlock, StateIs
<1>5. QED
  BY <1>3, <1>4 DEF ScanInv

(* A skipped list has no free block when it is read.                       *)
LEMMA SkipScan ==
  ASSUME TypeInv, ScanInv, NEW h \in Hosts, SkipFullOrClosed(h)
  PROVE  ScanInv'
<1>1. PICK m \in scan[h].remaining :
        /\ ~HasFreeBlock(m)
        /\ scan' = [scan EXCEPT ![h].remaining = @ \ {m}]
  BY DEF SkipFullOrClosed
<1>2. /\ scan'[h].openStatusListIds = scan[h].openStatusListIds
      /\ scan'[h].remaining = scan[h].remaining \ {m}
      /\ scan'[h].hadConflict = scan[h].hadConflict
      /\ \A g \in Hosts : g # h => scan'[g] = scan[g]
  BY <1>1 DEF TypeInv, TypeOK, Scan
<1>3. UNCHANGED <<catalog, routable, phase>>
  BY DEF SkipFullOrClosed
<1>4. RoutedIsOpened'
  BY <1>2, <1>3 DEF ScanInv, RoutedIsOpened, Opened
<1>5. ScannedIsFull'
  BY <1>1, <1>2, <1>3 DEF ScanInv, ScannedIsFull, HasFreeBlock, StateIs, Awaits
<1>6. QED
  BY <1>4, <1>5 DEF ScanInv

(* A step of the reservation itself is done with a list only when it was   *)
(* closed or full, or remembers the conflict.                              *)
LEMMA ReserveScan ==
  ASSUME TypeInv, ControlInv, IndexInv, ScanInv, NEW h \in Hosts,
         ReserveNextAvailableBlock(h)
  PROVE  ScanInv'
<1>c. InFlight(h) => cache[h] = NoBlock
  BY DEF ControlInv, CacheEmptyWhileReserving
<1>k. ASSUME UNCHANGED <<catalog, routable>>, \A g \in Hosts : ScanKept(g)
      PROVE  ScanInv'
  BY <1>k, CatalogUnchangedAges, RoutableAges, ScanAges
<1>r. ASSUME Reject(h), UNCHANGED <<catalog, routable>> PROVE ScanInv'
  BY <1>r, <1>k, ClearReservationScan DEF Reject, Settle
<1>p. ASSUME PatchApplies(h), ClearReservation(h), UNCHANGED routable
      PROVE  ScanInv'
  BY <1>p, PatchAppliesAges, RoutableAges, ClearReservationScan, ScanAges
<1>1. CASE GetRoutableStatusListIds(h)
  BY <1>1, GetRoutableScan
<1>2. CASE ReadFreeBlock(h)
  <2>1. PICK l \in scan[h].remaining :
          scan' = [scan EXCEPT ![h].remaining = @ \ {l}]
    BY <1>2 DEF ReadFreeBlock
  <2>2. /\ scan'[h].openStatusListIds = scan[h].openStatusListIds
        /\ \A g \in Hosts : g # h => scan'[g] = scan[g]
    BY <2>1 DEF TypeInv, TypeOK, Scan
  <2>3. QED
    BY <1>2, <1>k, <2>2, AwaitScan DEF ReadFreeBlock, Phase
<1>3. CASE SkipFullOrClosed(h)
  BY <1>3, SkipScan
<1>4. CASE PatchSucceeds(h)
  BY <1>4, <1>p DEF PatchSucceeds, ResolveWith, Settle
<1>5. CASE PatchConflicts(h)
  <2>1. /\ scan'[h].openStatusListIds = scan[h].openStatusListIds
        /\ scan'[h].hadConflict
        /\ \A g \in Hosts : g # h =>
             /\ scan'[g] = scan[g]
             /\ Awaits(g, "scanning")' <=> Awaits(g, "scanning")
    BY <1>5 DEF PatchConflicts, Await, Awaits, TypeInv, TypeOK, Scan
  <2>2. \A g \in Hosts : ScanKept(g)
    BY <2>1 DEF ScanKept
  <2>3. QED
    BY <1>5, <1>k, <2>2 DEF PatchConflicts
<1>6. CASE PatchAppliedButFails(h)
  BY <1>6, <1>p DEF PatchAppliedButFails, LoseReservedBlock, Reject, Settle
<1>7. CASE ScanExhausted(h)
  <2>1. cache[h] = NoBlock
    BY <1>7, <1>c DEF ScanExhausted, ScanIsOver, Awaits, InFlight
  <2>2. CASE MayRetry(h)
    BY <1>7, <2>1, <2>2, <1>k, AwaitScan DEF ScanExhausted, Phase
  <2>3. CASE ~MayRetry(h)
    BY <1>7, <2>1, <2>3, <1>r DEF ScanExhausted
  <2>4. QED
    BY <2>2, <2>3
<1>8. CASE NextAttempt(h)
  <2>1. cache[h] = NoBlock
    BY <1>8, <1>c DEF NextAttempt, Awaits, InFlight
  <2>2. QED
    BY <1>8, <2>1, <1>k, AwaitScan DEF NextAttempt, Phase
<1>9. CASE CallFails(h)
  BY <1>9, <1>r DEF CallFails
<1>10. QED
  BY <1>1, <1>2, <1>3, <1>4, <1>5, <1>6, <1>7, <1>8, <1>9
  DEF ReserveNextAvailableBlock, PatchAnswered

(* Every step keeps what scans know.                                       *)
LEMMA NextScanInv ==
  ASSUME TypeInv, ControlInv, IndexInv, ScanInv, [Next]_vars
  PROVE  ScanInv'
<1>u. ASSUME UNCHANGED <<phase, scan>>, CatalogAges,
             \A l \in routable' : Opened(l)'
      PROVE  ScanInv'
  <2>1. \A h \in Hosts : ScanKept(h)
    BY <1>u DEF ScanKept, Awaits
  <2>2. QED
    BY <1>u, <2>1, ScanAges
<1>1. CASE UNCHANGED vars
  BY <1>1, <1>u, CatalogUnchangedAges, RoutableAges DEF vars
<1>2. ASSUME NEW r \in Requests, AllocateStatusBinding(r) PROVE ScanInv'
  <2>1. UNCHANGED <<catalog, routable>>
    BY <1>2 DEF AllocateStatusBinding, TakeFromCache,
                WaitForInFlightReservation, StartReservation, BecomeOwner
  <2>2. CatalogAges /\ \A l \in routable' : Opened(l)'
    BY <2>1, CatalogUnchangedAges, RoutableAges
  <2>3. CASE TakeFromCache(r) \/ WaitForInFlightReservation(r)
    BY <2>2, <2>3, <1>u DEF TakeFromCache, WaitForInFlightReservation
  <2>4. CASE StartReservation(r)
    <3>1. \A h \in Hosts : ScanKept(h)
      BY <2>4, HostOfAssumption, AwaitScan
      DEF StartReservation, BecomeOwner, Await, Phase
    <3>2. QED
      BY <2>2, <3>1, ScanAges
  <2>5. QED
    BY <1>2, <2>3, <2>4 DEF AllocateStatusBinding
<1>3. ASSUME NEW h \in Hosts, Restart(h) \/ RestartAfterPatch(h)
      PROVE  ScanInv'
  <2>1. ClearReservation(h) /\ UNCHANGED routable
    BY <1>3 DEF Restart, RestartAfterPatch, ForgetHost
  <2>2. CatalogAges
    BY <1>3, CatalogUnchangedAges, PatchAppliesAges
    DEF Restart, RestartAfterPatch, LoseReservedBlock
  <2>3. QED
    BY <2>1, <2>2, ClearReservationScan, RoutableAges, ScanAges
<1>4. ASSUME NEW l \in StatusLists, Lifecycle(l) PROVE ScanInv'
  <2>1. CatalogAges
    BY <1>4, LifecycleAges
  <2>2. UNCHANGED <<phase, scan>>
    BY <1>4 DEF Lifecycle, OpenStatusList, SealStatusList,
                AddRoutableStatusListId, RemoveRoutableStatusListId, hostVars
  <2>3. \A m \in routable' : Opened(m)'
    <3>1. CASE AddRoutableStatusListId(l) \/ RemoveRoutableStatusListId(l)
      BY <3>1
      DEF AddRoutableStatusListId, RemoveRoutableStatusListId, ScanInv,
          RoutedIsOpened, Opened
    <3>2. CASE OpenStatusList(l) \/ SealStatusList(l)
      BY <2>1, <3>2, RoutableAges DEF OpenStatusList, SealStatusList
    <3>3. QED
      BY <1>4, <3>1, <3>2 DEF Lifecycle
  <2>4. QED
    BY <2>1, <2>2, <2>3, <1>u
<1>5. QED
  BY <1>1, <1>2, <1>3, <1>4, ReserveScan DEF Next

(* What scans know is invariant.                                           *)
LEMMA ScanCorrect == Spec => []ScanInv
BY InitScanInv, NextScanInv, TypeCorrect, ControlCorrect, IndexCorrect, PTL
DEF Spec

(* A reservation that ends for want of open lists found every list it was  *)
(* routed to closed or without a whole free block, unless conflicts used   *)
(* up its last attempt.                                                    *)
THEOREM AllocatorExhaustionIsReal == Spec => ExhaustionIsReal
<1>1. ASSUME TypeInv, ControlInv, ScanInv, NEW h \in Hosts,
             ScanExhausted(h), ~InFlight(h)'
      PROVE  \/ scan[h].hadConflict /\ attempt[h] = MaxRetries
             \/ \A l \in scan[h].openStatusListIds : ~HasFreeBlock(l)
  <2>1. cache[h] = NoBlock
    BY <1>1 DEF ScanExhausted, ScanIsOver, Awaits, InFlight, ControlInv,
                CacheEmptyWhileReserving
  <2>2. ~MayRetry(h)
    BY <1>1, <2>1 DEF ScanExhausted, Await, InFlight, TypeInv, TypeOK
  <2>3. CASE scan[h].hadConflict
    <3>1. attempt[h] \in 0..MaxRetries
      BY <1>1 DEF TypeInv, TypeOK
    <3>2. QED
      BY <2>2, <2>3, <3>1, MaxRetriesAssumption DEF MayRetry
  <2>4. CASE ~scan[h].hadConflict
    BY <1>1, <2>4 DEF ScanExhausted, ScanIsOver, ScanInv, ScannedIsFull
  <2>5. QED
    BY <2>3, <2>4
<1>2. TypeInv /\ ControlInv /\ ScanInv /\ [Next]_vars =>
        [\A h \in Hosts : ScanExhausted(h) /\ ~InFlight(h)' =>
           \/ scan[h].hadConflict /\ attempt[h] = MaxRetries
           \/ \A l \in scan[h].openStatusListIds : ~HasFreeBlock(l)]_vars
  BY <1>1
<1>3. QED
  BY <1>2, TypeCorrect, ControlCorrect, ScanCorrect, PTL
  DEF Spec, ExhaustionIsReal
----------------------------------------------------------------------------
(* Hosts and lifecycle runs share the containers *)

(* What may still be patched is OPEN: a list that was sealed since it was  *)
(* read has another etag.                                                  *)
PatchedIsOpen ==
  \A h \in Hosts :
    Awaits(h, "patching") /\ EtagMatches(read[h].list, read[h].etag) =>
      StateIs(read[h].list, "OPEN")

(* Every step lets the documents grow.                                     *)
LEMMA NextGrows ==
  ASSUME TypeInv, IndexInv, [Next]_vars
  PROVE  CatalogGrows
<1>u. UNCHANGED catalog => CatalogGrows
  BY CatalogUnchangedGrows
<1>p. ASSUME NEW h \in Hosts, PatchApplies(h) PROVE CatalogGrows
  BY <1>p, PatchAppliesEffect
<1>1. CASE UNCHANGED vars
  BY <1>1, <1>u DEF vars
<1>2. ASSUME NEW r \in Requests, AllocateStatusBinding(r) PROVE CatalogGrows
  BY <1>2, <1>u
  DEF AllocateStatusBinding, TakeFromCache, WaitForInFlightReservation,
      StartReservation, BecomeOwner
<1>3. ASSUME NEW h \in Hosts, ReserveNextAvailableBlock(h) PROVE CatalogGrows
  BY <1>3, <1>u, <1>p
  DEF ReserveNextAvailableBlock, PatchAnswered, GetRoutableStatusListIds,
      ReadFreeBlock, SkipFullOrClosed, PatchSucceeds, PatchConflicts,
      PatchAppliedButFails, LoseReservedBlock, ScanExhausted, NextAttempt, CallFails
<1>4. ASSUME NEW h \in Hosts, Restart(h) \/ RestartAfterPatch(h) PROVE CatalogGrows
  BY <1>4, <1>u, <1>p DEF Restart, RestartAfterPatch, LoseReservedBlock
<1>5. ASSUME NEW l \in StatusLists, Lifecycle(l) PROVE CatalogGrows
  BY <1>5, <1>u, PatchStateGrows
  DEF Lifecycle, OpenStatusList, OpenIfInitializing, SealStatusList,
      SealIfClosable, AddRoutableStatusListId, RemoveRoutableStatusListId, ListState
<1>6. QED
  BY <1>1, <1>2, <1>3, <1>4, <1>5 DEF Next

(* Only a read of a free block begins a patch.                             *)
LEMMA NextKeepsReads ==
  ASSUME TypeInv, [Next]_vars, \A h \in Hosts : ~ReadFreeBlock(h)
  PROVE  ReadsKept
<1>u. UNCHANGED <<phase, read>> => ReadsKept
  BY DEF ReadsKept, Awaits
<1>c. ASSUME NEW h \in Hosts, ClearReservation(h) PROVE ReadsKept
  BY <1>c DEF ClearReservation, ReadsKept, Awaits, TypeInv, TypeOK
<1>a. ASSUME NEW h \in Hosts, NEW p \in Phase \ {"patching"}, Await(h, p),
             \A g \in Hosts \ {h} : read'[g] = read[g]
      PROVE  ReadsKept
  BY <1>a DEF Await, ReadsKept, Awaits, TypeInv, TypeOK
<1>1. CASE UNCHANGED vars
  BY <1>1, <1>u DEF vars
<1>2. ASSUME NEW r \in Requests, AllocateStatusBinding(r) PROVE ReadsKept
  <2>1. CASE TakeFromCache(r) \/ WaitForInFlightReservation(r)
    BY <2>1, <1>u DEF TakeFromCache, WaitForInFlightReservation
  <2>2. CASE StartReservation(r)
    BY <2>2, <1>a, HostOfAssumption DEF StartReservation, BecomeOwner, Await, Phase
  <2>3. QED
    BY <1>2, <2>1, <2>2 DEF AllocateStatusBinding
<1>3. ASSUME NEW h \in Hosts, ReserveNextAvailableBlock(h) PROVE ReadsKept
  <2>1. CASE GetRoutableStatusListIds(h)
    BY <2>1, <1>a DEF GetRoutableStatusListIds, Phase
  <2>2. CASE SkipFullOrClosed(h)
    BY <2>2, <1>u DEF SkipFullOrClosed
  <2>3. CASE PatchConflicts(h)
    <3>1. \A g \in Hosts \ {h} : read'[g] = read[g]
      BY <2>3 DEF PatchConflicts, TypeInv, TypeOK
    <3>2. QED
      BY <2>3, <3>1, <1>a DEF PatchConflicts, Phase
  <2>4. CASE PatchSucceeds(h) \/ PatchAppliedButFails(h) \/ CallFails(h)
    BY <2>4, <1>c
    DEF PatchSucceeds, PatchAppliedButFails, CallFails, ResolveWith, Reject, Settle
  <2>5. CASE ScanExhausted(h)
    BY <2>5, <1>a, <1>c
    DEF ScanExhausted, ResolveFromCache, ResolveWith, Reject, Settle, Phase
  <2>6. CASE NextAttempt(h)
    BY <2>6, <1>a, <1>c
    DEF NextAttempt, ResolveFromCache, ResolveWith, Settle, Phase
  <2>7. QED
    BY <1>3, <2>1, <2>2, <2>3, <2>4, <2>5, <2>6
    DEF ReserveNextAvailableBlock, PatchAnswered
<1>4. ASSUME NEW h \in Hosts, Restart(h) \/ RestartAfterPatch(h) PROVE ReadsKept
  BY <1>4, <1>c DEF Restart, RestartAfterPatch, ForgetHost
<1>5. ASSUME NEW l \in StatusLists, Lifecycle(l) PROVE ReadsKept
  BY <1>5, <1>u
  DEF Lifecycle, OpenStatusList, SealStatusList, AddRoutableStatusListId,
      RemoveRoutableStatusListId, hostVars
<1>6. QED
  BY <1>1, <1>2, <1>3, <1>4, <1>5 DEF Next

(* So what may be patched stays OPEN.                                      *)
LEMMA NextPatchedIsOpen ==
  ASSUME TypeInv, TypeInv', IndexInv, PatchedIsOpen, [Next]_vars
  PROVE  PatchedIsOpen'
<1>t. \A h \in Hosts : Awaits(h, "patching") =>
        /\ read[h].list \in StatusLists /\ read[h].etag \in Nat
        /\ catalog[read[h].list].etag \in Nat /\ catalog'[read[h].list].etag \in Nat
        /\ read[h].etag <= catalog[read[h].list].etag
  BY DEF TypeInv, TypeOK, ReservationShape, Read, CatalogDocument, IndexInv, ReadIsCurrent
<1>1. ASSUME NEW g \in Hosts, Awaits(g, "patching"), Awaits(g, "patching")',
             read'[g] = read[g], EtagMatches(read[g].list, read[g].etag)'
      PROVE  StateIs(read[g].list, "OPEN")'
  <2>1. CatalogGrows
    BY NextGrows
  <2>2. catalog'[read[g].list] = catalog[read[g].list]
    BY <1>1, <1>t, <2>1 DEF CatalogGrows, EtagMatches
  <2>3. QED
    BY <1>1, <2>2 DEF PatchedIsOpen, EtagMatches, StateIs
<1>2. CASE \A h \in Hosts : ~ReadFreeBlock(h)
  <2>1. ReadsKept
    BY <1>2, NextKeepsReads
  <2>2. QED
    BY <1>1, <2>1 DEF ReadsKept, PatchedIsOpen
<1>3. ASSUME NEW h \in Hosts, ReadFreeBlock(h) PROVE PatchedIsOpen'
  <2>1. PICK l \in scan[h].remaining :
          /\ HasFreeBlock(l)
          /\ read' = [read EXCEPT ![h] = [list |-> l,
               index |-> catalog[l].nextFreeIndex, etag |-> catalog[l].etag]]
    BY <1>3 DEF ReadFreeBlock
  <2>2. read'[h].list = l /\ StateIs(l, "OPEN")' /\ UNCHANGED catalog
    BY <1>3, <2>1 DEF ReadFreeBlock, HasFreeBlock, StateIs, TypeInv, TypeOK
  <2>3. \A g \in Hosts \ {h} : /\ read'[g] = read[g]
                               /\ Awaits(g, "patching")' => Awaits(g, "patching")
    BY <1>3, <2>1 DEF ReadFreeBlock, Await, Awaits, TypeInv, TypeOK
  <2>4. QED
    BY <1>1, <2>2, <2>3 DEF PatchedIsOpen
<1>4. QED
  BY <1>2, <1>3

(* A patch that is applied reserves the next block of an OPEN list.        *)
LEMMA PatchReserves ==
  ASSUME TypeInv, IndexInv, PatchedIsOpen, NEW h \in Hosts, PatchApplies(h),
         UNCHANGED routable
  PROVE  Containers!HostStep
<1> DEFINE l == read[h].list
<1>1. /\ l \in StatusLists
      /\ catalog[l].nextFreeIndex = read[h].index
      /\ read[h].index + BlockSize <= CapacityBits
  BY PatchAppliesEffect
<1>2. StateIs(l, "OPEN")
  BY DEF PatchApplies, PatchedIsOpen
<1>3. Containers!HasFreeBlock(l)
  BY <1>1, <1>2 DEF Containers!HasFreeBlock, Containers!StateIs, StateIs
<1>4. Containers!AdvanceNextFreeIndex(l, catalog[l].nextFreeIndex)
  BY <1>1 DEF PatchApplies, AdvanceNextFreeIndex, Patch,
              Containers!AdvanceNextFreeIndex, Containers!Patch
<1>5. QED
  BY <1>1, <1>3, <1>4 DEF Containers!HostStep, Containers!ReserveBlock

(* That is all that hosts ever do to the containers.                       *)
LEMMA HostsReserve ==
  ASSUME TypeInv, IndexInv, PatchedIsOpen,
         \/ \E r \in Requests : AllocateStatusBinding(r)
         \/ \E h \in Hosts : ReserveNextAvailableBlock(h)
         \/ \E h \in Hosts : Restart(h) \/ RestartAfterPatch(h)
  PROVE  Containers!HostStep \/ UNCHANGED Containers!vars
<1>u. UNCHANGED <<catalog, routable>> => UNCHANGED Containers!vars
  BY DEF Containers!vars
<1>1. ASSUME NEW r \in Requests, AllocateStatusBinding(r)
      PROVE  UNCHANGED Containers!vars
  BY <1>1, <1>u
  DEF AllocateStatusBinding, TakeFromCache, WaitForInFlightReservation,
      StartReservation, BecomeOwner
<1>2. ASSUME NEW h \in Hosts, ReserveNextAvailableBlock(h)
      PROVE  Containers!HostStep \/ UNCHANGED Containers!vars
  BY <1>2, <1>u, PatchReserves
  DEF ReserveNextAvailableBlock, PatchAnswered, GetRoutableStatusListIds,
      ReadFreeBlock, SkipFullOrClosed, PatchSucceeds, PatchConflicts,
      PatchAppliedButFails, LoseReservedBlock, ScanExhausted, NextAttempt, CallFails
<1>3. ASSUME NEW h \in Hosts, Restart(h) \/ RestartAfterPatch(h)
      PROVE  Containers!HostStep \/ UNCHANGED Containers!vars
  BY <1>3, <1>u, PatchReserves
  DEF Restart, RestartAfterPatch, LoseReservedBlock, ForgetHost
<1>4. QED
  BY <1>1, <1>2, <1>3

(* And what the allocator expects of its environment is what lifecycle     *)
(* runs do, and nothing else.                                              *)
LEMMA EnvironmentManages ==
  ASSUME NEW l \in StatusLists, Lifecycle(l)
  PROVE  Containers!ManagerStep
<1>1. CASE OpenStatusList(l)
  <2>1. Containers!Open(l)
    BY <1>1
    DEF OpenStatusList, OpenIfInitializing, PatchState, Patch, StateIs, Containers!Open,
        Containers!PatchState, Containers!Patch, Containers!StateIs
  <2>2. QED
    BY <2>1 DEF Containers!ManagerStep
<1>2. CASE SealStatusList(l)
  <2>1. Containers!Seal(l)
    BY <1>2
    DEF SealStatusList, SealIfClosable, IsClosable, PatchState, Patch, StateIs,
        Containers!Seal, Containers!IsClosable, Containers!PatchState,
        Containers!Patch, Containers!StateIs
  <2>2. QED
    BY <2>1 DEF Containers!ManagerStep
<1>3. CASE AddRoutableStatusListId(l)
  <2>1. Containers!Route(l)
    BY <1>3 DEF AddRoutableStatusListId, Containers!Route, Containers!StateIs
  <2>2. QED
    BY <2>1 DEF Containers!ManagerStep
<1>4. CASE RemoveRoutableStatusListId(l)
  <2>1. Containers!Unroute(l)
    BY <1>4 DEF RemoveRoutableStatusListId, Containers!Unroute
  <2>2. QED
    BY <2>1 DEF Containers!ManagerStep
<1>5. QED
  BY <1>1, <1>2, <1>3, <1>4 DEF Lifecycle

(* It is all of what they do but the creation of a list, as every list is  *)
(* there from the start.                                                   *)
LEMMA ManagersAreEnvironment ==
  ASSUME Containers!ManagerStep, UNCHANGED hostVars,
         \A l \in StatusLists : ~StateIs(l, "ABSENT")
  PROVE  \E l \in StatusLists : Lifecycle(l)
<1>1. PICK l \in StatusLists :
        \/ Containers!Open(l) \/ Containers!Seal(l)
        \/ Containers!Route(l) \/ Containers!Unroute(l)
  BY DEF Containers!ManagerStep, Containers!Create, Containers!CreateInitializing,
         Containers!StateIs, StateIs
<1>2. Containers!Open(l) => OpenStatusList(l)
  BY DEF OpenStatusList, OpenIfInitializing, PatchState, Patch, StateIs,
         Containers!Open, Containers!PatchState, Containers!Patch, Containers!StateIs
<1>3. Containers!Seal(l) => SealStatusList(l)
  BY DEF SealStatusList, SealIfClosable, IsClosable, PatchState, Patch, StateIs,
         Containers!Seal, Containers!IsClosable, Containers!PatchState,
         Containers!Patch, Containers!StateIs
<1>4. Containers!Route(l) => AddRoutableStatusListId(l)
  BY DEF AddRoutableStatusListId, Containers!Route, Containers!StateIs
<1>5. Containers!Unroute(l) => RemoveRoutableStatusListId(l)
  BY DEF RemoveRoutableStatusListId, Containers!Unroute
<1>6. QED
  BY <1>1, <1>2, <1>3, <1>4, <1>5 DEF Lifecycle

(* Whatever hosts have read, what they do to the catalog is to reserve the *)
(* next block of a list that is OPEN at that moment, and nothing else.     *)
THEOREM AllocatorImplementsContainers == Spec => ImplementsContainers
<1>1. Init => PatchedIsOpen /\ Containers!Init
  BY DEF Init, PatchedIsOpen, Awaits, Containers!Init, InitializingDocument,
         AbsentDocument, Containers!InitializingDocument, Containers!AbsentDocument
<1>2. TypeInv /\ TypeInv' /\ IndexInv /\ PatchedIsOpen /\ [Next]_vars => PatchedIsOpen'
  BY NextPatchedIsOpen
<1>3. TypeInv /\ IndexInv /\ PatchedIsOpen /\ [Next]_vars
        => [Containers!Next]_(Containers!vars)
  <2> SUFFICES ASSUME TypeInv, IndexInv, PatchedIsOpen, [Next]_vars
               PROVE  Containers!Next \/ UNCHANGED Containers!vars
    OBVIOUS
  <2>1. CASE UNCHANGED vars
    BY <2>1 DEF vars, Containers!vars
  <2>2. CASE Next
    BY <2>2, HostsReserve, EnvironmentManages DEF Next, Containers!Next
  <2>3. QED
    BY <2>1, <2>2
<1>4. Spec => Containers!Spec
  BY <1>1, <1>2, <1>3, TypeCorrect, IndexCorrect, PTL DEF Spec, Containers!Spec
<1>5. QED
  BY <1>4 DEF ImplementsContainers
=============================================================================
