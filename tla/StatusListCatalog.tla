------------------------- MODULE StatusListCatalog -------------------------
(***************************************************************************)
(* The "status-list-catalogs" container: one document per status list,    *)
(* read with its etag and changed only by conditional patches              *)
(* (apps/io-wallet-user-func/src/infra/azure/cosmos/status-list-catalog).  *)
(* The module holds the document and the database operations on it; the    *)
(* allocator and the lifecycle manager, which share the container, are     *)
(* modules of their own that extend this one.                              *)
(***************************************************************************)
EXTENDS Integers

CONSTANTS
  StatusLists,    \* the uuids that a status list may get
  CapacityBits,   \* pageCount * pageBitsSize: bits of one status list
  BlockSize       \* indices reserved at once, and the margin for sealing

ASSUME CapacityAssumption  == CapacityBits \in Nat
ASSUME BlockSizeAssumption == BlockSize \in Nat \ {0}

VARIABLE catalog

ListState == {"ABSENT", "INITIALIZING", "OPEN", "SEALED"}

(* etag is a counter: Cosmos DB gives the document a new etag at every     *)
(* write, and never one the document already had.                          *)
CatalogDocument == [state: ListState, nextFreeIndex: Nat, etag: Nat]

AbsentDocument       == [state |-> "ABSENT", nextFreeIndex |-> 0, etag |-> 0]
InitializingDocument == [AbsentDocument EXCEPT !.state = "INITIALIZING"]

StateIs(l, state) == catalog[l].state = state

\* Mutant: the rest of the list may be shorter than a block.
HasFreeIndex(l) ==
  /\ StateIs(l, "OPEN")
  /\ catalog[l].nextFreeIndex < CapacityBits

(* reserveNextBlock: the check on the document read, before the patch.     *)
HasFreeBlock(l) ==
  /\ StateIs(l, "OPEN")
  /\ catalog[l].nextFreeIndex + BlockSize <= CapacityBits

\* Mutant: any open list may be sealed.
IsOpen(l) == StateIs(l, "OPEN")

(* closeAlmostFullStatusLists: the filter of the query, repeated as the    *)
(* condition of every patch.                                               *)
IsClosable(l) ==
  /\ StateIs(l, "OPEN")
  /\ catalog[l].nextFreeIndex > CapacityBits - BlockSize

Patch(l, doc) ==
  catalog' = [catalog EXCEPT ![l] = [doc EXCEPT !.etag = @ + 1]]

PatchState(l, state) == Patch(l, [catalog[l] EXCEPT !.state = state])

(* createInitializingStatusList: the new document, under a fresh uuid.     *)
CreateInitializing(l) ==
  /\ StateIs(l, "ABSENT")
  /\ catalog' = [catalog EXCEPT ![l] = InitializingDocument]

\* Mutant: the patch has no condition on the state.
OpenAnyway(l) == PatchState(l, "OPEN")

(* The patch of openStatusList.  A failed condition (412) is not an error: *)
(* the call returns as if it had opened the list.                          *)
OpenIfInitializing(l) ==
  IF StateIs(l, "INITIALIZING") THEN PatchState(l, "OPEN")
                                ELSE UNCHANGED catalog

(* One patch of #closeStatusLists; 404 and 412 are ignored.                *)
SealIfClosable(l) ==
  IF IsClosable(l) THEN PatchState(l, "SEALED") ELSE UNCHANGED catalog

\* Mutant: the patch is sent without its IfMatch condition.
AnyEtag(l, etag) == StateIs(l, "OPEN")

(* The patch of reserveNextBlock, sent with the etag and the index read.   *)
EtagMatches(l, etag) == catalog[l].etag = etag

AdvanceNextFreeIndex(l, index) ==
  Patch(l, [catalog[l] EXCEPT !.nextFreeIndex = index + BlockSize])
=============================================================================
