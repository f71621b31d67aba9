------------------------ MODULE StatusListContainers ------------------------
(***************************************************************************)
(* The two containers that allocators and lifecycle runs share, the        *)
(* catalog of the status lists and the routing, and all that either side   *)
(* may ever do to them: hosts reserve one block after the other of an OPEN *)
(* list, and lifecycle runs create, open, seal and route lists, one at a   *)
(* time.  What one side does is all that the other has to reckon with.     *)
(***************************************************************************)
EXTENDS StatusListCatalog

VARIABLE routable   \* the ids in the routing container

vars == <<catalog, routable>>

Init ==
  /\ catalog \in [StatusLists -> {AbsentDocument, InitializingDocument}]
  /\ routable = {}

----------------------------------------------------------------------------
(* The hosts, behind the etag *)
ReserveBlock(l) ==
  /\ HasFreeBlock(l)
  /\ AdvanceNextFreeIndex(l, catalog[l].nextFreeIndex)
  /\ UNCHANGED routable

HostStep == \E l \in StatusLists : ReserveBlock(l)

----------------------------------------------------------------------------
(* The lifecycle runs, behind the conditions of their patches *)
Create(l) == CreateInitializing(l) /\ UNCHANGED routable

Open(l) ==
  /\ StateIs(l, "INITIALIZING")
  /\ PatchState(l, "OPEN")
  /\ UNCHANGED routable

Seal(l) ==
  /\ IsClosable(l)
  /\ PatchState(l, "SEALED")
  /\ UNCHANGED routable

Route(l) ==
  /\ StateIs(l, "OPEN") \/ StateIs(l, "SEALED")
  /\ routable' = routable \cup {l}
  /\ UNCHANGED catalog

Unroute(l) ==
  /\ routable' = routable \ {l}
  /\ UNCHANGED catalog

ManagerStep ==
  \E l \in StatusLists : Create(l) \/ Open(l) \/ Seal(l) \/ Route(l) \/ Unroute(l)

----------------------------------------------------------------------------
Next == HostStep \/ ManagerStep

Spec == Init /\ [][Next]_vars
=============================================================================
