--------------------- MODULE StatusListLifecycleProofs ---------------------
(***************************************************************************)
(* Theorems about StatusListLifecycle, for every number of overlapping     *)
(* runs, lists and pages, and for every target and batch size.             *)
(***************************************************************************)
EXTENDS StatusListLifecycle, FiniteSetTheorems, WellFoundedInduction, TLAPS

----------------------------------------------------------------------------
(* The operations on the catalog *)

(* The type of the container.                                              *)
CatalogTypeOK == catalog \in [StatusLists -> CatalogDocument]

(* The other lists keep their documents, and l gets this state.            *)
OnlyState(l, state) ==
  /\ \A k \in StatusLists \ {l} : catalog'[k] = catalog[k]
  /\ catalog'[l].state = state

(* What the operations on the container do to the states of the lists: a   *)
(* patch sets that of one list ...                                         *)
LEMMA PatchEffect ==
  ASSUME CatalogTypeOK, NEW l \in StatusLists, NEW doc \in CatalogDocument,
         Patch(l, doc)
  PROVE  CatalogTypeOK' /\ OnlyState(l, doc.state)
BY DEF CatalogTypeOK, Patch, OnlyState, CatalogDocument

(* ... as the one of the state does ...                                    *)
LEMMA PatchStateEffect ==
  ASSUME CatalogTypeOK, NEW l \in StatusLists, NEW state \in ListState,
         PatchState(l, state)
  PROVE  CatalogTypeOK' /\ OnlyState(l, state)
<1>1. [catalog[l] EXCEPT !.state = state] \in CatalogDocument
  BY DEF CatalogTypeOK, CatalogDocument
<1>2. [catalog[l] EXCEPT !.state = state].state = state
  BY DEF CatalogTypeOK, CatalogDocument
<1>3. QED
  BY <1>1, <1>2, PatchEffect DEF PatchState

(* ... creation starts a list that did not exist ...                       *)
LEMMA CreateEffect ==
  ASSUME CatalogTypeOK, NEW l \in StatusLists, CreateInitializing(l)
  PROVE  /\ CatalogTypeOK'
         /\ StateIs(l, "ABSENT")
         /\ OnlyState(l, "INITIALIZING")
<1>1. InitializingDocument \in CatalogDocument /\ InitializingDocument.state = "INITIALIZING"
  BY DEF InitializingDocument, AbsentDocument, CatalogDocument, ListState
<1>2. QED
  BY <1>1 DEF CatalogTypeOK, CreateInitializing, OnlyState

(* ... opening moves on an INITIALIZING one or nothing ...                 *)
LEMMA OpenEffect ==
  ASSUME CatalogTypeOK, NEW l \in StatusLists, OpenIfInitializing(l)
  PROVE  /\ CatalogTypeOK'
         /\ \/ StateIs(l, "INITIALIZING") /\ OnlyState(l, "OPEN")
            \/ ~StateIs(l, "INITIALIZING") /\ UNCHANGED catalog
<1>1. CASE StateIs(l, "INITIALIZING")
  BY <1>1, PatchStateEffect DEF OpenIfInitializing, ListState
<1>2. CASE ~StateIs(l, "INITIALIZING")
  BY <1>2 DEF OpenIfInitializing, CatalogTypeOK
<1>3. QED
  BY <1>1, <1>2

(* ... sealing an OPEN one or nothing ...                                  *)
LEMMA SealEffect ==
  ASSUME CatalogTypeOK, NEW l \in StatusLists, SealIfClosable(l)
  PROVE  /\ CatalogTypeOK'
         /\ \/ StateIs(l, "OPEN") /\ OnlyState(l, "SEALED")
            \/ UNCHANGED catalog
<1>1. CASE IsClosable(l)
  BY <1>1, PatchStateEffect DEF SealIfClosable, IsClosable, ListState
<1>2. CASE ~IsClosable(l)
  BY <1>2 DEF SealIfClosable, CatalogTypeOK
<1>3. QED
  BY <1>1, <1>2

(* ... and a reservation moves none.                                       *)
LEMMA AdvanceEffect ==
  ASSUME CatalogTypeOK, NEW l \in StatusLists, NEW i \in Nat,
         AdvanceNextFreeIndex(l, i)
  PROVE  CatalogTypeOK' /\ OnlyState(l, catalog[l].state)
<1>1. [catalog[l] EXCEPT !.nextFreeIndex = i + BlockSize] \in CatalogDocument
  BY BlockSizeAssumption DEF CatalogTypeOK, CatalogDocument
<1>2. [catalog[l] EXCEPT !.nextFreeIndex = i + BlockSize].state = catalog[l].state
  BY DEF CatalogTypeOK, CatalogDocument
<1>3. QED
  BY <1>1, <1>2, PatchEffect DEF AdvanceNextFreeIndex

----------------------------------------------------------------------------
(* The inductive invariant *)

(* List l has a document.                                                  *)
Created(l) == ~StateIs(l, "ABSENT")

(* All pages of a list are there.                                          *)
HasPages(l) == pages[l] = Pages

(* What a provisioning has achieved when it awaits its next call.          *)
Achieved(l, s) ==
  /\ s # "none" => Created(l)
  /\ s \in {"publishing", "opening", "routing"} => HasPages(l)
  /\ s \in {"opening", "routing"} => l \in published
  /\ s = "routing" => WasOpened(l)

(* That, of every provisioning.                                            *)
SetupInv == \A m \in Managers, l \in StatusLists : Achieved(l, step[m][l])

(* What a run has read may be old, but remains true of the lists it read.  *)
SeenInv ==
  \A m \in Managers, l \in StatusLists :
    /\ l \in todo[m] => Created(l)
    /\ l \in openSeen[m] \cup adds[m] => WasOpened(l)

(* The inductive invariant.                                                *)
LifecycleInv ==
  /\ StoresTypeOK
  /\ RunsTypeOK
  /\ SetupInv
  /\ SeenInv
  /\ OpenedIsReady
  /\ RoutedWasOpened

(* No store forgets: this carries what a run knows over the steps of the   *)
(* other runs and of the environment.                                      *)
Grows ==
  \A l \in StatusLists :
    /\ Created(l) => Created(l)'
    /\ WasOpened(l) => WasOpened(l)'
    /\ HasPages(l) => HasPages(l)'
    /\ l \in published => l \in published'

(* A step of the catalog moves a list to the next state or not at all.     *)
MovesOn ==
  \A l \in StatusLists :
    catalog'[l].state # catalog[l].state =>
      <<catalog[l].state, catalog'[l].state>> \in
        {<<"ABSENT", "INITIALIZING">>, <<"INITIALIZING", "OPEN">>,
         <<"OPEN", "SEALED">>}

(* What every step does to the four stores.                                *)
StoresStep ==
  /\ StoresTypeOK'
  /\ Grows
  /\ MovesOn
  /\ OpenedIsReady'
  /\ RoutedWasOpened'

(* It holds before any list is created.                                    *)
LEMMA InitLifecycleInv == Init => LifecycleInv
<1> SUFFICES ASSUME Init PROVE LifecycleInv
  OBVIOUS
<1>1. StoresTypeOK
  BY DEF Init, StoresTypeOK, AbsentDocument, CatalogDocument, ListState
<1>2. RunsTypeOK
  BY DEF Init, RunsTypeOK, Phase, Step, NoSteps
<1>3. SetupInv /\ SeenInv
  BY DEF Init, SetupInv, Achieved, SeenInv, NoSteps
<1>4. OpenedIsReady /\ RoutedWasOpened
  BY DEF Init, OpenedIsReady, RoutedWasOpened, WasOpened, AbsentDocument
<1>5. QED
  BY <1>1, <1>2, <1>3, <1>4 DEF LifecycleInv

----------------------------------------------------------------------------
(* The stores *)

(* A patch that moves one document to the next state, and no further list  *)
(* to OPEN than one that is ready.                                         *)
LEMMA CatalogMoves ==
  ASSUME LifecycleInv, CatalogTypeOK', NEW l \in StatusLists,
         NEW state \in ListState, OnlyState(l, state),
         \/ state = catalog[l].state
         \/ StateIs(l, "ABSENT") /\ state = "INITIALIZING"
         \/ StateIs(l, "INITIALIZING") /\ state = "OPEN" /\ HasPages(l)
              /\ l \in published
         \/ StateIs(l, "OPEN") /\ state = "SEALED",
         UNCHANGED <<stores, stale>>
  PROVE  StoresStep
<1> USE DEF LifecycleInv, OnlyState, StateIs, stores
<1>1. StoresTypeOK'
  BY DEF StoresTypeOK, CatalogTypeOK
<1>2. Grows
  BY DEF Grows, Created, WasOpened, HasPages
<1>3. MovesOn
  BY DEF MovesOn
<1>4. OpenedIsReady'
  BY DEF OpenedIsReady, WasOpened, HasPages
<1>5. RoutedWasOpened'
  BY <1>2 DEF RoutedWasOpened, Grows, StoresTypeOK
<1>6. QED
  BY <1>1, <1>2, <1>3, <1>4, <1>5 DEF StoresStep

(* Each call does to the stores what StoresStep allows.                    *)
LEMMA StoresUnchanged ==
  ASSUME LifecycleInv, UNCHANGED <<catalog, stores>>,
         stale' \in SUBSET StatusLists
  PROVE  StoresStep
BY DEF LifecycleInv, StoresStep, StoresTypeOK, Grows, MovesOn, OpenedIsReady,
       RoutedWasOpened, Created, WasOpened, HasPages, StateIs, stores

(* An open patch is allowed when the pages and the blob are there.         *)
LEMMA StoresOpen ==
  ASSUME LifecycleInv, NEW m \in Managers, NEW l \in StatusLists,
         Awaits(m, l, "opening"), OpenIfInitializing(l),
         UNCHANGED <<stores, stale>>
  PROVE  StoresStep /\ WasOpened(l)'
<1>1. CatalogTypeOK
  BY DEF LifecycleInv, StoresTypeOK, CatalogTypeOK
<1>2. Created(l) /\ HasPages(l) /\ l \in published
  BY DEF LifecycleInv, SetupInv, Achieved, Awaits
<1>3. catalog[l].state \in ListState
  BY DEF LifecycleInv, StoresTypeOK, CatalogDocument
<1>4. CASE StateIs(l, "INITIALIZING") /\ OnlyState(l, "OPEN")
  <2>1. StoresStep
    BY <1>1, <1>2, <1>4, OpenEffect, CatalogMoves DEF ListState
  <2>2. QED
    BY <1>4, <2>1 DEF OnlyState, WasOpened
<1>5. CASE ~StateIs(l, "INITIALIZING") /\ UNCHANGED catalog
  <2>1. StoresStep
    BY <1>5, StoresUnchanged DEF LifecycleInv, StoresTypeOK
  <2>2. QED
    BY <1>2, <1>3, <1>5, <2>1 DEF Created, WasOpened, StateIs, ListState
<1>6. QED
  BY <1>1, <1>4, <1>5, OpenEffect

(* Pages are added at any time.                                            *)
LEMMA StoresAddPages ==
  ASSUME LifecycleInv, NEW l \in StatusLists, NEW P \in SUBSET Pages,
         AddPages(l, P), UNCHANGED <<catalog, routable, published, stale>>
  PROVE  StoresStep
BY DEF LifecycleInv, StoresStep, StoresTypeOK, Grows, MovesOn, OpenedIsReady,
       RoutedWasOpened, Created, WasOpened, HasPages, StateIs, AddPages

(* So is a blob.                                                           *)
LEMMA StoresPublish ==
  ASSUME LifecycleInv, NEW l \in StatusLists, published' = published \cup {l},
         UNCHANGED <<catalog, routable, pages, stale>>
  PROVE  StoresStep
BY DEF LifecycleInv, StoresStep, StoresTypeOK, Grows, MovesOn, OpenedIsReady,
       RoutedWasOpened, Created, WasOpened, HasPages, StateIs

(* A list is routed once it was opened.                                    *)
LEMMA StoresRoute ==
  ASSUME LifecycleInv, NEW l \in StatusLists,
         \/ WasOpened(l) /\ routable' = routable \cup {l}
         \/ routable' = routable \ {l},
         UNCHANGED <<catalog, pages, published, stale>>
  PROVE  StoresStep
BY DEF LifecycleInv, StoresStep, StoresTypeOK, Grows, MovesOn, OpenedIsReady,
       RoutedWasOpened, Created, WasOpened, HasPages, StateIs

(* A list that is absent is created.                                       *)
LEMMA StoresCreate ==
  ASSUME LifecycleInv, NEW l \in StatusLists, CreateInitializing(l),
         UNCHANGED <<stores, stale>>
  PROVE  StoresStep /\ Created(l)'
<1>1. CatalogTypeOK
  BY DEF LifecycleInv, StoresTypeOK, CatalogTypeOK
<1>2. CatalogTypeOK' /\ StateIs(l, "ABSENT") /\ OnlyState(l, "INITIALIZING")
  BY <1>1, CreateEffect
<1>3. StoresStep
  BY <1>2, CatalogMoves DEF ListState
<1>4. QED
  BY <1>2, <1>3 DEF OnlyState, Created, StateIs

(* A list is sealed by its condition.                                      *)
LEMMA StoresSeal ==
  ASSUME LifecycleInv, NEW l \in StatusLists, SealIfClosable(l),
         UNCHANGED <<stores, stale>>
  PROVE  StoresStep
<1>1. CatalogTypeOK
  BY DEF LifecycleInv, StoresTypeOK, CatalogTypeOK
<1>2. CASE StateIs(l, "OPEN") /\ OnlyState(l, "SEALED")
  BY <1>1, <1>2, SealEffect, CatalogMoves DEF ListState
<1>3. CASE UNCHANGED catalog
  BY <1>3, StoresUnchanged DEF LifecycleInv, StoresTypeOK
<1>4. QED
  BY <1>1, <1>2, <1>3, SealEffect

(* Hosts reserve blocks of it.                                             *)
LEMMA StoresReserve ==
  ASSUME LifecycleInv, NEW l \in StatusLists,
         AdvanceNextFreeIndex(l, catalog[l].nextFreeIndex),
         UNCHANGED <<stores, stale>>
  PROVE  StoresStep
<1>1. CatalogTypeOK
  BY DEF LifecycleInv, StoresTypeOK, CatalogTypeOK
<1>2. catalog[l].nextFreeIndex \in Nat /\ catalog[l].state \in ListState
  BY DEF LifecycleInv, StoresTypeOK, CatalogDocument
<1>3. CatalogTypeOK' /\ OnlyState(l, catalog[l].state)
  BY <1>1, <1>2, AdvanceEffect
<1>4. QED
  BY <1>2, <1>3, CatalogMoves

(* What a failed call may have done is one of these.                       *)
LEMMA StoresMaybeDone ==
  ASSUME LifecycleInv, NEW m \in Managers, NEW l \in StatusLists,
         MaybeDone(m, l), UNCHANGED stale
  PROVE  StoresStep
<1>1. CASE UNCHANGED <<catalog, stores>>
  BY <1>1, StoresUnchanged DEF LifecycleInv, StoresTypeOK
<1>2. CASE /\ \E P \in SUBSET Pages : AddPages(l, P)
           /\ UNCHANGED <<catalog, routable, published>>
  BY <1>2, StoresAddPages
<1>3. CASE published' = published \cup {l} /\ UNCHANGED <<catalog, routable, pages>>
  BY <1>3, StoresPublish
<1>4. CASE Awaits(m, l, "opening") /\ OpenIfInitializing(l) /\ UNCHANGED stores
  BY <1>4, StoresOpen
<1>5. CASE /\ Awaits(m, l, "routing") /\ routable' = routable \cup {l}
           /\ UNCHANGED <<catalog, pages, published>>
  <2>1. WasOpened(l)
    BY <1>5 DEF LifecycleInv, SetupInv, Achieved, Awaits
  <2>2. QED
    BY <1>5, <2>1, StoresRoute
<1>6. QED
  BY <1>1, <1>2, <1>3, <1>4, <1>5 DEF MaybeDone

----------------------------------------------------------------------------
(* The runs *)

(* A step keeps the invariant when it does to the stores what StoresStep   *)
(* allows, and every run knows no more than is true.                       *)
LEMMA KeepsInv ==
  ASSUME LifecycleInv, StoresStep, RunsTypeOK',
         \A m \in Managers, l \in StatusLists :
           /\ \A s \in Step :
                step'[m][l] = s => step[m][l] = s \/ Achieved(l, s)'
           /\ l \in todo'[m] => l \in todo[m] \/ Created(l)'
           /\ l \in openSeen'[m] \cup adds'[m] =>
                l \in openSeen[m] \cup adds[m] \/ WasOpened(l)'
  PROVE  LifecycleInv' /\ MovesOn
<1>1. Grows
  BY DEF StoresStep
<1>2. SetupInv'
  <2>1. ASSUME NEW m \in Managers, NEW l \in StatusLists, NEW s \in Step,
               step'[m][l] = s
        PROVE  Achieved(l, s)'
    <3>1. CASE step[m][l] = s
      <4>1. Achieved(l, s)
        BY <3>1 DEF LifecycleInv, SetupInv
      <4>2. QED
        BY <1>1, <4>1 DEF Achieved, Grows
    <3>2. QED
      BY <2>1, <3>1
  <2>2. \A m \in Managers, l \in StatusLists : step'[m][l] \in Step
    BY DEF RunsTypeOK
  <2>3. QED
    BY <2>1, <2>2 DEF SetupInv
<1>3. SeenInv'
  BY <1>1 DEF LifecycleInv, SeenInv, Grows
<1>4. QED
  BY <1>2, <1>3 DEF LifecycleInv, StoresStep

(* The step of one provisioning, and of no other.                          *)
LEMMA OneStep ==
  ASSUME LifecycleInv, NEW m \in Managers, NEW l \in StatusLists,
         NEW s \in Step, Awaiting(m, l, s)
  PROVE  /\ step' \in [Managers -> [StatusLists -> Step]]
         /\ \A n \in Managers, k \in StatusLists :
              step'[n][k] = IF n = m /\ k = l THEN s ELSE step[n][k]
BY DEF LifecycleInv, RunsTypeOK, Awaiting

(* The end of a run forgets, and learns nothing.                           *)
LEMMA EndsRun ==
  ASSUME LifecycleInv, NEW m \in Managers, EndRun(m)
  PROVE  /\ phase' \in [Managers -> Phase]
         /\ todo' \in [Managers -> SUBSET StatusLists]
         /\ openSeen' \in [Managers -> SUBSET StatusLists]
         /\ removes' \in [Managers -> SUBSET StatusLists]
         /\ adds' = adds
         /\ \A n \in Managers : todo'[n] \subseteq todo[n]
         /\ \A n \in Managers : openSeen'[n] \subseteq openSeen[n]
BY DEF LifecycleInv, RunsTypeOK, EndRun, Leave, Enter, Phase

(* Each action keeps the invariant and moves lists on only.                *)
LEMMA StartRunInv ==
  ASSUME LifecycleInv, NEW m \in Managers, StartRun(m)
  PROVE  LifecycleInv' /\ MovesOn
<1>1. StoresStep
  BY StoresUnchanged DEF StartRun, LifecycleInv, StoresTypeOK
<1>2. RunsTypeOK'
  BY DEF StartRun, Enter, LifecycleInv, RunsTypeOK, Phase
<1>3. QED
  BY <1>1, <1>2, KeepsInv DEF StartRun

(* The steps of a provisioning keep the invariant ...                      *)
LEMMA ProvisionInv ==
  ASSUME LifecycleInv, NEW m \in Managers, NEW l \in StatusLists,
         Provision(m, l)
  PROVE  LifecycleInv' /\ MovesOn
<1>1. CASE CreateEmptyPagesForStatusList(m, l)
  <2>1. AddPages(l, Pages) /\ AwaitsPages(m, l) /\ PagesCreated(m, l)
    BY <1>1 DEF CreateEmptyPagesForStatusList
  <2>2. StoresStep
    BY <2>1, StoresAddPages DEF PagesCreated
  <2>3. Created(l)
    BY <2>1 DEF LifecycleInv, SetupInv, SeenInv, Achieved, AwaitsPages, Awaits,
               IsNextStale
  <2>4. HasPages(l)'
    BY <2>1 DEF AddPages, HasPages, LifecycleInv, StoresTypeOK
  <2>5. Achieved(l, "publishing")'
    BY <2>2, <2>3, <2>4 DEF Achieved, StoresStep, Grows
  <2>6. Awaiting(m, l, "publishing") /\ "publishing" \in Step
    BY <2>1 DEF PagesCreated, Step
  <2>7. RunsTypeOK' /\ \A n \in Managers : todo'[n] \subseteq todo[n]
    BY <2>1, <2>6, OneStep DEF PagesCreated, LifecycleInv, RunsTypeOK
  <2>8. QED
    BY <2>1, <2>2, <2>5, <2>6, <2>7, OneStep, KeepsInv DEF PagesCreated
<1>2. CASE PublishInitializingStatusList(m, l)
  <2>1. Awaiting(m, l, "opening") /\ "opening" \in Step
    BY <1>2 DEF PublishInitializingStatusList, Step
  <2>2. StoresStep
    BY <1>2, StoresPublish DEF PublishInitializingStatusList
  <2>3. Achieved(l, "publishing")
    BY <1>2 DEF PublishInitializingStatusList, Awaits, LifecycleInv, SetupInv
  <2>4. Achieved(l, "opening")'
    BY <1>2, <2>2, <2>3
    DEF PublishInitializingStatusList, Achieved, StoresStep, Grows
  <2>5. RunsTypeOK'
    BY <1>2, <2>1, OneStep
    DEF PublishInitializingStatusList, LifecycleInv, RunsTypeOK
  <2>6. QED
    BY <1>2, <2>1, <2>2, <2>4, <2>5, OneStep, KeepsInv
    DEF PublishInitializingStatusList
<1>3. CASE OpenStatusList(m, l)
  <2>1. Awaiting(m, l, "routing") /\ "routing" \in Step
    BY <1>3 DEF OpenStatusList, Step
  <2>2. StoresStep /\ WasOpened(l)'
    BY <1>3, StoresOpen DEF OpenStatusList
  <2>3. Achieved(l, "opening")
    BY <1>3 DEF OpenStatusList, Awaits, LifecycleInv, SetupInv
  <2>4. Achieved(l, "routing")'
    BY <2>2, <2>3 DEF Achieved, StoresStep, Grows
  <2>5. RunsTypeOK'
    BY <1>3, <2>1, OneStep DEF OpenStatusList, LifecycleInv, RunsTypeOK
  <2>6. QED
    BY <1>3, <2>1, <2>2, <2>4, <2>5, OneStep, KeepsInv DEF OpenStatusList
<1>4. CASE RouteOpenedStatusList(m, l)
  <2>1. Awaiting(m, l, "none") /\ "none" \in Step
    BY <1>4 DEF RouteOpenedStatusList, Step
  <2>2. WasOpened(l)
    BY <1>4 DEF RouteOpenedStatusList, Awaits, LifecycleInv, SetupInv, Achieved
  <2>3. StoresStep
    BY <1>4, <2>2, StoresRoute DEF RouteOpenedStatusList
  <2>4. Achieved(l, "none")'
    BY DEF Achieved
  <2>5. RunsTypeOK'
    BY <1>4, <2>1, OneStep DEF RouteOpenedStatusList, LifecycleInv, RunsTypeOK
  <2>6. QED
    BY <1>4, <2>1, <2>3, <2>4, <2>5, OneStep, KeepsInv DEF RouteOpenedStatusList
<1>5. QED
  BY <1>1, <1>2, <1>3, <1>4 DEF Provision

(* ... the writes of the routing ...                                       *)
LEMMA UpdateRoutingInv ==
  ASSUME LifecycleInv, NEW m \in Managers, NEW l \in StatusLists,
         UpdateRouting(m, l)
  PROVE  LifecycleInv' /\ MovesOn
<1>1. CASE AddRoutableStatusListId(m, l)
  <2>1. WasOpened(l)
    BY <1>1 DEF AddRoutableStatusListId, LifecycleInv, SeenInv
  <2>2. StoresStep
    BY <1>1, <2>1, StoresRoute DEF AddRoutableStatusListId
  <2>3. RunsTypeOK' /\ \A n \in Managers : adds'[n] \subseteq adds[n]
    BY <1>1 DEF AddRoutableStatusListId, LifecycleInv, RunsTypeOK
  <2>4. QED
    BY <1>1, <2>2, <2>3, KeepsInv DEF AddRoutableStatusListId
<1>2. CASE RemoveRoutableStatusListId(m, l)
  <2>1. StoresStep
    BY <1>2, StoresRoute DEF RemoveRoutableStatusListId
  <2>2. RunsTypeOK'
    BY <1>2 DEF RemoveRoutableStatusListId, LifecycleInv, RunsTypeOK
  <2>3. QED
    BY <1>2, <2>1, <2>2, KeepsInv DEF RemoveRoutableStatusListId
<1>3. QED
  BY <1>1, <1>2 DEF UpdateRouting

(* ... the seals ...                                                       *)
LEMMA SealInv ==
  ASSUME LifecycleInv, NEW m \in Managers, NEW l \in StatusLists,
         SealStatusList(m, l)
  PROVE  LifecycleInv' /\ MovesOn
<1>1. StoresStep
  BY StoresSeal DEF SealStatusList
<1>2. RunsTypeOK' /\ \A n \in Managers : todo'[n] \subseteq todo[n]
  BY DEF SealStatusList, LifecycleInv, RunsTypeOK
<1>3. QED
  BY <1>1, <1>2, KeepsInv DEF SealStatusList

(* ... the steps from one part of a run to the next ...                    *)
LEMMA ProgressInv ==
  ASSUME LifecycleInv, NEW m \in Managers, Progress(m)
  PROVE  LifecycleInv' /\ MovesOn
<1> USE DEF Enter
<1>1. CASE ListStaleInitializingStatusListIds(m)
  <2>1. PICK S \in SUBSET (stale \cap ListsIn("INITIALIZING")) :
          todo' = [todo EXCEPT ![m] = S]
    BY <1>1 DEF ListStaleInitializingStatusListIds
  <2>2. StoresStep
    BY <1>1, StoresUnchanged
    DEF ListStaleInitializingStatusListIds, LifecycleInv, StoresTypeOK
  <2>3. RunsTypeOK'
    BY <1>1, <2>1
    DEF ListStaleInitializingStatusListIds, LifecycleInv, RunsTypeOK, Phase,
        ListsIn
  <2>4. \A k \in S : Created(k)'
    BY <1>1 DEF ListStaleInitializingStatusListIds, ListsIn, Created, StateIs
  <2>5. QED
    BY <1>1, <2>1, <2>2, <2>3, <2>4, KeepsInv
    DEF ListStaleInitializingStatusListIds, LifecycleInv, RunsTypeOK
<1>2. CASE ListOpenStatusListIds(m)
  <2>1. StoresStep
    BY <1>2, StoresUnchanged DEF ListOpenStatusListIds, LifecycleInv, StoresTypeOK
  <2>2. RunsTypeOK'
    BY <1>2 DEF ListOpenStatusListIds, LifecycleInv, RunsTypeOK, Phase, ListsIn
  <2>3. \A k \in ListsIn("OPEN") : WasOpened(k)'
    BY <1>2 DEF ListOpenStatusListIds, ListsIn, WasOpened, StateIs
  <2>4. QED
    BY <1>2, <2>1, <2>2, <2>3, KeepsInv
    DEF ListOpenStatusListIds, LifecycleInv, RunsTypeOK
<1>3. CASE GetRoutableStatusListIds(m)
  <2>1. StoresStep
    BY <1>3, StoresUnchanged
    DEF GetRoutableStatusListIds, LifecycleInv, StoresTypeOK
  <2>2. RunsTypeOK'
    BY <1>3
    DEF GetRoutableStatusListIds, LifecycleInv, StoresTypeOK, RunsTypeOK, Phase
  <2>3. \A n \in Managers :
          openSeen'[n] \cup adds'[n] \subseteq openSeen[n] \cup adds[n]
    BY <1>3 DEF GetRoutableStatusListIds, LifecycleInv, RunsTypeOK
  <2>4. QED
    BY <1>3, <2>1, <2>2, <2>3, KeepsInv DEF GetRoutableStatusListIds
<1>4. CASE ListClosableStatusLists(m)
  <2>1. PICK closable \in SUBSET StatusLists :
          /\ closable = {l \in StatusLists : IsClosable(l)}
          /\ todo' = [todo EXCEPT ![m] = closable]
          /\ removes' = [removes EXCEPT ![m] = closable]
    BY <1>4 DEF ListClosableStatusLists
  <2>2. StoresStep
    BY <1>4, StoresUnchanged
    DEF ListClosableStatusLists, LifecycleInv, StoresTypeOK
  <2>3. RunsTypeOK'
    BY <1>4, <2>1 DEF ListClosableStatusLists, LifecycleInv, RunsTypeOK, Phase
  <2>4. \A k \in closable : Created(k)'
    BY <1>4, <2>1 DEF ListClosableStatusLists, IsClosable, Created, StateIs
  <2>5. QED
    BY <1>4, <2>1, <2>2, <2>3, <2>4, KeepsInv
    DEF ListClosableStatusLists, LifecycleInv, RunsTypeOK
<1>5. CASE LoadStatusListsToProvision(m)
  <2>1. StoresStep
    BY <1>5, StoresUnchanged
    DEF LoadStatusListsToProvision, LifecycleInv, StoresTypeOK
  <2>2. RunsTypeOK'
    BY <1>5 DEF LoadStatusListsToProvision, LifecycleInv, RunsTypeOK, Phase
  <2>3. QED
    BY <1>5, <2>1, <2>2, KeepsInv DEF LoadStatusListsToProvision
<1>6. CASE CreateInitializingStatusList(m)
  <2>1. CASE UNCHANGED <<catalog, step>>
    <3>1. StoresStep
      BY <1>6, <2>1, StoresUnchanged
      DEF CreateInitializingStatusList, LifecycleInv, StoresTypeOK
    <3>2. RunsTypeOK'
      BY <1>6, <2>1 DEF CreateInitializingStatusList, LifecycleInv, RunsTypeOK
    <3>3. QED
      BY <1>6, <2>1, <3>1, <3>2, KeepsInv DEF CreateInitializingStatusList
  <2>2. CASE \E l \in StatusLists :
               CreateInitializing(l) /\ Awaiting(m, l, "pages")
    <3>1. PICK l \in StatusLists :
            CreateInitializing(l) /\ Awaiting(m, l, "pages")
      BY <2>2
    <3>2. StoresStep /\ Created(l)'
      BY <1>6, <3>1, StoresCreate DEF CreateInitializingStatusList
    <3>3. Achieved(l, "pages")'
      BY <3>2 DEF Achieved
    <3>4. "pages" \in Step
      BY DEF Step
    <3>5. RunsTypeOK'
      BY <1>6, <3>1, <3>4, OneStep
      DEF CreateInitializingStatusList, LifecycleInv, RunsTypeOK
    <3>6. QED
      BY <1>6, <3>1, <3>2, <3>3, <3>4, <3>5, OneStep, KeepsInv
      DEF CreateInitializingStatusList
  <2>3. QED
    BY <1>6, <2>1, <2>2 DEF CreateInitializingStatusList, CreateAnother
<1>7. CASE FinishRun(m)
  <2>1. StoresStep
    BY <1>7, StoresUnchanged DEF FinishRun, LifecycleInv, StoresTypeOK
  <2>2. RunsTypeOK'
    BY <1>7 DEF FinishRun, Leave, LifecycleInv, RunsTypeOK, Phase
  <2>3. QED
    BY <1>7, <2>1, <2>2, KeepsInv DEF FinishRun
<1>8. QED
  BY <1>1, <1>2, <1>3, <1>4, <1>5, <1>6, <1>7 DEF Progress

(* ... the calls that fail ...                                             *)
LEMMA FailInv ==
  ASSUME LifecycleInv, NEW m \in Managers, Fail(m)
  PROVE  LifecycleInv' /\ MovesOn
<1>1. CASE CallFails(m)
  <2>1. StoresStep
    BY <1>1, StoresUnchanged DEF CallFails, EndRun, LifecycleInv, StoresTypeOK
  <2>2. RunsTypeOK'
    BY <1>1, EndsRun DEF CallFails, LifecycleInv, RunsTypeOK
  <2>3. QED
    BY <1>1, <2>1, <2>2, EndsRun, KeepsInv DEF CallFails
<1>2. CASE CreationFails(m)
  <2>1. UNCHANGED <<stores, step>> /\ EndRun(m) /\ UNCHANGED stale
    BY <1>2 DEF CreationFails, EndRun
  <2>2. StoresStep
    <3>1. CASE UNCHANGED catalog
      BY <2>1, <3>1, StoresUnchanged DEF LifecycleInv, StoresTypeOK
    <3>2. CASE \E l \in StatusLists : CreateInitializing(l)
      BY <2>1, <3>2, StoresCreate
    <3>3. QED
      BY <1>2, <3>1, <3>2 DEF CreationFails
  <2>3. RunsTypeOK'
    BY <2>1, EndsRun DEF LifecycleInv, RunsTypeOK
  <2>4. QED
    BY <2>1, <2>2, <2>3, EndsRun, KeepsInv
<1>3. CASE LeftoverWriteFails(m)
  <2>1. StoresStep
    BY <1>3, StoresUnchanged DEF LeftoverWriteFails, LifecycleInv, StoresTypeOK
  <2>2. RunsTypeOK' /\ \A n \in Managers : adds'[n] \subseteq adds[n]
    BY <1>3 DEF LeftoverWriteFails, LifecycleInv, RunsTypeOK
  <2>3. QED
    BY <1>3, <2>1, <2>2, KeepsInv DEF LeftoverWriteFails
<1>4. CASE Crash(m)
  <2>1. StoresStep
    BY <1>4, StoresUnchanged DEF Crash, LifecycleInv, StoresTypeOK
  <2>2. NoSteps \in [StatusLists -> Step]
    BY DEF NoSteps, Step
  <2>3. RunsTypeOK'
    BY <1>4, <2>2 DEF Crash, Leave, Enter, LifecycleInv, RunsTypeOK, Phase
  <2>4. \A n \in Managers :
          /\ todo'[n] \subseteq todo[n]
          /\ openSeen'[n] \subseteq openSeen[n]
          /\ adds'[n] \subseteq adds[n]
    BY <1>4 DEF Crash, LifecycleInv, RunsTypeOK
  <2>5. \A n \in Managers, k \in StatusLists :
          step'[n][k] = step[n][k] \/ step'[n][k] = "none"
    BY <1>4 DEF Crash, LifecycleInv, RunsTypeOK, NoSteps
  <2>6. \A k \in StatusLists : Achieved(k, "none")'
    BY DEF Achieved
  <2>7. QED
    BY <2>1, <2>3, <2>4, <2>5, <2>6, KeepsInv
<1>5. CASE \E l \in StatusLists : SetupFails(m, l)
  <2>1. PICK l \in StatusLists : SetupFails(m, l)
    BY <1>5
  <2>2. StoresStep
    BY <2>1, StoresMaybeDone DEF SetupFails, EndRun
  <2>3. Awaiting(m, l, "none") /\ "none" \in Step /\ EndRun(m)
    BY <2>1 DEF SetupFails, Step
  <2>4. RunsTypeOK'
    BY <2>3, EndsRun, OneStep DEF LifecycleInv, RunsTypeOK
  <2>5. Achieved(l, "none")'
    BY DEF Achieved
  <2>6. QED
    BY <2>2, <2>3, <2>4, <2>5, EndsRun, OneStep, KeepsInv
<1>6. QED
  BY <1>1, <1>2, <1>3, <1>4, <1>5 DEF Fail

(* ... and what happens around the runs.                                   *)
LEMMA EnvironmentInv ==
  ASSUME LifecycleInv, NEW l \in StatusLists, Environment(l)
  PROVE  LifecycleInv' /\ MovesOn
<1>1. UNCHANGED runVars
  BY DEF Environment, ReserveNextBlock, BecomeStale
<1>2. StoresStep
  <2>1. CASE ReserveNextBlock(l)
    BY <2>1, StoresReserve DEF ReserveNextBlock
  <2>2. CASE BecomeStale(l)
    BY <2>2, StoresUnchanged DEF BecomeStale, LifecycleInv, StoresTypeOK
  <2>3. QED
    BY <2>1, <2>2 DEF Environment
<1>3. RunsTypeOK'
  BY <1>1 DEF LifecycleInv, RunsTypeOK, runVars
<1>4. QED
  BY <1>1, <1>2, <1>3, KeepsInv DEF runVars

(* So does every step.                                                     *)
LEMMA NextLifecycleInv ==
  ASSUME LifecycleInv, [Next]_vars
  PROVE  LifecycleInv' /\ MovesOn
<1>1. ASSUME NEW m \in Managers, Work(m) PROVE LifecycleInv' /\ MovesOn
  BY <1>1, StartRunInv, ProgressInv, ProvisionInv, UpdateRoutingInv, SealInv
  DEF Work
<1>2. ASSUME NEW m \in Managers, Fail(m) PROVE LifecycleInv' /\ MovesOn
  BY <1>2, FailInv
<1>3. ASSUME NEW l \in StatusLists, Environment(l)
      PROVE  LifecycleInv' /\ MovesOn
  BY <1>3, EnvironmentInv
<1>4. CASE UNCHANGED vars
  <2>1. StoresStep
    BY <1>4, StoresUnchanged DEF vars, LifecycleInv, StoresTypeOK
  <2>2. RunsTypeOK'
    BY <1>4 DEF vars, runVars, LifecycleInv, RunsTypeOK
  <2>3. QED
    BY <1>4, <2>1, <2>2, KeepsInv DEF vars, runVars
<1>5. QED
  BY <1>1, <1>2, <1>3, <1>4 DEF Next

----------------------------------------------------------------------------
(* Theorems *)

(* The invariant of manageStatusLists: what each provisioning has achieved *)
(* before its next call, and what each run remembers, stays true whatever  *)
(* the other runs, the failures and the crashes do.                        *)
THEOREM LifecycleCorrect == Spec => []LifecycleInv
<1>1. LifecycleInv /\ [Next]_vars => LifecycleInv'
  BY NextLifecycleInv
<1>2. QED
  BY <1>1, InitLifecycleInv, PTL DEF Spec

(* No list is opened, or was ever opened, without all its pages and a      *)
(* first blob.                                                             *)
THEOREM LifecycleOpenedIsReady == Spec => []OpenedIsReady
<1>1. LifecycleInv => OpenedIsReady
  BY DEF LifecycleInv
<1>2. QED
  BY <1>1, LifecycleCorrect, PTL

(* The routing never holds the id of a list that was not opened.           *)
THEOREM LifecycleRoutedWasOpened == Spec => []RoutedWasOpened
<1>1. LifecycleInv => RoutedWasOpened
  BY DEF LifecycleInv
<1>2. QED
  BY <1>1, LifecycleCorrect, PTL

(* A list only ever moves from ABSENT to INITIALIZING to OPEN to SEALED.   *)
THEOREM LifecycleNeverReopened == Spec => NeverReopened
<1>1. LifecycleInv /\ [Next]_vars => [MovesOn]_vars
  BY NextLifecycleInv
<1>2. QED
  BY <1>1, LifecycleCorrect, PTL DEF Spec, NeverReopened, MovesOn

----------------------------------------------------------------------------
(* An undisturbed run makes the routing match the catalog *)

(* The counters and the ghost have one value per run, and a run counts     *)
(* lists to create only while it provisions.                               *)
CountInv ==
  /\ DOMAIN batch = Managers
  /\ DOMAIN toProvision = Managers
  /\ alone \in [Managers -> BOOLEAN]
  /\ \A m \in Managers : ~In(m, "provisioning") => toProvision[m] = 0

(* Nothing of a run is under way besides its current phase.                *)
NoWrites(m) == adds[m] = {} /\ removes[m] = {}

(* What an undisturbed run knows, phase by phase: the other runs are at    *)
(* rest, the OPEN lists it read are the OPEN lists, and the writes it has  *)
(* still to make are the difference between the routing and the catalog.   *)
Undisturbed(m) ==
  /\ phase[m] # "idle"
  /\ \A n \in Managers : n # m => AtRest(n)
  /\ phase[m] \in {"listing", "completing", "comparing", "routing"} => batch[m] = 0
  /\ phase[m] \in {"listing", "completing", "comparing"} => NoWrites(m)
  /\ phase[m] \in {"listing", "comparing", "routing"} => NoSetup(m)
  /\ In(m, "comparing") => openSeen[m] = ListsIn("OPEN")
  /\ In(m, "routing") =>
       /\ adds[m] \subseteq ListsIn("OPEN")
       /\ removes[m] \cap ListsIn("OPEN") = {}
       /\ (routable \cup adds[m]) \ removes[m] = ListsIn("OPEN")

(* That, of every run that has been undisturbed so far.                    *)
AloneInv == \A m \in Managers : alone[m] => Undisturbed(m)

(* The inductive invariant.                                                *)
RoutingInv == CountInv /\ AloneInv

(* It holds before any run has started.                                    *)
LEMMA InitRoutingInv == Init => RoutingInv
BY DEF Init, RoutingInv, CountInv, AloneInv

(* Nothing is created in a batch of no lists.                              *)
LEMMA NoCreation ==
  ASSUME NEW m \in Managers, batch[m] = 0, toProvision[m] = 0
  PROVE  ~CreationAnswered(m)
<1>1. Min({ProvisionBatchSize, 0}) = 0
  BY SizesAssumption DEF Min
<1>2. CreationsAwaited(m) = 0
  BY <1>1 DEF CreationsAwaited
<1>3. QED
  BY <1>2 DEF CreationAnswered

(* Only the start of another run ends the rest of a run.                   *)
LEMMA RestIsQuiet ==
  ASSUME CountInv, NEW m \in Managers, AtRest(m)
  PROVE  /\ ~Progress(m) /\ ~Fail(m)
         /\ \A l \in StatusLists :
              ~Provision(m, l) /\ ~UpdateRouting(m, l) /\ ~SealStatusList(m, l)
<1>1. /\ phase[m] = "idle" /\ adds[m] = {} /\ removes[m] = {}
      /\ batch[m] = 0 /\ toProvision[m] = 0
      /\ \A l \in StatusLists : step[m][l] = "none"
  BY DEF AtRest, In, NoSetup, NoSteps, CountInv
<1>2. ~CreationAnswered(m)
  BY <1>1, NoCreation
<1>3. ~Progress(m)
  BY <1>1, <1>2
  DEF Progress, In, ListStaleInitializingStatusListIds, ListOpenStatusListIds,
      GetRoutableStatusListIds, ListClosableStatusLists,
      LoadStatusListsToProvision, CreateInitializingStatusList, FinishRun
<1>4. ~Fail(m)
  BY <1>1, <1>2
  DEF Fail, CallFails, In, CreationFails, LeftoverWriteFails, Crash, SetupFails,
      Awaits, IsNextStale
<1>5. \A l \in StatusLists :
        ~Provision(m, l) /\ ~UpdateRouting(m, l) /\ ~SealStatusList(m, l)
  BY <1>1
  DEF Provision, CreateEmptyPagesForStatusList, AwaitsPages, Awaits, IsNextStale,
      PublishInitializingStatusList, OpenStatusList, RouteOpenedStatusList,
      UpdateRouting, AddRoutableStatusListId, RemoveRoutableStatusListId,
      SealStatusList, In
<1>6. QED
  BY <1>3, <1>4, <1>5

(* A run that starts alone has everything still to do.                     *)
LEMMA StartRunRouting ==
  ASSUME LifecycleInv, RoutingInv, NEW m \in Managers, StartRun(m)
  PROVE  RoutingInv'
<1>1. /\ phase' = [phase EXCEPT ![m] = "listing"]
      /\ alone' = [n \in Managers |->
           n = m /\ \A other \in Managers \ {m} : AtRest(other)]
      /\ UNCHANGED <<todo, openSeen, adds, removes, step, batch, toProvision>>
  BY DEF StartRun, Enter
<1>2. phase'[m] = "listing" /\ \A n \in Managers : n # m => phase'[n] = phase[n]
  BY <1>1 DEF LifecycleInv, RunsTypeOK
<1>3. AtRest(m)
  BY DEF StartRun
<1>4. \A n \in Managers : alone'[n] =>
        n = m /\ \A other \in Managers : other # m => AtRest(other)
  BY <1>1
<1>5. \A n \in Managers : n # m => (AtRest(n) => AtRest(n)')
  BY <1>1, <1>2 DEF AtRest, In, NoSetup
<1>6. CountInv'
  <2>1. alone' \in [Managers -> BOOLEAN]
    BY <1>1
  <2>2. toProvision[m] = 0
    BY <1>3 DEF RoutingInv, CountInv, AtRest, In
  <2>3. QED
    BY <1>1, <1>2, <2>1, <2>2 DEF RoutingInv, CountInv, In
<1>7. AloneInv'
  BY <1>1, <1>2, <1>3, <1>4, <1>5
  DEF AloneInv, Undisturbed, AtRest, NoWrites, NoSetup, In
<1>8. QED
  BY <1>6, <1>7 DEF RoutingInv

(* The steps of a run that no other run disturbs.                          *)
LEMMA OwnStep ==
  ASSUME LifecycleInv, CountInv, NEW m \in Managers, Undisturbed(m),
         \A n \in Managers : n # m =>
           /\ phase'[n] = phase[n] /\ adds'[n] = adds[n]
           /\ removes'[n] = removes[n] /\ step'[n] = step[n]
           /\ batch'[n] = batch[n],
         phase'[m] # "idle",
         phase'[m] \in {"listing", "completing", "comparing", "routing"} =>
           batch'[m] = 0,
         phase'[m] \in {"listing", "completing", "comparing"} => NoWrites(m)',
         phase'[m] \in {"listing", "comparing", "routing"} => NoSetup(m)',
         phase'[m] = "comparing" => openSeen'[m] = ListsIn("OPEN")',
         phase'[m] = "routing" =>
           /\ adds'[m] \subseteq ListsIn("OPEN")'
           /\ removes'[m] \cap ListsIn("OPEN")' = {}
           /\ (routable' \cup adds'[m]) \ removes'[m] = ListsIn("OPEN")'
  PROVE  Undisturbed(m)'
<1>1. \A n \in Managers : n # m => AtRest(n)'
  BY DEF Undisturbed, AtRest, In, NoSetup
<1>2. QED
  BY <1>1 DEF Undisturbed, In

(* The OPEN lists are what the catalog says.                               *)
LEMMA ListsUnchanged ==
  ASSUME UNCHANGED catalog
  PROVE  ListsIn("OPEN")' = ListsIn("OPEN")
BY DEF ListsIn, StateIs

(* An undisturbed run goes on knowing what it knows: in its own progress   *)
(* ...                                                                     *)
LEMMA ProgressRouting ==
  ASSUME LifecycleInv, CountInv, NEW m \in Managers, Undisturbed(m),
         Progress(m), alone'[m]
  PROVE  Undisturbed(m)'
<1> USE DEF Enter, In, LifecycleInv, RunsTypeOK, CountInv
<1>1. CASE ListStaleInitializingStatusListIds(m)
  <2>1. /\ phase[m] = "listing" /\ phase'[m] = "completing"
        /\ \A n \in Managers : n # m => phase'[n] = phase[n]
        /\ UNCHANGED <<adds, removes, step, batch>>
    BY <1>1 DEF ListStaleInitializingStatusListIds
  <2>2. QED
    BY <2>1, OwnStep DEF Undisturbed, NoWrites
<1>2. CASE ListOpenStatusListIds(m)
  <2>1. /\ phase[m] = "completing" /\ phase'[m] = "comparing" /\ NoSetup(m)
        /\ \A n \in Managers : n # m => phase'[n] = phase[n]
        /\ openSeen'[m] = ListsIn("OPEN")
        /\ UNCHANGED <<catalog, adds, removes, step, batch>>
    BY <1>2 DEF ListOpenStatusListIds
  <2>2. QED
    BY <2>1, OwnStep, ListsUnchanged DEF Undisturbed, NoWrites, NoSetup
<1>3. CASE GetRoutableStatusListIds(m)
  <2>1. /\ phase[m] = "comparing" /\ phase'[m] = "routing"
        /\ \A n \in Managers : n # m =>
             /\ phase'[n] = phase[n] /\ adds'[n] = adds[n]
             /\ removes'[n] = removes[n]
        /\ adds'[m] = openSeen[m] \ routable
        /\ removes'[m] = routable \ openSeen[m]
        /\ UNCHANGED <<catalog, routable, step, batch>>
    BY <1>3 DEF GetRoutableStatusListIds, stores
  <2>2. ListsIn("OPEN")' = openSeen[m]
    BY <2>1, ListsUnchanged DEF Undisturbed
  <2>3. QED
    BY <2>1, <2>2, OwnStep DEF Undisturbed, NoSetup
<1>4. CASE ListClosableStatusLists(m)
  <2>1. /\ phase'[m] = "closing"
        /\ \A n \in Managers : n # m =>
             phase'[n] = phase[n] /\ removes'[n] = removes[n]
        /\ UNCHANGED <<adds, step, batch>>
    BY <1>4 DEF ListClosableStatusLists
  <2>2. QED
    BY <2>1, OwnStep
<1>5. CASE LoadStatusListsToProvision(m)
  <2>1. /\ phase'[m] = "provisioning"
        /\ \A n \in Managers : n # m => phase'[n] = phase[n]
        /\ UNCHANGED <<adds, removes, step, batch>>
    BY <1>5 DEF LoadStatusListsToProvision
  <2>2. QED
    BY <2>1, OwnStep
<1>6. CASE CreateInitializingStatusList(m)
  <2>1. CreationAnswered(m) /\ CreateAnother(m)
        /\ UNCHANGED <<phase, adds, removes>>
    BY <1>6 DEF CreateInitializingStatusList
  <2>2. phase[m] \notin {"listing", "completing", "comparing", "routing"}
    BY <2>1, NoCreation DEF Undisturbed
  <2>3. \A n \in Managers : n # m =>
          batch'[n] = batch[n] /\ step'[n] = step[n]
    BY <2>1 DEF CreationAnswered, CreateAnother, Awaiting
  <2>4. QED
    BY <2>1, <2>2, <2>3, OwnStep DEF Undisturbed
<1>7. CASE FinishRun(m)
  BY <1>7 DEF FinishRun, Leave
<1>8. QED
  BY <1>1, <1>2, <1>3, <1>4, <1>5, <1>6, <1>7 DEF Progress

(* ... in a call of a provisioning ...                                     *)
LEMMA ProvisionRouting ==
  ASSUME LifecycleInv, CountInv, NEW m \in Managers, Undisturbed(m),
         NEW l \in StatusLists, Provision(m, l)
  PROVE  Undisturbed(m)'
<1>1. /\ UNCHANGED <<phase, adds, removes, batch>>
      /\ \E s \in Step : Awaiting(m, l, s)
      /\ step[m][l] # "none" \/ phase[m] = "completing"
  BY DEF Provision, CreateEmptyPagesForStatusList, PagesCreated, AwaitsPages,
         IsNextStale, Awaits, In, PublishInitializingStatusList, OpenStatusList,
         RouteOpenedStatusList, Step
<1>2. phase[m] \notin {"listing", "comparing", "routing"}
  BY <1>1 DEF Undisturbed, NoSetup, NoSteps
<1>3. \A n \in Managers : n # m => step'[n] = step[n]
  BY <1>1 DEF Awaiting, LifecycleInv, RunsTypeOK
<1>4. QED
  BY <1>1, <1>2, <1>3, OwnStep DEF Undisturbed, NoWrites, In

(* ... in a write of the routing, which is one of the difference ...       *)
LEMMA UpdateRoutingRouting ==
  ASSUME LifecycleInv, CountInv, NEW m \in Managers, Undisturbed(m),
         NEW l \in StatusLists, UpdateRouting(m, l)
  PROVE  Undisturbed(m)'
<1>1. /\ \A n \in Managers : n # m =>
           adds'[n] = adds[n] /\ removes'[n] = removes[n]
      /\ UNCHANGED <<catalog, phase, openSeen, step, batch>>
  BY DEF UpdateRouting, AddRoutableStatusListId, RemoveRoutableStatusListId,
         LifecycleInv, RunsTypeOK
<1>2. ListsIn("OPEN")' = ListsIn("OPEN")
  BY <1>1, ListsUnchanged
<1>3. phase[m] \notin {"listing", "completing", "comparing"}
  BY DEF UpdateRouting, AddRoutableStatusListId, RemoveRoutableStatusListId,
         Undisturbed, NoWrites
<1>4. phase[m] = "routing" =>
        /\ adds'[m] \subseteq ListsIn("OPEN")
        /\ removes'[m] \cap ListsIn("OPEN") = {}
        /\ (routable' \cup adds'[m]) \ removes'[m] = ListsIn("OPEN")
  <2>1. CASE AddRoutableStatusListId(m, l)
    <3>1. /\ l \in adds[m] /\ routable' = routable \cup {l}
          /\ adds'[m] = adds[m] \ {l} /\ removes'[m] = removes[m]
      BY <2>1 DEF AddRoutableStatusListId, LifecycleInv, RunsTypeOK
    <3>2. routable' \cup adds'[m] = routable \cup adds[m]
      BY <3>1
    <3>3. QED
      BY <3>1, <3>2 DEF Undisturbed, In
  <2>2. CASE RemoveRoutableStatusListId(m, l)
    <3>1. /\ l \in removes[m] /\ routable' = routable \ {l}
          /\ adds'[m] = adds[m] /\ removes'[m] = removes[m] \ {l}
          /\ adds[m] = {}
      BY <2>2 DEF RemoveRoutableStatusListId, LifecycleInv, RunsTypeOK
    <3>2. (routable' \cup adds'[m]) \ removes'[m]
            = (routable \cup adds[m]) \ removes[m]
      BY <3>1
    <3>3. QED
      BY <3>1, <3>2 DEF Undisturbed, In
  <2>3. QED
    BY <2>1, <2>2 DEF UpdateRouting
<1>5. QED
  BY <1>1, <1>2, <1>3, <1>4, OwnStep DEF Undisturbed, NoSetup

(* ... and when it closes a list, which it does after it has compared.     *)
LEMMA SealRouting ==
  ASSUME LifecycleInv, CountInv, NEW m \in Managers, Undisturbed(m),
         NEW l \in StatusLists, SealStatusList(m, l)
  PROVE  Undisturbed(m)'
BY OwnStep DEF SealStatusList, In, Undisturbed

(* A failure ends the run, and no call is left of one that ended before.   *)
LEMMA FailRouting ==
  ASSUME CountInv, NEW m \in Managers, Undisturbed(m), Fail(m)
  PROVE  ~alone'[m]
BY DEF Fail, CallFails, CreationFails, LeftoverWriteFails, Crash, SetupFails,
       EndRun, Leave, In, Undisturbed, CountInv

(* Blocks that are reserved and time that passes change nothing of it.     *)
LEMMA EnvironmentRouting ==
  ASSUME LifecycleInv, NEW m \in Managers, Undisturbed(m),
         NEW l \in StatusLists, Environment(l)
  PROVE  Undisturbed(m)'
<1>1. UNCHANGED <<runVars, stores>>
  BY DEF Environment, ReserveNextBlock, BecomeStale
<1>2. ListsIn("OPEN")' = ListsIn("OPEN")
  <2>1. CASE ReserveNextBlock(l)
    <3>1. /\ CatalogTypeOK /\ catalog[l].nextFreeIndex \in Nat
          /\ catalog[l].state \in ListState
      BY DEF LifecycleInv, StoresTypeOK, CatalogTypeOK, CatalogDocument
    <3>2. OnlyState(l, catalog[l].state)
      BY <2>1, <3>1, AdvanceEffect DEF ReserveNextBlock
    <3>3. QED
      BY <3>2 DEF OnlyState, ListsIn, StateIs
  <2>2. CASE BecomeStale(l)
    BY <2>2, ListsUnchanged DEF BecomeStale
  <2>3. QED
    BY <2>1, <2>2 DEF Environment
<1>3. QED
  BY <1>1, <1>2
  DEF runVars, stores, Undisturbed, AtRest, In, NoSetup, NoWrites

(* The counters of the runs.                                               *)
LEMMA NextCountInv ==
  ASSUME LifecycleInv, CountInv, [Next]_vars
  PROVE  CountInv'
<1> USE DEF LifecycleInv, RunsTypeOK, CountInv, In
<1>u. UNCHANGED <<phase, batch, toProvision, alone>> => CountInv'
  OBVIOUS
<1>e. ASSUME NEW m \in Managers, EndRun(m), UNCHANGED batch \/ CreationAnswered(m)
      PROVE  CountInv'
  BY <1>e DEF EndRun, Leave, Enter, CreationAnswered
<1>1. ASSUME NEW m \in Managers, StartRun(m) PROVE CountInv'
  BY <1>1 DEF StartRun, AtRest, Enter
<1>2. ASSUME NEW m \in Managers, Progress(m) PROVE CountInv'
  <2>1. CASE CreateInitializingStatusList(m)
    <3>1. ~In(m, "provisioning") => ~BatchIsOver(m)
      BY <2>1, NoCreation DEF CreateInitializingStatusList, BatchIsOver
    <3>2. QED
      BY <2>1, <3>1 DEF CreateInitializingStatusList, CreationAnswered
  <2>2. CASE ListStaleInitializingStatusListIds(m) \/ ListOpenStatusListIds(m)
             \/ GetRoutableStatusListIds(m) \/ ListClosableStatusLists(m)
    BY <2>2
    DEF ListStaleInitializingStatusListIds, ListOpenStatusListIds,
        GetRoutableStatusListIds, ListClosableStatusLists, Enter
  <2>3. CASE LoadStatusListsToProvision(m)
    BY <2>3 DEF LoadStatusListsToProvision, Enter
  <2>4. CASE FinishRun(m)
    BY <2>4 DEF FinishRun, Leave, Enter
  <2>5. QED
    BY <1>2, <2>1, <2>2, <2>3, <2>4 DEF Progress
<1>3. ASSUME NEW m \in Managers, NEW l \in StatusLists,
             Provision(m, l) \/ UpdateRouting(m, l) \/ SealStatusList(m, l)
      PROVE  CountInv'
  BY <1>3, <1>u
  DEF Provision, CreateEmptyPagesForStatusList, PagesCreated,
      PublishInitializingStatusList, OpenStatusList, RouteOpenedStatusList,
      UpdateRouting, AddRoutableStatusListId, RemoveRoutableStatusListId,
      SealStatusList
<1>4. ASSUME NEW m \in Managers, Fail(m) PROVE CountInv'
  <2>1. CASE CallFails(m) \/ CreationFails(m) \/ \E l \in StatusLists : SetupFails(m, l)
    BY <2>1, <1>e DEF CallFails, CreationFails, SetupFails
  <2>2. CASE LeftoverWriteFails(m)
    BY <2>2, <1>u DEF LeftoverWriteFails
  <2>3. CASE Crash(m)
    BY <2>3 DEF Crash, Leave, Enter
  <2>4. QED
    BY <1>4, <2>1, <2>2, <2>3 DEF Fail
<1>5. ASSUME NEW l \in StatusLists, Environment(l) PROVE CountInv'
  BY <1>5, <1>u DEF Environment, ReserveNextBlock, BecomeStale, runVars
<1>6. CASE UNCHANGED vars
  BY <1>6, <1>u DEF vars, runVars
<1>7. QED
  BY <1>1, <1>2, <1>3, <1>4, <1>5, <1>6 DEF Next, Work

(* Only a run that starts becomes undisturbed.                             *)
LEMMA AloneBefore ==
  ASSUME LifecycleInv, CountInv, NEW m \in Managers, alone'[m], NEW n \in Managers,
         \/ Progress(n) \/ Fail(n)
         \/ \E l \in StatusLists :
              Provision(n, l) \/ UpdateRouting(n, l) \/ SealStatusList(n, l)
  PROVE  alone[m]
<1>1. alone' = alone \/ alone' = [alone EXCEPT ![n] = FALSE]
  BY DEF Progress, ListStaleInitializingStatusListIds, ListOpenStatusListIds,
         GetRoutableStatusListIds, ListClosableStatusLists,
         LoadStatusListsToProvision, CreateInitializingStatusList, FinishRun,
         Leave, Fail, CallFails, CreationFails, LeftoverWriteFails, Crash,
         SetupFails, EndRun, Provision, CreateEmptyPagesForStatusList,
         PagesCreated, PublishInitializingStatusList, OpenStatusList,
         RouteOpenedStatusList, UpdateRouting, AddRoutableStatusListId,
         RemoveRoutableStatusListId, SealStatusList
<1>2. QED
  BY <1>1 DEF CountInv

(* Every step keeps the invariant: another run at work ends being alone.   *)
LEMMA NextRoutingInv ==
  ASSUME LifecycleInv, RoutingInv, [Next]_vars
  PROVE  RoutingInv'
<1>c. CountInv /\ CountInv'
  BY NextCountInv DEF RoutingInv
<1>1. ASSUME NEW n \in Managers, StartRun(n) PROVE RoutingInv'
  BY <1>1, StartRunRouting
<1>2. ASSUME NEW n \in Managers,
             \/ Progress(n) \/ Fail(n)
             \/ \E l \in StatusLists :
                  Provision(n, l) \/ UpdateRouting(n, l) \/ SealStatusList(n, l)
      PROVE  AloneInv'
  <2> SUFFICES ASSUME NEW m \in Managers, alone'[m] PROVE Undisturbed(m)'
    BY DEF AloneInv
  <2>1. alone[m] /\ Undisturbed(m)
    BY <1>2, <1>c, AloneBefore DEF RoutingInv, AloneInv
  <2>2. n = m
    BY <1>2, <1>c, <2>1, RestIsQuiet DEF Undisturbed
  <2>3. QED
    BY <1>2, <1>c, <2>1, <2>2, ProgressRouting, ProvisionRouting,
       UpdateRoutingRouting, SealRouting, FailRouting
<1>3. ASSUME NEW l \in StatusLists, Environment(l) PROVE AloneInv'
  <2>1. UNCHANGED alone
    BY <1>3 DEF Environment, ReserveNextBlock, BecomeStale, runVars
  <2>2. QED
    BY <1>3, <2>1, EnvironmentRouting DEF RoutingInv, AloneInv
<1>4. CASE UNCHANGED vars
  <2>1. ListsIn("OPEN")' = ListsIn("OPEN")
    BY <1>4, ListsUnchanged DEF vars
  <2>2. AloneInv'
    BY <1>4, <2>1
    DEF vars, runVars, stores, RoutingInv, AloneInv, Undisturbed, AtRest, In,
        NoSetup, NoWrites
  <2>3. QED
    BY <1>c, <2>2 DEF RoutingInv
<1>5. QED
  BY <1>c, <1>1, <1>2, <1>3, <1>4 DEF RoutingInv, Next, Work

(* The invariant of an undisturbed run.                                    *)
THEOREM LifecycleRoutingCorrect == Spec => []RoutingInv
BY InitRoutingInv, NextRoutingInv, LifecycleCorrect, PTL DEF Spec

(* reconcileStatusLists makes the routing match the OPEN lists: when a run *)
(* that no other run disturbed has made its writes, the routable ids are   *)
(* exactly the OPEN lists, whatever failed or crashed runs left behind.    *)
THEOREM LifecycleRoutingMatchesCatalog == Spec => []RoutingMatchesCatalog
<1>1. RoutingInv => RoutingMatchesCatalog
  BY DEF RoutingInv, AloneInv, Undisturbed, RoutingMatchesCatalog, RoutingIsDone
<1>2. QED
  BY <1>1, LifecycleRoutingCorrect, PTL

----------------------------------------------------------------------------
(* The number of lists to provision *)

(* A set of numbers that is not empty has a least one.                     *)
LEMMA NaturalsHaveLeast ==
  ASSUME NEW T \in SUBSET Nat, T # {}
  PROVE  \E x \in T : \A y \in T : x <= y
<1>1. PICK x \in T : \A y \in T : <<y, x>> \notin OpToRel(<, Nat)
  BY NatLessThanWellFounded, WFMin, Zenon
<1>2. \A y \in T : ~(y < x)
  BY <1>1 DEF OpToRel
<1>3. QED
  BY <1>2

(* What l has left, and the list that the sum takes first.                 *)
Left(l) == CapacityBits - catalog[l].nextFreeIndex
First(s) == CHOOSE l \in s : TRUE

(* A sum of what is left, over the sets of D.                              *)
IsSum(sum, D) ==
  sum = [s \in D |-> IF s = {} THEN 0 ELSE Left(First(s)) + sum[s \ {First(s)}]]

(* The sets of at most n elements of S.                                    *)
UpTo(S, n) == {s \in SUBSET S : Cardinality(s) <= n}

(* A set without its first element has one element less.                   *)
LEMMA WithoutFirst ==
  ASSUME NEW S, IsFiniteSet(S), NEW s \in SUBSET S, s # {}
  PROVE  /\ First(s) \in s /\ s \ {First(s)} \in SUBSET S
         /\ Cardinality(s) \in Nat
         /\ Cardinality(s \ {First(s)}) \in Nat
         /\ Cardinality(s) = Cardinality(s \ {First(s)}) + 1
<1>1. First(s) \in s
  BY DEF First
<1>2. IsFiniteSet(s)
  BY FS_Subset
<1>3. Cardinality(s \ {First(s)}) = Cardinality(s) - 1 /\ Cardinality(s) \in Nat
      /\ IsFiniteSet(s \ {First(s)})
  BY <1>1, <1>2, FS_RemoveElement, FS_CardinalityType
<1>4. Cardinality(s \ {First(s)}) \in Nat
  BY <1>3, FS_CardinalityType
<1>5. QED
  BY <1>1, <1>3, <1>4

(* A finite set has a sum: otherwise there would be a least size of sets   *)
(* without one, and a sum for it is made of a sum for the smaller sets.    *)
LEMMA SumExists ==
  ASSUME NEW S, IsFiniteSet(S)
  PROVE  \E sum : IsSum(sum, SUBSET S)
<1> DEFINE bad == {n \in Nat : ~\E sum : IsSum(sum, UpTo(S, n))}
<1>1. Cardinality(S) \in Nat /\ \A s \in SUBSET S : s # {} =>
        Cardinality(s) \in Nat /\ Cardinality(s) <= Cardinality(S)
  BY FS_CardinalityType, FS_Subset
<1>0. Cardinality({}) = 0
  BY FS_EmptySet
<1>2. UpTo(S, Cardinality(S)) = SUBSET S
  BY <1>1, <1>0 DEF UpTo
<1>3. ASSUME NEW n \in Nat, n \in bad, \A k \in bad : n <= k PROVE FALSE
  <2>1. n # 0
    <3>1. UpTo(S, 0) \subseteq {{}}
      <4>1. \A s \in UpTo(S, 0) : s \in SUBSET S /\ Cardinality(s) <= 0
        BY DEF UpTo
      <4>2. ASSUME NEW s \in UpTo(S, 0), s # {} PROVE FALSE
        <5>1. s \in SUBSET S /\ Cardinality(s) <= 0
          BY <4>1
        <5>2. /\ Cardinality(s) \in Nat /\ Cardinality(s \ {First(s)}) \in Nat
              /\ Cardinality(s) = Cardinality(s \ {First(s)}) + 1
          BY <4>2, <5>1, WithoutFirst
        <5>3. QED
          BY <5>1, <5>2
      <4>3. QED
        BY <4>2
    <3>2. IsSum([s \in UpTo(S, 0) |-> 0], UpTo(S, 0))
      BY <3>1 DEF IsSum
    <3>3. QED
      BY <1>3, <3>2
  <2>2. n - 1 \in Nat /\ n - 1 \notin bad
    BY <1>3, <2>1
  <2>3. PICK sum : IsSum(sum, UpTo(S, n - 1))
    BY <2>2
  <2> DEFINE next == [s \in UpTo(S, n) |->
                        IF s = {} THEN 0 ELSE Left(First(s)) + sum[s \ {First(s)}]]
  <2>4. UpTo(S, n - 1) \subseteq UpTo(S, n)
    <3>1. \A s \in SUBSET S : Cardinality(s) \in Nat
      BY FS_CardinalityType, FS_Subset
    <3>2. QED
      BY <3>1 DEF UpTo
  <2>5. \A s \in UpTo(S, n - 1) : next[s] = sum[s]
    BY <2>3, <2>4 DEF IsSum
  <2>6. \A s \in UpTo(S, n) : s # {} => s \ {First(s)} \in UpTo(S, n - 1)
    BY WithoutFirst DEF UpTo
  <2>7. IsSum(next, UpTo(S, n))
    <3>1. \A s \in UpTo(S, n) : s # {} => next[s \ {First(s)}] = sum[s \ {First(s)}]
      BY <2>5, <2>6
    <3> HIDE DEF next
    <3>2. next = [s \in UpTo(S, n) |->
                    IF s = {} THEN 0 ELSE Left(First(s)) + next[s \ {First(s)}]]
      BY <3>1, Zenon DEF next
    <3>3. QED
      BY <3>2, Zenon DEF IsSum
  <2>8. QED
    BY <1>3, <2>7
<1>4. bad = {}
  BY <1>3, NaturalsHaveLeast
<1>5. \E sum : IsSum(sum, UpTo(S, Cardinality(S)))
  BY <1>1, <1>4
<1>6. QED
  BY <1>2, <1>5

(* What the snapshot adds up is a number.                                  *)
LEMMA SumIsInt ==
  ASSUME CatalogTypeOK, NEW S \in SUBSET StatusLists, IsFiniteSet(S)
  PROVE  MapThenSumSet(LAMBDA l : CapacityBits - catalog[l].nextFreeIndex, S) \in Int
<1> DEFINE sum == CHOOSE it : IsSum(it, SUBSET S)
<1>1. IsSum(sum, SUBSET S)
  BY SumExists
<1>2. MapThenSumSet(LAMBDA l : CapacityBits - catalog[l].nextFreeIndex, S) = sum[S]
  BY DEF MapThenSumSet, MapThenFoldSet, IsSum, Left, First
<1> HIDE DEF sum
<1>3. \A s \in SUBSET S : sum[s] = IF s = {} THEN 0 ELSE Left(First(s)) + sum[s \ {First(s)}]
  BY <1>1 DEF IsSum
<1> DEFINE bad == {n \in Nat : \E s \in SUBSET S : Cardinality(s) = n /\ sum[s] \notin Int}
<1>4. ASSUME NEW n \in Nat, n \in bad, \A k \in bad : n <= k PROVE FALSE
  <2>1. PICK s \in SUBSET S : Cardinality(s) = n /\ sum[s] \notin Int
    BY <1>4
  <2>2. s # {}
    <3>1. {} \in SUBSET S
      OBVIOUS
    <3>2. sum[{}] = 0
      BY <1>3, <3>1, Zenon
    <3>3. QED
      BY <2>1, <3>2
  <2> DEFINE rest == s \ {First(s)}
  <2>3. First(s) \in s /\ rest \in SUBSET S /\ Cardinality(rest) \in Nat /\ n = Cardinality(rest) + 1
    BY <2>1, <2>2, WithoutFirst
  <2>4. sum[s] = Left(First(s)) + sum[rest]
    BY <1>3, <2>2, Zenon
  <2> HIDE DEF rest
  <2>5. sum[rest] \in Int
    BY <1>4, <2>3
  <2>6. Left(First(s)) \in Int
    BY <2>3, CapacityAssumption DEF Left, CatalogTypeOK, CatalogDocument
  <2>7. QED
    BY <2>1, <2>4, <2>5, <2>6
<1>5. bad = {}
  BY <1>4, NaturalsHaveLeast
<1>6. \A s \in SUBSET S : Cardinality(s) \in Nat
  BY FS_CardinalityType, FS_Subset
<1>7. sum[S] \in Int
  BY <1>5, <1>6
<1>8. QED
  BY <1>2, <1>7

(* The extremes of two numbers, and of the targets.                        *)
LEMMA Extremes ==
  ASSUME NEW x \in Int, NEW y \in Int
  PROVE  /\ Max({x, y}) \in {x, y} /\ Max({x, y}) >= x /\ Max({x, y}) >= y
         /\ Min({x, y}) \in {x, y} /\ Min({x, y}) <= x /\ Min({x, y}) <= y
<1>1. CASE x <= y
  <2>1. Max({x, y}) = y
    BY <1>1 DEF Max
  <2>2. Min({x, y}) = x
    BY <1>1 DEF Min
  <2>3. QED
    BY <1>1, <2>1, <2>2
<1>2. CASE y <= x
  <2>1. Max({x, y}) = x
    BY <1>2 DEF Max
  <2>2. Min({x, y}) = y
    BY <1>2 DEF Min
  <2>3. QED
    BY <1>2, <2>1, <2>2
<1>3. QED
  BY <1>1, <1>2

(* There is a lowest target, and no target is below it.                    *)
LEMMA LowestTargetIsLeast ==
  LowestTarget \in Nat /\ \A target \in Targets : LowestTarget <= target
<1>1. \E x \in Targets : \A y \in Targets : x <= y
  BY TargetsAssumption, NaturalsHaveLeast
<1>2. LowestTarget \in Targets /\ \A y \in Targets : LowestTarget <= y
  BY <1>1, Zenon DEF LowestTarget, Min
<1>3. QED
  BY <1>2, TargetsAssumption

(* The count is a number, and what is missing for the target at least.     *)
LEMMA CountMeetsTarget ==
  ASSUME CatalogTypeOK, IsFiniteSet(ListsIn("OPEN")), NEW target \in Targets
  PROVE  /\ StatusListsToProvisionCount(target) \in Nat
         /\ Cardinality(ListsIn("OPEN")) \in Nat
         /\ Cardinality(ListsIn("OPEN")) + StatusListsToProvisionCount(target)
              >= LowestTarget
<1> DEFINE open == Cardinality(ListsIn("OPEN"))
           forFloor == Max({0, target - open})
           missing == Max({0, MinimumRemainingTotalCapacity - RemainingTotalCapacity})
           forCapacity == (missing + CapacityBits - 1) \div CapacityBits
<1>1. open \in Nat /\ target \in Nat /\ LowestTarget \in Nat /\ LowestTarget <= target
  BY FS_CardinalityType, TargetsAssumption, LowestTargetIsLeast
<1>2. ListsIn("OPEN") \in SUBSET StatusLists
  BY DEF ListsIn
<1>3. RemainingTotalCapacity \in Int
  BY <1>2, SumIsInt DEF RemainingTotalCapacity, SnapshotLists
<1>4. missing \in Nat
  <2>1. MinimumRemainingTotalCapacity - RemainingTotalCapacity \in Int
    BY <1>3, TargetsAssumption
  <2> DEFINE difference == MinimumRemainingTotalCapacity - RemainingTotalCapacity
  <2> HIDE DEF difference
  <2>2. missing \in {0, difference} /\ missing >= 0
    BY <2>1, Extremes DEF difference
  <2>3. QED
    BY <2>1, <2>2 DEF difference
<1> HIDE DEF missing
<1>5. forCapacity \in Int
  <2>1. CapacityBits \in Nat /\ CapacityBits # 0
    BY CapacityAssumption, SizesAssumption
  <2>2. missing + CapacityBits - 1 \in Int
    BY <1>4, <2>1
  <2>3. QED
    BY <2>1, <2>2
<1> HIDE DEF forCapacity
<1>6. forFloor \in Nat /\ forFloor >= target - open
  <2>1. target - open \in Int
    <3> HIDE DEF open
    <3>1. QED
      BY <1>1
  <2> DEFINE difference == target - open
  <2> HIDE DEF difference
  <2>2. forFloor = Max({0, difference})
    BY DEF difference
  <2>3. 0 \in Int /\ difference \in Int
    BY <2>1 DEF difference
  <2> HIDE DEF forFloor
  <2>4. forFloor \in {0, difference} /\ forFloor >= 0 /\ forFloor >= difference
    BY <2>2, <2>3, Extremes, Zenon
  <2>5. QED
    BY <2>3, <2>4 DEF difference
<1> HIDE DEF forFloor
<1>7. StatusListsToProvisionCount(target) = Max({forFloor, forCapacity})
  BY DEF StatusListsToProvisionCount, forFloor, forCapacity, missing, open, SnapshotLists
<1>8. Max({forFloor, forCapacity}) \in {forFloor, forCapacity}
      /\ Max({forFloor, forCapacity}) >= forFloor
  <2>1. forFloor \in Int /\ forCapacity \in Int
    BY <1>5, <1>6
  <2>2. QED
    BY <2>1, Extremes, Zenon
<1> HIDE DEF open
<1>9. StatusListsToProvisionCount(target) \in Nat
      /\ open + StatusListsToProvisionCount(target) >= LowestTarget
  BY <1>1, <1>5, <1>6, <1>7, <1>8
<1>10. QED
  BY <1>1, <1>9 DEF open

----------------------------------------------------------------------------
(* The counters of a run *)

(* The counters have their types.                                          *)
CountersTypeOK ==
  /\ batch \in [Managers -> 0..ProvisionBatchSize]
  /\ toProvision \in [Managers -> Nat]

(* The lists that were created so far.                                     *)
CreatedLists == {l \in StatusLists : Created(l)}

(* In a run so far only finitely many lists were created, so that those    *)
(* that are OPEN can be counted.                                           *)
CountersInv == CountersTypeOK /\ IsFiniteSet(CreatedLists)

(* It holds before any list is created.                                    *)
LEMMA InitCountersInv == Init => CountersInv
<1> SUFFICES ASSUME Init PROVE CountersInv
  OBVIOUS
<1>1. CountersTypeOK
  BY SizesAssumption DEF Init, CountersTypeOK
<1>2. CreatedLists = {}
  BY DEF Init, CreatedLists, Created, StateIs, AbsentDocument
<1>3. QED
  BY <1>1, <1>2, FS_EmptySet DEF CountersInv

(* A creation that is answered is one of its batch, and a batch that       *)
(* begins is no larger than what is left to provision.                     *)
LEMMA CreationCounts ==
  ASSUME CountersTypeOK, NEW m \in Managers, CreationAnswered(m)
  PROVE  /\ CreationsAwaited(m) \in 1..ProvisionBatchSize
         /\ batch' \in [Managers -> 0..ProvisionBatchSize]
         /\ batch'[m] = CreationsAwaited(m) - 1
         /\ \A n \in Managers : n # m => batch'[n] = batch[n]
         /\ BatchIsOver(m) => batch[m] = 0 /\ CreationsAwaited(m) <= toProvision[m]
         /\ ~BatchIsOver(m) => CreationsAwaited(m) = batch[m]
<1>1. /\ batch[m] \in 0..ProvisionBatchSize /\ toProvision[m] \in Nat
      /\ ProvisionBatchSize \in Nat \ {0}
  BY SizesAssumption DEF CountersTypeOK
<1>2. CreationsAwaited(m) > 0 /\ batch' = [batch EXCEPT ![m] = CreationsAwaited(m) - 1]
  BY DEF CreationAnswered
<1>3. CASE BatchIsOver(m)
  <2> DEFINE least == Min({ProvisionBatchSize, toProvision[m]})
  <2>1. CreationsAwaited(m) = least
    BY <1>3 DEF CreationsAwaited
  <2>2. ProvisionBatchSize \in Int /\ toProvision[m] \in Int
    BY <1>1
  <2>3. least \in {ProvisionBatchSize, toProvision[m]}
        /\ least <= ProvisionBatchSize /\ least <= toProvision[m]
    BY <2>2, Extremes
  <2> HIDE DEF least
  <2>4. CreationsAwaited(m) \in 1..ProvisionBatchSize
        /\ CreationsAwaited(m) <= toProvision[m]
    BY <1>1, <1>2, <2>1, <2>3
  <2>5. batch[m] = 0
    BY <1>3 DEF BatchIsOver
  <2>6. CreationsAwaited(m) - 1 \in 0..ProvisionBatchSize
    BY <1>1, <2>4
  <2>7. QED
    BY <1>2, <1>3, <2>4, <2>5, <2>6 DEF CountersTypeOK
<1>4. CASE ~BatchIsOver(m)
  <2>1. CreationsAwaited(m) = batch[m]
    BY <1>4 DEF CreationsAwaited
  <2>2. CreationsAwaited(m) \in 1..ProvisionBatchSize
        /\ CreationsAwaited(m) - 1 \in 0..ProvisionBatchSize
    BY <1>1, <1>2, <2>1
  <2>3. QED
    BY <1>2, <1>4, <2>1, <2>2 DEF CountersTypeOK
<1>5. QED
  BY <1>3, <1>4

(* The end of a run counts nothing any more.                               *)
LEMMA EndRunCounts ==
  ASSUME CountersTypeOK, NEW m \in Managers, EndRun(m)
  PROVE  toProvision' \in [Managers -> Nat]
<1>1. toProvision' = [toProvision EXCEPT ![m] = 0] /\ 0 \in Nat
  BY DEF EndRun
<1>2. QED
  BY <1>1, Zenon DEF CountersTypeOK

(* An OPEN list was created.                                               *)
LEMMA OpenListsAreCreated ==
  ASSUME LifecycleInv, CountersInv
  PROVE  IsFiniteSet(ListsIn("OPEN"))
<1>1. ListsIn("OPEN") \subseteq CreatedLists
  BY DEF ListsIn, CreatedLists, Created, StateIs
<1>2. QED
  BY <1>1, FS_Subset DEF CountersInv

(* Each step counts on, or leaves the counters alone.                      *)
LEMMA NextCounters ==
  ASSUME LifecycleInv, CountersInv, [Next]_vars
  PROVE  CountersTypeOK'
<1> USE DEF CountersInv
<1>u. UNCHANGED <<batch, toProvision>> => CountersTypeOK'
  BY DEF CountersTypeOK
<1>1. ASSUME NEW m \in Managers, StartRun(m) PROVE CountersTypeOK'
  BY <1>1, <1>u DEF StartRun
<1>2. ASSUME NEW m \in Managers, Progress(m) PROVE CountersTypeOK'
  <2>1. CASE CreateInitializingStatusList(m)
    <3>1. /\ CreationAnswered(m)
          /\ toProvision' = [toProvision EXCEPT ![m] =
               IF BatchIsOver(m) THEN AfterThisBatch(m) ELSE @]
      BY <2>1 DEF CreateInitializingStatusList
    <3>2. batch' \in [Managers -> 0..ProvisionBatchSize]
          /\ CreationsAwaited(m) \in Nat
          /\ (BatchIsOver(m) => CreationsAwaited(m) <= toProvision[m])
      BY <3>1, SizesAssumption, CreationCounts
    <3> DEFINE left == IF BatchIsOver(m) THEN AfterThisBatch(m) ELSE toProvision[m]
    <3>3. left \in Nat
      BY <3>2 DEF AfterThisBatch, CountersTypeOK
    <3>4. toProvision' = [toProvision EXCEPT ![m] = left]
      BY <3>1, Zenon
    <3> HIDE DEF left
    <3>5. QED
      BY <3>2, <3>3, <3>4 DEF CountersTypeOK
  <2>2. CASE LoadStatusListsToProvision(m)
    <3>1. PICK target \in Targets :
            toProvision' =
              [toProvision EXCEPT ![m] = StatusListsToProvisionCount(target)]
      BY <2>2 DEF LoadStatusListsToProvision
    <3>2. CatalogTypeOK
      BY DEF LifecycleInv, StoresTypeOK, CatalogTypeOK
    <3>3. StatusListsToProvisionCount(target) \in Nat
      BY <3>2, OpenListsAreCreated, CountMeetsTarget
    <3>4. UNCHANGED batch
      BY <2>2 DEF LoadStatusListsToProvision
    <3>5. QED
      BY <3>1, <3>3, <3>4, Zenon DEF CountersTypeOK
  <2>3. CASE ListStaleInitializingStatusListIds(m) \/ ListOpenStatusListIds(m)
             \/ GetRoutableStatusListIds(m) \/ ListClosableStatusLists(m) \/ FinishRun(m)
    BY <2>3, <1>u
    DEF ListStaleInitializingStatusListIds, ListOpenStatusListIds,
        GetRoutableStatusListIds, ListClosableStatusLists, FinishRun
  <2>4. QED
    BY <1>2, <2>1, <2>2, <2>3 DEF Progress
<1>3. ASSUME NEW m \in Managers, NEW l \in StatusLists,
             Provision(m, l) \/ UpdateRouting(m, l) \/ SealStatusList(m, l)
      PROVE  CountersTypeOK'
  BY <1>3, <1>u
  DEF Provision, CreateEmptyPagesForStatusList, PagesCreated,
      PublishInitializingStatusList, OpenStatusList, RouteOpenedStatusList,
      UpdateRouting, AddRoutableStatusListId, RemoveRoutableStatusListId,
      SealStatusList
<1>4. ASSUME NEW m \in Managers, Fail(m) PROVE CountersTypeOK'
  <2>1. CASE CallFails(m) \/ \E l \in StatusLists : SetupFails(m, l)
    <3>1. EndRun(m) /\ UNCHANGED batch
      BY <2>1 DEF CallFails, SetupFails
    <3>2. QED
      BY <3>1, EndRunCounts DEF CountersTypeOK
  <2>2. CASE CreationFails(m)
    <3>1. EndRun(m) /\ CreationAnswered(m)
      BY <2>2 DEF CreationFails
    <3>2. QED
      BY <3>1, EndRunCounts, CreationCounts DEF CountersTypeOK
  <2>3. CASE LeftoverWriteFails(m)
    BY <2>3, <1>u DEF LeftoverWriteFails
  <2>4. CASE Crash(m)
    <3>1. /\ batch' = [batch EXCEPT ![m] = 0]
          /\ toProvision' = [toProvision EXCEPT ![m] = 0]
      BY <2>4 DEF Crash
    <3>2. 0 \in Nat /\ 0 \in 0..ProvisionBatchSize
      BY SizesAssumption
    <3>3. QED
      BY <3>1, <3>2, Zenon DEF CountersTypeOK
  <2>5. QED
    BY <1>4, <2>1, <2>2, <2>3, <2>4 DEF Fail
<1>5. ASSUME NEW l \in StatusLists, Environment(l) PROVE CountersTypeOK'
  BY <1>5, <1>u DEF Environment, ReserveNextBlock, BecomeStale, runVars
<1>6. CASE UNCHANGED vars
  BY <1>6, <1>u DEF vars, runVars
<1>7. QED
  BY <1>1, <1>2, <1>3, <1>4, <1>5, <1>6 DEF Next, Work

(* No step moves two lists.                                                *)
OneListMoves ==
  \/ UNCHANGED catalog
  \/ \E l \in StatusLists : \A k \in StatusLists \ {l} : catalog'[k] = catalog[k]

(* A step changes the document of one list at most.                        *)
LEMMA NextMovesOneList ==
  ASSUME LifecycleInv, [Next]_vars
  PROVE  OneListMoves
<1>t. CatalogTypeOK
  BY DEF LifecycleInv, StoresTypeOK, CatalogTypeOK
<1>c. ASSUME NEW l \in StatusLists, CreateInitializing(l) PROVE OneListMoves
  BY <1>t, <1>c, CreateEffect DEF OnlyState, OneListMoves
<1>o. ASSUME NEW l \in StatusLists, OpenIfInitializing(l) PROVE OneListMoves
  BY <1>t, <1>o, OpenEffect DEF OnlyState, OneListMoves
<1>u. UNCHANGED catalog => OneListMoves
  BY DEF OneListMoves
<1>1. ASSUME NEW m \in Managers, StartRun(m) \/ Progress(m) PROVE OneListMoves
  <2>1. CASE CreateInitializingStatusList(m)
    BY <2>1, <1>c, <1>u DEF CreateInitializingStatusList, CreateAnother
  <2>2. CASE ~CreateInitializingStatusList(m)
    BY <1>1, <2>2, <1>u
    DEF StartRun, Progress, ListStaleInitializingStatusListIds, ListOpenStatusListIds,
        GetRoutableStatusListIds, ListClosableStatusLists,
        LoadStatusListsToProvision, FinishRun
  <2>3. QED
    BY <2>1, <2>2
<1>2. ASSUME NEW m \in Managers, NEW l \in StatusLists,
             Provision(m, l) \/ UpdateRouting(m, l) \/ SealStatusList(m, l)
      PROVE  OneListMoves
  <2>1. CASE OpenStatusList(m, l)
    BY <2>1, <1>o DEF OpenStatusList
  <2>2. CASE SealStatusList(m, l)
    BY <1>t, <2>2, SealEffect DEF SealStatusList, OnlyState, OneListMoves
  <2>3. CASE UpdateRouting(m, l) \/ (Provision(m, l) /\ ~OpenStatusList(m, l))
    BY <2>3, <1>u
    DEF Provision, CreateEmptyPagesForStatusList, PagesCreated,
        PublishInitializingStatusList, RouteOpenedStatusList,
        UpdateRouting, AddRoutableStatusListId, RemoveRoutableStatusListId
  <2>4. QED
    BY <1>2, <2>1, <2>2, <2>3
<1>3. ASSUME NEW m \in Managers, Fail(m) PROVE OneListMoves
  <2>1. CASE CreationFails(m)
    BY <2>1, <1>c, <1>u DEF CreationFails
  <2>2. ASSUME NEW l \in StatusLists, SetupFails(m, l) PROVE OneListMoves
    BY <2>2, <1>o, <1>u DEF SetupFails, MaybeDone
  <2>3. CASE CallFails(m) \/ LeftoverWriteFails(m) \/ Crash(m)
    BY <2>3, <1>u DEF CallFails, LeftoverWriteFails, Crash
  <2>4. QED
    BY <1>3, <2>1, <2>2, <2>3 DEF Fail
<1>4. ASSUME NEW l \in StatusLists, Environment(l) PROVE OneListMoves
  <2>1. CASE ReserveNextBlock(l)
    <3>1. catalog[l].nextFreeIndex \in Nat
      BY <1>t DEF CatalogTypeOK, CatalogDocument
    <3>2. QED
      BY <1>t, <2>1, <3>1, AdvanceEffect DEF ReserveNextBlock, OnlyState, OneListMoves
  <2>2. CASE BecomeStale(l)
    BY <2>2, <1>u DEF BecomeStale
  <2>3. QED
    BY <1>4, <2>1, <2>2 DEF Environment
<1>5. CASE UNCHANGED vars
  BY <1>5, <1>u DEF vars
<1>6. QED
  BY <1>1, <1>2, <1>3, <1>4, <1>5 DEF Next, Work

(* So the lists created stay finitely many.                                *)
LEMMA NextCountersInv ==
  ASSUME LifecycleInv, CountersInv, [Next]_vars
  PROVE  CountersInv'
<1>1. CASE UNCHANGED catalog
  <2>1. CreatedLists' = CreatedLists
    BY <1>1 DEF CreatedLists, Created, StateIs
  <2>2. QED
    BY <2>1, NextCounters DEF CountersInv
<1>2. ASSUME NEW l \in StatusLists,
             \A k \in StatusLists \ {l} : catalog'[k] = catalog[k]
      PROVE  CountersInv'
  <2>1. CreatedLists' \subseteq CreatedLists \cup {l}
    BY <1>2 DEF CreatedLists, Created, StateIs
  <2>2. IsFiniteSet(CreatedLists \cup {l})
    BY FS_AddElement DEF CountersInv
  <2>3. IsFiniteSet(CreatedLists')
    BY <2>1, <2>2, FS_Subset
  <2>4. QED
    BY <2>3, NextCounters DEF CountersInv
<1>3. QED
  BY <1>1, <1>2, NextMovesOneList DEF OneListMoves

(* The counters of every run stay in their range: a batch is never larger  *)
(* than ProvisionBatchSize, what is left to provision never negative.      *)
THEOREM LifecycleCountersCorrect == Spec => []CountersInv
BY InitCountersInv, NextCountersInv, LifecycleCorrect, PTL DEF Spec

(* All that manageStatusLists reads and writes has its type.               *)
THEOREM LifecycleTypeOK == Spec => []TypeOK
<1>1. LifecycleInv /\ RoutingInv /\ CountersInv => TypeOK
  BY DEF LifecycleInv, RoutingInv, CountInv, CountersInv, CountersTypeOK, TypeOK
<1>2. QED
  BY <1>1, LifecycleCorrect, LifecycleRoutingCorrect, LifecycleCountersCorrect, PTL

----------------------------------------------------------------------------
(* An undisturbed run meets the target *)

(* The lists whose provisioning by the run is under way.                   *)
Underway(m) == {l \in StatusLists : step[m][l] # "none"}

(* Those that are or will be OPEN when the lists under way are finished.   *)
OpenInTheEnd(m) == ListsIn("OPEN") \cup Underway(m)

(* The lists that are or will be OPEN, with those that are still to be     *)
(* created, are enough.                                                    *)
IsEnough(m) ==
  \/ ListsIn("ABSENT") = {}
  \/ Cardinality(OpenInTheEnd(m)) + batch[m] + toProvision[m] >= LowestTarget

(* What an undisturbed run knows of its target: nothing is under way when  *)
(* it seals, and nothing it provisions is sealed before it is counted.     *)
OnTarget(m) ==
  /\ In(m, "closing") => NoSetup(m) /\ batch[m] = 0
  /\ In(m, "provisioning") =>
       IsEnough(m) /\ \A l \in Underway(m) : ~StateIs(l, "SEALED")

(* That, of every run that has been undisturbed so far.                    *)
TargetInv == \A m \in Managers : alone[m] => OnTarget(m)

(* What the proof of a step may use.                                       *)
Known == LifecycleInv /\ RoutingInv /\ CountersInv

(* Lists under way are created, so they can be counted.                    *)
LEMMA EndIsFinite ==
  ASSUME LifecycleInv, CountersInv, NEW m \in Managers
  PROVE  IsFiniteSet(OpenInTheEnd(m)) /\ Cardinality(OpenInTheEnd(m)) \in Nat
<1>1. OpenInTheEnd(m) \subseteq CreatedLists
  BY DEF OpenInTheEnd, Underway, ListsIn, CreatedLists, Created, StateIs, LifecycleInv,
         SetupInv, Achieved
<1>2. QED
  BY <1>1, FS_Subset, FS_CardinalityType DEF CountersInv

(* A step that takes no list back and creates none.                        *)
LEMMA EnoughKept ==
  ASSUME Known, Known', MovesOn, NEW m \in Managers, IsEnough(m),
         batch'[m] = batch[m], toProvision'[m] = toProvision[m],
         OpenInTheEnd(m) \subseteq OpenInTheEnd(m)'
  PROVE  IsEnough(m)'
<1>1. ListsIn("ABSENT") = {} => ListsIn("ABSENT")' = {}
  BY DEF MovesOn, ListsIn, StateIs
<1>2. Cardinality(OpenInTheEnd(m)) <= Cardinality(OpenInTheEnd(m)')
      /\ Cardinality(OpenInTheEnd(m)) \in Nat /\ Cardinality(OpenInTheEnd(m)') \in Nat
  <2> DEFINE now == OpenInTheEnd(m)
             next == OpenInTheEnd(m)'
  <2>1. next \subseteq CreatedLists'
    BY DEF Known, OpenInTheEnd, Underway, ListsIn, CreatedLists, Created, StateIs,
           LifecycleInv, SetupInv, Achieved
  <2>2. IsFiniteSet(CreatedLists')
    BY DEF Known, CountersInv
  <2>3. IsFiniteSet(next) /\ now \subseteq next
    BY <2>1, <2>2, FS_Subset
  <2> HIDE DEF now, next
  <2>4. Cardinality(now) <= Cardinality(next)
        /\ Cardinality(now) \in Nat /\ Cardinality(next) \in Nat
    BY <2>3, FS_Subset, FS_CardinalityType
  <2>5. QED
    BY <2>4 DEF now, next
<1>3. batch[m] \in Nat /\ toProvision[m] \in Nat /\ LowestTarget \in Nat
  BY SizesAssumption, LowestTargetIsLeast DEF Known, CountersInv, CountersTypeOK
<1>4. CASE ListsIn("ABSENT") = {}
  BY <1>1, <1>4 DEF IsEnough
<1>5. CASE ListsIn("ABSENT") # {}
  <2>1. Cardinality(OpenInTheEnd(m)) + batch[m] + toProvision[m] >= LowestTarget
    BY <1>5 DEF IsEnough
  <2>2. Cardinality(OpenInTheEnd(m)') + batch[m] + toProvision[m] >= LowestTarget
    BY <1>2, <1>3, <2>1
  <2>3. QED
    BY <2>2 DEF IsEnough
<1>6. QED
  BY <1>4, <1>5

(* The states of the lists are what they were.                             *)
LEMMA SameStates ==
  ASSUME Known, Known', NEW m \in Managers, OnTarget(m),
         \A l \in StatusLists : catalog'[l].state = catalog[l].state,
         phase'[m] = phase[m], step'[m] = step[m], batch'[m] = batch[m],
         toProvision'[m] = toProvision[m]
  PROVE  OnTarget(m)'
<1>1. /\ ListsIn("OPEN")' = ListsIn("OPEN") /\ ListsIn("ABSENT")' = ListsIn("ABSENT")
      /\ Underway(m)' = Underway(m)
      /\ \A l \in StatusLists : StateIs(l, "SEALED")' <=> StateIs(l, "SEALED")
  BY DEF ListsIn, StateIs, Underway
<1>2. IsEnough(m)' <=> IsEnough(m)
  BY <1>1 DEF IsEnough, OpenInTheEnd
<1>3. Underway(m) \subseteq StatusLists
  BY DEF Underway
<1>4. QED
  BY <1>1, <1>2, <1>3 DEF OnTarget, In, NoSetup, NoSteps

(* The count is taken when every list that was under way is finished.      *)
LEMMA LoadTarget ==
  ASSUME Known, Known', NEW m \in Managers, OnTarget(m),
         LoadStatusListsToProvision(m)
  PROVE  OnTarget(m)'
<1>1. PICK target \in Targets :
        toProvision' = [toProvision EXCEPT ![m] = StatusListsToProvisionCount(target)]
  BY DEF LoadStatusListsToProvision
<1>2. /\ phase'[m] = "provisioning" /\ UNCHANGED <<catalog, step, batch>>
      /\ NoSetup(m) /\ batch[m] = 0
  BY DEF LoadStatusListsToProvision, Enter, OnTarget, In, Known, LifecycleInv, RunsTypeOK
<1>3. toProvision'[m] = StatusListsToProvisionCount(target)
  BY <1>1 DEF Known, RoutingInv, CountInv
<1>4. Underway(m)' = {}
  BY <1>2 DEF Underway, NoSetup, NoSteps
<1>5. OpenInTheEnd(m)' = ListsIn("OPEN")
  BY <1>2, <1>4 DEF OpenInTheEnd, ListsIn, StateIs
<1>6. CatalogTypeOK /\ IsFiniteSet(ListsIn("OPEN"))
  BY OpenListsAreCreated DEF Known, LifecycleInv, StoresTypeOK, CatalogTypeOK
<1>7. /\ StatusListsToProvisionCount(target) \in Nat
      /\ Cardinality(ListsIn("OPEN")) \in Nat
      /\ Cardinality(ListsIn("OPEN")) + StatusListsToProvisionCount(target) >= LowestTarget
  BY <1>6, CountMeetsTarget
<1>8. Cardinality(OpenInTheEnd(m)') + batch'[m] + toProvision'[m] >= LowestTarget
  BY <1>2, <1>3, <1>5, <1>7
<1>9. QED
  BY <1>2, <1>4, <1>8 DEF OnTarget, IsEnough, In

(* Each creation turns a list that is to be created into one under way.    *)
LEMMA CreationTarget ==
  ASSUME Known, Known', MovesOn, NEW m \in Managers, Undisturbed(m), OnTarget(m),
         CreateInitializingStatusList(m)
  PROVE  OnTarget(m)'
<1>1. /\ CreationAnswered(m) /\ CreateAnother(m) /\ UNCHANGED phase
      /\ toProvision' = [toProvision EXCEPT ![m] =
           IF BatchIsOver(m) THEN AfterThisBatch(m) ELSE @]
  BY DEF CreateInitializingStatusList
<1>2. phase[m] = "provisioning"
  <2>1. phase[m] \in Phase
    BY DEF Known, LifecycleInv, RunsTypeOK
  <2>2. phase[m] # "provisioning" => toProvision[m] = 0
    BY DEF Known, RoutingInv, CountInv, In
  <2>3. ~(phase[m] # "provisioning" /\ batch[m] = 0)
    BY <1>1, <2>2, NoCreation
  <2>4. QED
    BY <2>1, <2>3 DEF Phase, Undisturbed, OnTarget, In
<1>3. CountersTypeOK /\ batch[m] \in Nat /\ toProvision[m] \in Nat /\ LowestTarget \in Nat
  BY SizesAssumption, LowestTargetIsLeast DEF Known, CountersInv, CountersTypeOK
<1>4. batch'[m] \in Nat /\ toProvision'[m] \in Nat
      /\ batch'[m] + toProvision'[m] + 1 = batch[m] + toProvision[m]
  <2>1. toProvision'[m] = IF BatchIsOver(m) THEN AfterThisBatch(m) ELSE toProvision[m]
    BY <1>1 DEF Known, RoutingInv, CountInv
  <2>2. CreationsAwaited(m) \in Nat \ {0} /\ batch'[m] = CreationsAwaited(m) - 1
        /\ (BatchIsOver(m) => batch[m] = 0 /\ CreationsAwaited(m) <= toProvision[m])
        /\ (~BatchIsOver(m) => CreationsAwaited(m) = batch[m])
    BY <1>1, <1>3, SizesAssumption, CreationCounts
  <2>3. QED
    BY <1>3, <2>1, <2>2 DEF AfterThisBatch
<1>5. IsEnough(m) /\ \A l \in Underway(m) : ~StateIs(l, "SEALED")
  BY <1>2 DEF OnTarget, In
<1>6. phase'[m] = "provisioning"
  BY <1>1, <1>2
<1>7. CASE ListsIn("ABSENT") = {} /\ UNCHANGED <<catalog, step>>
  <2>1. ListsIn("ABSENT")' = {} /\ Underway(m)' = Underway(m)
    BY <1>7 DEF ListsIn, StateIs, Underway
  <2>2. QED
    BY <1>5, <1>6, <1>7, <2>1 DEF OnTarget, IsEnough, In, StateIs
<1>8. ASSUME NEW l \in StatusLists, CreateInitializing(l), Awaiting(m, l, "pages")
      PROVE  OnTarget(m)'
  <2>1. CatalogTypeOK
    BY DEF Known, LifecycleInv, StoresTypeOK, CatalogTypeOK
  <2>2. StateIs(l, "ABSENT") /\ OnlyState(l, "INITIALIZING")
    BY <1>8, <2>1, CreateEffect
  <2>3. \A k \in StatusLists : step'[m][k] = IF k = l THEN "pages" ELSE step[m][k]
    BY <1>8, OneStep DEF Known, Step
  <2>4. Underway(m)' = Underway(m) \cup {l}
    BY <2>3 DEF Underway
  <2>5. ListsIn("OPEN")' = ListsIn("OPEN")
    BY <2>2 DEF OnlyState, ListsIn, StateIs
  <2>6. l \notin OpenInTheEnd(m) /\ OpenInTheEnd(m)' = OpenInTheEnd(m) \cup {l}
    BY <2>2, <2>4, <2>5
    DEF OpenInTheEnd, ListsIn, StateIs, Underway, Known, LifecycleInv, SetupInv,
        Achieved, Created
  <2>7. Cardinality(OpenInTheEnd(m)') = Cardinality(OpenInTheEnd(m)) + 1
        /\ Cardinality(OpenInTheEnd(m)) \in Nat
    BY <2>6, EndIsFinite, FS_AddElement DEF Known
  <2>8. ListsIn("ABSENT") # {}
    BY <2>2 DEF ListsIn
  <2>9. Cardinality(OpenInTheEnd(m)) + batch[m] + toProvision[m] >= LowestTarget
    BY <1>5, <2>8 DEF IsEnough
  <2>10. Cardinality(OpenInTheEnd(m)') + batch'[m] + toProvision'[m] >= LowestTarget
    BY <1>3, <1>4, <2>7, <2>9
  <2>11. \A k \in Underway(m)' : ~StateIs(k, "SEALED")'
    BY <1>5, <2>2, <2>4 DEF OnlyState, StateIs, Underway
  <2>12. QED
    BY <1>6, <2>10, <2>11 DEF OnTarget, IsEnough, In
<1>9. QED
  BY <1>1, <1>7, <1>8 DEF CreateAnother

(* A list under way stays so until it is OPEN, which it then remains.      *)
LEMMA ProvisionTarget ==
  ASSUME Known, Known', MovesOn, NEW m \in Managers, Undisturbed(m), OnTarget(m),
         NEW l \in StatusLists, Provision(m, l)
  PROVE  OnTarget(m)'
<1>1. UNCHANGED <<phase, batch, toProvision>>
  BY DEF Provision, CreateEmptyPagesForStatusList, PagesCreated,
         PublishInitializingStatusList, OpenStatusList, RouteOpenedStatusList
<1>2. step[m][l] # "none" \/ phase[m] = "completing"
  BY DEF Provision, CreateEmptyPagesForStatusList, AwaitsPages, IsNextStale, Awaits, In,
         PublishInitializingStatusList, OpenStatusList, RouteOpenedStatusList
<1>3. phase[m] # "closing"
  BY <1>2 DEF OnTarget, In, NoSetup, NoSteps
<1>4. CASE phase[m] = "provisioning"
  <2>1. IsEnough(m) /\ \A k \in Underway(m) : ~StateIs(k, "SEALED")
    BY <1>4 DEF OnTarget, In
  <2>2. l \in Underway(m)
    BY <1>2, <1>4 DEF Underway
  <2>3. /\ \A k \in StatusLists \ {l} : catalog'[k] = catalog[k]
        /\ \A k \in StatusLists \ {l} : step'[m][k] = step[m][k]
        /\ \/ step'[m][l] # "none"
           \/ UNCHANGED catalog /\ StateIs(l, "OPEN")
        /\ \/ UNCHANGED catalog
           \/ StateIs(l, "INITIALIZING") /\ catalog'[l].state = "OPEN"
    <3>1. CASE OpenStatusList(m, l)
      <4>1. CatalogTypeOK /\ OpenIfInitializing(l) /\ Awaiting(m, l, "routing")
        BY <3>1 DEF OpenStatusList, Known, LifecycleInv, StoresTypeOK, CatalogTypeOK
      <4>2. "routing" \in Step
        BY DEF Step
      <4>3. \A k \in StatusLists : step'[m][k] = IF k = l THEN "routing" ELSE step[m][k]
        BY <4>1, <4>2, OneStep DEF Known
      <4>4. \/ StateIs(l, "INITIALIZING") /\ OnlyState(l, "OPEN")
            \/ ~StateIs(l, "INITIALIZING") /\ UNCHANGED catalog
        BY <4>1, OpenEffect
      <4>5. QED
        BY <4>3, <4>4 DEF OnlyState
    <3>2. CASE RouteOpenedStatusList(m, l)
      <4>1. UNCHANGED catalog /\ Awaiting(m, l, "none") /\ step[m][l] = "routing"
        BY <3>2 DEF RouteOpenedStatusList, Awaits
      <4>2. WasOpened(l)
        BY <4>1 DEF Known, LifecycleInv, SetupInv, Achieved
      <4>3. StateIs(l, "OPEN")
        BY <2>1, <2>2, <4>2 DEF WasOpened, StateIs
      <4>4. "none" \in Step
        BY DEF Step
      <4>5. \A k \in StatusLists : step'[m][k] = IF k = l THEN "none" ELSE step[m][k]
        BY <4>1, <4>4, OneStep DEF Known
      <4>6. QED
        BY <4>1, <4>3, <4>5
    <3>3. CASE CreateEmptyPagesForStatusList(m, l)
      <4>1. UNCHANGED catalog /\ Awaiting(m, l, "publishing") /\ "publishing" \in Step
        BY <3>3 DEF CreateEmptyPagesForStatusList, PagesCreated, Step
      <4>2. \A k \in StatusLists : step'[m][k] = IF k = l THEN "publishing" ELSE step[m][k]
        BY <4>1, OneStep DEF Known
      <4>3. QED
        BY <4>1, <4>2
    <3>4. CASE PublishInitializingStatusList(m, l)
      <4>1. UNCHANGED catalog /\ Awaiting(m, l, "opening") /\ "opening" \in Step
        BY <3>4 DEF PublishInitializingStatusList, Step
      <4>2. \A k \in StatusLists : step'[m][k] = IF k = l THEN "opening" ELSE step[m][k]
        BY <4>1, OneStep DEF Known
      <4>3. QED
        BY <4>1, <4>2
    <3>5. QED
      BY <3>1, <3>2, <3>3, <3>4 DEF Provision
  <2>4. ListsIn("OPEN") \subseteq ListsIn("OPEN")'
    BY <2>3 DEF ListsIn, StateIs
  <2>5. Underway(m) \subseteq Underway(m)' \cup ListsIn("OPEN")
    BY <2>3 DEF Underway, ListsIn
  <2>6. OpenInTheEnd(m) \subseteq OpenInTheEnd(m)'
    BY <2>4, <2>5 DEF OpenInTheEnd
  <2>7. IsEnough(m)'
    BY <1>1, <2>1, <2>6, EnoughKept
  <2>8. Underway(m)' \subseteq Underway(m)
    BY <2>2, <2>3 DEF Underway
  <2>9. \A k \in Underway(m)' : ~StateIs(k, "SEALED")'
    BY <2>1, <2>3, <2>8 DEF Underway, StateIs
  <2>10. QED
    BY <1>1, <1>4, <2>7, <2>9 DEF OnTarget, In
<1>5. QED
  BY <1>1, <1>3, <1>4 DEF OnTarget, In

(* The other steps of an undisturbed run.                                  *)
LEMMA ProgressTarget ==
  ASSUME Known, Known', MovesOn, NEW m \in Managers, Undisturbed(m), OnTarget(m),
         Progress(m), alone'[m]
  PROVE  OnTarget(m)'
<1> USE DEF Enter
<1>t. phase \in [Managers -> Phase] /\ alone \in [Managers -> BOOLEAN]
  BY DEF Known, LifecycleInv, RunsTypeOK, RoutingInv, CountInv
<1>1. CASE ListStaleInitializingStatusListIds(m) \/ ListOpenStatusListIds(m)
           \/ GetRoutableStatusListIds(m)
  <2>1. phase'[m] \in {"completing", "comparing", "routing"}
    BY <1>1, <1>t
    DEF ListStaleInitializingStatusListIds, ListOpenStatusListIds, GetRoutableStatusListIds
  <2>2. QED
    BY <2>1 DEF OnTarget, In
<1>2. CASE ListClosableStatusLists(m)
  <2>1. phase[m] = "routing" /\ phase'[m] = "closing" /\ UNCHANGED <<step, batch>>
    BY <1>2, <1>t DEF ListClosableStatusLists, In
  <2>2. NoSetup(m) /\ batch[m] = 0
    BY <2>1 DEF Undisturbed
  <2>3. QED
    BY <2>1, <2>2 DEF OnTarget, In, NoSetup, NoSteps
<1>3. CASE LoadStatusListsToProvision(m)
  BY <1>3, LoadTarget
<1>4. CASE CreateInitializingStatusList(m)
  BY <1>4, CreationTarget
<1>5. CASE FinishRun(m)
  BY <1>5, <1>t DEF FinishRun, Leave
<1>6. QED
  BY <1>1, <1>2, <1>3, <1>4, <1>5 DEF Progress

(* It is inductive: other runs are at rest.                                *)
LEMMA NextTargetInv ==
  ASSUME Known, Known', TargetInv, [Next]_vars
  PROVE  TargetInv'
<1>m. MovesOn
  BY NextLifecycleInv DEF Known
<1>s. (\A l \in StatusLists : catalog'[l].state = catalog[l].state)
      /\ UNCHANGED <<phase, step, batch, toProvision, alone>> => TargetInv'
  <2> SUFFICES ASSUME \A l \in StatusLists : catalog'[l].state = catalog[l].state,
                      UNCHANGED <<phase, step, batch, toProvision, alone>>,
                      NEW m \in Managers, alone'[m]
               PROVE  OnTarget(m)'
    BY DEF TargetInv
  <2>1. OnTarget(m)
    BY DEF TargetInv
  <2>2. QED
    BY <2>1, SameStates
<1>1. ASSUME NEW n \in Managers, StartRun(n) PROVE TargetInv'
  <2>1. \A m \in Managers : alone'[m] => phase'[m] = "listing"
    BY <1>1 DEF StartRun, Enter, Known, LifecycleInv, RunsTypeOK
  <2>2. QED
    BY <2>1 DEF TargetInv, OnTarget, In
<1>2. ASSUME NEW n \in Managers,
             \/ Progress(n) \/ Fail(n)
             \/ \E l \in StatusLists :
                  Provision(n, l) \/ UpdateRouting(n, l) \/ SealStatusList(n, l)
      PROVE  TargetInv'
  <2> SUFFICES ASSUME NEW m \in Managers, alone'[m] PROVE OnTarget(m)'
    BY DEF TargetInv
  <2>1. LifecycleInv /\ CountInv
    BY DEF Known, RoutingInv
  <2>2. alone[m]
    BY <1>2, <2>1, AloneBefore
  <2>3. Undisturbed(m) /\ OnTarget(m)
    BY <2>2 DEF Known, RoutingInv, AloneInv, TargetInv
  <2>4. n = m
    BY <1>2, <2>1, <2>3, RestIsQuiet DEF Undisturbed
  <2>5. CASE Progress(m)
    BY <1>m, <2>3, <2>5, ProgressTarget
  <2>6. CASE Fail(m)
    BY <2>1, <2>3, <2>6, FailRouting
  <2>7. ASSUME NEW l \in StatusLists, Provision(m, l) PROVE OnTarget(m)'
    BY <1>m, <2>3, <2>7, ProvisionTarget
  <2>8. ASSUME NEW l \in StatusLists, UpdateRouting(m, l) PROVE OnTarget(m)'
    <3>1. UNCHANGED <<catalog, phase, step, batch, toProvision>>
      BY <2>8 DEF UpdateRouting, AddRoutableStatusListId, RemoveRoutableStatusListId
    <3>2. QED
      BY <2>3, <3>1, SameStates
  <2>9. ASSUME NEW l \in StatusLists, SealStatusList(m, l) PROVE OnTarget(m)'
    <3>1. phase[m] = "closing" /\ UNCHANGED <<phase, step, batch>>
      BY <2>9 DEF SealStatusList, In
    <3>2. QED
      BY <2>3, <3>1 DEF OnTarget, In, NoSetup, NoSteps
  <2>10. QED
    BY <1>2, <2>4, <2>5, <2>6, <2>7, <2>8, <2>9
<1>3. ASSUME NEW l \in StatusLists, Environment(l) PROVE TargetInv'
  <2>1. UNCHANGED <<phase, step, batch, toProvision, alone>>
    BY <1>3 DEF Environment, ReserveNextBlock, BecomeStale, runVars
  <2>2. \A k \in StatusLists : catalog'[k].state = catalog[k].state
    <3>1. CASE ReserveNextBlock(l)
      <4>1. CatalogTypeOK /\ catalog[l].nextFreeIndex \in Nat
        BY DEF Known, LifecycleInv, StoresTypeOK, CatalogTypeOK, CatalogDocument
      <4>2. OnlyState(l, catalog[l].state)
        BY <3>1, <4>1, AdvanceEffect DEF ReserveNextBlock
      <4>3. QED
        BY <4>2 DEF OnlyState
    <3>2. CASE BecomeStale(l)
      BY <3>2 DEF BecomeStale
    <3>3. QED
      BY <1>3, <3>1, <3>2 DEF Environment
  <2>3. QED
    BY <1>s, <2>1, <2>2
<1>4. CASE UNCHANGED vars
  BY <1>4, <1>s DEF vars, runVars
<1>5. QED
  BY <1>1, <1>2, <1>3, <1>4 DEF Next, Work

(* The lists that are or will be OPEN, with those an undisturbed run is    *)
(* still to create, always make up the target.                             *)
THEOREM LifecycleTargetCorrect == Spec => []TargetInv
<1>1. Init => TargetInv
  BY DEF Init, TargetInv
<1>2. TargetInv /\ Known /\ Known' /\ [Next]_vars => TargetInv'
  BY NextTargetInv
<1>3. Spec => []Known
  BY LifecycleCorrect, LifecycleRoutingCorrect, LifecycleCountersCorrect, PTL DEF Known
<1>4. QED
  BY <1>1, <1>2, <1>3, PTL DEF Spec

(* ensureTargetOpenStatusLists: a run that no other run disturbed ends     *)
(* with as many OPEN lists as the policy asks for, whatever the batches,   *)
(* and whatever is sealed, reserved or left over by runs before it.        *)
THEOREM LifecycleTargetIsMet == Spec => []TargetIsMet
<1>1. Known /\ TargetInv => TargetIsMet
  <2> SUFFICES ASSUME Known, TargetInv, NEW m \in Managers, alone[m],
                      In(m, "provisioning"), BatchIsOver(m), toProvision[m] = 0,
                      ListsIn("ABSENT") # {}
               PROVE  Cardinality(ListsIn("OPEN")) >= LowestTarget
    BY DEF TargetIsMet
  <2>1. IsEnough(m)
    BY DEF TargetInv, OnTarget
  <2>2. batch[m] = 0 /\ Underway(m) = {}
    BY DEF BatchIsOver, NoSetup, NoSteps, Underway
  <2>3. OpenInTheEnd(m) = ListsIn("OPEN")
    BY <2>2 DEF OpenInTheEnd
  <2>4. Cardinality(ListsIn("OPEN")) \in Nat
    BY <2>3, EndIsFinite DEF Known
  <2>5. QED
    BY <2>1, <2>2, <2>3, <2>4 DEF IsEnough
<1>2. Spec => []Known
  BY LifecycleCorrect, LifecycleRoutingCorrect, LifecycleCountersCorrect, PTL DEF Known
<1>3. QED
  BY <1>1, <1>2, LifecycleTargetCorrect, PTL
----------------------------------------------------------------------------
(* Lifecycle runs and hosts share the containers *)

(* A list that is created, opened or sealed by its patch, and one that was *)
(* opened and is routed, are moves that the hosts reckon with.             *)
LEMMA CreateManages ==
  ASSUME NEW l \in StatusLists, CreateInitializing(l), UNCHANGED routable
  PROVE  Containers!ManagerStep
<1>1. Containers!Create(l)
  BY DEF CreateInitializing, StateIs, InitializingDocument, AbsentDocument,
         Containers!Create, Containers!CreateInitializing, Containers!StateIs,
         Containers!InitializingDocument, Containers!AbsentDocument
<1>2. QED
  BY <1>1 DEF Containers!ManagerStep

(* A list that was opened meanwhile is left as it is.                      *)
LEMMA OpenManages ==
  ASSUME NEW l \in StatusLists, OpenIfInitializing(l), UNCHANGED routable
  PROVE  Containers!ManagerStep \/ UNCHANGED <<catalog, routable>>
<1>1. CASE StateIs(l, "INITIALIZING")
  <2>1. Containers!Open(l)
    BY <1>1
    DEF OpenIfInitializing, PatchState, Patch, StateIs, Containers!Open,
        Containers!PatchState, Containers!Patch, Containers!StateIs
  <2>2. QED
    BY <2>1 DEF Containers!ManagerStep
<1>2. CASE ~StateIs(l, "INITIALIZING")
  BY <1>2 DEF OpenIfInitializing
<1>3. QED
  BY <1>1, <1>2

(* So is a list that was sealed meanwhile.                                 *)
LEMMA SealManages ==
  ASSUME NEW l \in StatusLists, SealIfClosable(l), UNCHANGED routable
  PROVE  Containers!ManagerStep \/ UNCHANGED <<catalog, routable>>
<1>1. CASE IsClosable(l)
  <2>1. Containers!Seal(l)
    BY <1>1
    DEF SealIfClosable, IsClosable, PatchState, Patch, StateIs, Containers!Seal,
        Containers!IsClosable, Containers!PatchState, Containers!Patch,
        Containers!StateIs
  <2>2. QED
    BY <2>1 DEF Containers!ManagerStep
<1>2. CASE ~IsClosable(l)
  BY <1>2 DEF SealIfClosable
<1>3. QED
  BY <1>1, <1>2

(* An id is only added when its list was opened.                           *)
LEMMA RouteManages ==
  ASSUME NEW l \in StatusLists, UNCHANGED catalog,
         \/ WasOpened(l) /\ routable' = routable \cup {l}
         \/ routable' = routable \ {l}
  PROVE  Containers!ManagerStep
<1>1. Containers!Route(l) \/ Containers!Unroute(l)
  BY DEF WasOpened, Containers!Route, Containers!Unroute, Containers!StateIs
<1>2. QED
  BY <1>1 DEF Containers!ManagerStep

(* That is all that runs ever do to the containers, with what they have    *)
(* read before and with calls that failed runs have left under way.        *)
LEMMA RunsManage ==
  ASSUME LifecycleInv, NEW m \in Managers, Work(m) \/ Fail(m)
  PROVE  Containers!ManagerStep \/ UNCHANGED <<catalog, routable>>
<1>i. LifecycleInv
  OBVIOUS
<1>1. CASE StartRun(m) \/ Progress(m)
  <2>1. CASE CreateInitializingStatusList(m)
    BY <2>1, CreateManages DEF CreateInitializingStatusList, CreateAnother, stores
  <2>2. CASE ~CreateInitializingStatusList(m)
    BY <1>1, <2>2
    DEF StartRun, Progress, ListStaleInitializingStatusListIds, ListOpenStatusListIds,
        GetRoutableStatusListIds, ListClosableStatusLists,
        LoadStatusListsToProvision, FinishRun, stores
  <2>3. QED
    BY <2>1, <2>2
<1>2. ASSUME NEW l \in StatusLists,
             Provision(m, l) \/ UpdateRouting(m, l) \/ SealStatusList(m, l)
      PROVE  Containers!ManagerStep \/ UNCHANGED <<catalog, routable>>
  <2>1. CASE OpenStatusList(m, l)
    BY <2>1, OpenManages DEF OpenStatusList, stores
  <2>2. CASE SealStatusList(m, l)
    BY <2>2, SealManages DEF SealStatusList, stores
  <2>3. CASE RouteOpenedStatusList(m, l)
    <3>1. WasOpened(l)
      BY <1>i, <2>3 DEF RouteOpenedStatusList, Awaits, LifecycleInv, SetupInv, Achieved
    <3>2. QED
      BY <2>3, <3>1, RouteManages DEF RouteOpenedStatusList
  <2>4. CASE AddRoutableStatusListId(m, l)
    <3>1. WasOpened(l)
      BY <1>i, <2>4 DEF AddRoutableStatusListId, LifecycleInv, SeenInv
    <3>2. QED
      BY <2>4, <3>1, RouteManages DEF AddRoutableStatusListId
  <2>5. CASE RemoveRoutableStatusListId(m, l)
    BY <2>5, RouteManages DEF RemoveRoutableStatusListId
  <2>6. CASE CreateEmptyPagesForStatusList(m, l) \/ PublishInitializingStatusList(m, l)
    BY <2>6 DEF CreateEmptyPagesForStatusList, PagesCreated, PublishInitializingStatusList
  <2>7. QED
    BY <1>2, <2>1, <2>2, <2>3, <2>4, <2>5, <2>6 DEF Provision, UpdateRouting
<1>3. CASE Fail(m)
  <2>1. CASE CreationFails(m)
    BY <2>1, CreateManages DEF CreationFails, stores
  <2>2. ASSUME NEW l \in StatusLists, SetupFails(m, l)
        PROVE  Containers!ManagerStep \/ UNCHANGED <<catalog, routable>>
    <3>1. MaybeDone(m, l)
      BY <2>2 DEF SetupFails
    <3>2. CASE Awaits(m, l, "opening") /\ OpenIfInitializing(l) /\ UNCHANGED stores
      BY <3>2, OpenManages DEF stores
    <3>3. CASE /\ Awaits(m, l, "routing") /\ routable' = routable \cup {l}
               /\ UNCHANGED catalog
      <4>1. WasOpened(l)
        BY <1>i, <3>3 DEF Awaits, LifecycleInv, SetupInv, Achieved
      <4>2. QED
        BY <3>3, <4>1, RouteManages
    <3>4. CASE UNCHANGED <<catalog, routable>>
      BY <3>4
    <3>5. QED
      BY <3>1, <3>2, <3>3, <3>4 DEF MaybeDone, stores
  <2>3. CASE CallFails(m) \/ LeftoverWriteFails(m) \/ Crash(m)
    BY <2>3 DEF CallFails, LeftoverWriteFails, Crash, stores
  <2>4. QED
    BY <1>3, <2>1, <2>2, <2>3 DEF Fail
<1>4. QED
  BY <1>1, <1>2, <1>3 DEF Work

(* And what runs expect of their environment is what hosts do: no less ... *)
LEMMA HostsAreEnvironment ==
  ASSUME Containers!HostStep, UNCHANGED <<pages, published, stale, runVars>>
  PROVE  \E l \in StatusLists : ReserveNextBlock(l)
BY DEF Containers!HostStep, Containers!ReserveBlock, Containers!HasFreeBlock,
       Containers!AdvanceNextFreeIndex, Containers!Patch, Containers!StateIs,
       ReserveNextBlock, HasFreeBlock, AdvanceNextFreeIndex, Patch, StateIs, stores

(* ... and no more.                                                        *)
LEMMA EnvironmentReserves ==
  ASSUME NEW l \in StatusLists, Environment(l)
  PROVE  Containers!HostStep \/ UNCHANGED <<catalog, routable>>
<1>1. CASE ReserveNextBlock(l)
  <2>1. Containers!ReserveBlock(l)
    BY <1>1
    DEF Containers!ReserveBlock, Containers!HasFreeBlock,
        Containers!AdvanceNextFreeIndex, Containers!Patch, Containers!StateIs,
        ReserveNextBlock, HasFreeBlock, AdvanceNextFreeIndex, Patch, StateIs, stores
  <2>2. QED
    BY <2>1 DEF Containers!HostStep
<1>2. CASE BecomeStale(l)
  BY <1>2 DEF BecomeStale, stores
<1>3. QED
  BY <1>1, <1>2 DEF Environment

(* Whatever runs overlap, fail or crash, what they do to the catalog and   *)
(* to the routing is to create, open, seal or route one list at a time, in *)
(* the state that this needs, which is what hosts reckon with.             *)
THEOREM LifecycleImplementsContainers == Spec => ImplementsContainers
<1>1. Init => Containers!Init
  BY DEF Init, AbsentDocument, Containers!Init, Containers!AbsentDocument
<1>2. LifecycleInv /\ [Next]_vars => [Containers!Next]_(Containers!vars)
  <2> SUFFICES ASSUME LifecycleInv, [Next]_vars
               PROVE  Containers!Next \/ UNCHANGED Containers!vars
    OBVIOUS
  <2>1. CASE UNCHANGED vars
    BY <2>1 DEF vars, stores, Containers!vars
  <2>2. CASE Next
    <3>1. \/ Containers!HostStep \/ Containers!ManagerStep
          \/ UNCHANGED <<catalog, routable>>
      BY <2>2, RunsManage, EnvironmentReserves DEF Next
    <3>2. QED
      BY <3>1 DEF Containers!Next, Containers!vars
  <2>3. QED
    BY <2>1, <2>2
<1>3. Spec => Containers!Spec
  BY <1>1, <1>2, LifecycleCorrect, PTL DEF Spec, Containers!Spec
<1>4. QED
  BY <1>3 DEF ImplementsContainers
=============================================================================
