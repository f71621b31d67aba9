------------------------ MODULE StatusListLifecycle ------------------------
(***************************************************************************)
(* manageStatusLists and StatusListLifecycleService                        *)
(* (apps/io-wallet-user-func/src/use-cases/status-list-manager.ts and      *)
(* src/infra/status-list-lifecycle.ts): a timer starts a run that          *)
(* completes the lists whose provisioning was interrupted, makes the       *)
(* routing match the catalog, seals the lists that are almost full and     *)
(* provisions new ones.                                                    *)
(*                                                                         *)
(* A run works on four stores that share no transaction: the catalog, the  *)
(* routing, the pages and the published blobs.  It may fail at every call, *)
(* applied or not, crash between any two, and overlap with other runs.     *)
(* An action is the answer of one call with the code up to the next one.   *)
(* Calls made in parallel (Promise.all) are answered one by one, and go on *)
(* after the failure of one of them has ended their run.                   *)
(***************************************************************************)
EXTENDS StatusListCatalog, FiniteSets, FiniteSetsExt

CONSTANTS
  Managers,            \* runs of manageStatusLists that may overlap
  Pages,               \* the pages of one status list
  StalePageSize,       \* staleInitializingStatusListsPageSize
  ProvisionBatchSize,  \* provisionBatchSize
  Targets,             \* what loadEffectiveTargetOpenStatusLists may answer
  MinimumRemainingTotalCapacity

ASSUME SizesAssumption ==
  /\ StalePageSize \in Nat \ {0}
  /\ ProvisionBatchSize \in Nat \ {0}
  /\ CapacityBits # 0
ASSUME TargetsAssumption ==
  /\ Targets \in SUBSET Nat
  /\ Targets # {}
  /\ MinimumRemainingTotalCapacity \in Nat

VARIABLES
  routable,      \* the ids in the routing container
  pages,         \* the page documents of each list
  published,     \* the lists that have a blob
  stale,         \* the lists created more than 10 minutes ago
  phase,         \* what each run is doing
  todo,          \* lists it has still to complete, or to seal
  openSeen,      \* the OPEN lists it read
  adds, removes, \* its writes to the routing that are not answered
  step,          \* the call each provisioning of a list is awaiting
  batch,         \* creations of its current batch that are not answered
  toProvision,   \* lists it will create in later batches
  alone          \* ghost: no other run was at work since this one started

stores == <<routable, pages, published>>
runVars ==
  <<phase, todo, openSeen, adds, removes, step, batch, toProvision, alone>>
vars == <<catalog, stores, stale, runVars>>

Phase == {"idle", "listing", "completing", "comparing", "routing", "closing",
          "provisioning"}

Step == {"none", "pages", "publishing", "opening", "routing"}

ListsIn(state) == {l \in StatusLists : StateIs(l, state)}

StoresTypeOK ==
  /\ catalog \in [StatusLists -> CatalogDocument]
  /\ routable \in SUBSET StatusLists
  /\ pages \in [StatusLists -> SUBSET Pages]
  /\ published \in SUBSET StatusLists
  /\ stale \in SUBSET StatusLists

RunsTypeOK ==
  /\ phase \in [Managers -> Phase]
  /\ todo \in [Managers -> SUBSET StatusLists]
  /\ openSeen \in [Managers -> SUBSET StatusLists]
  /\ adds \in [Managers -> SUBSET StatusLists]
  /\ removes \in [Managers -> SUBSET StatusLists]
  /\ step \in [Managers -> [StatusLists -> Step]]

TypeOK ==
  /\ StoresTypeOK
  /\ RunsTypeOK
  /\ batch \in [Managers -> 0..ProvisionBatchSize]
  /\ toProvision \in [Managers -> Nat]
  /\ alone \in [Managers -> BOOLEAN]

NoSteps == [l \in StatusLists |-> "none"]

Init ==
  /\ catalog = [l \in StatusLists |-> AbsentDocument]
  /\ routable = {}
  /\ pages = [l \in StatusLists |-> {}]
  /\ published = {}
  /\ stale = {}
  /\ phase = [m \in Managers |-> "idle"]
  /\ todo = [m \in Managers |-> {}]
  /\ openSeen = [m \in Managers |-> {}]
  /\ adds = [m \in Managers |-> {}]
  /\ removes = [m \in Managers |-> {}]
  /\ step = [m \in Managers |-> NoSteps]
  /\ batch = [m \in Managers |-> 0]
  /\ toProvision = [m \in Managers |-> 0]
  /\ alone = [m \in Managers |-> FALSE]

----------------------------------------------------------------------------
In(m, p) == phase[m] = p
Enter(m, p) == phase' = [phase EXCEPT ![m] = p]
Leave(m) == Enter(m, "idle") /\ alone' = [alone EXCEPT ![m] = FALSE]

NoSetup(m) == step[m] = NoSteps

(* A run that failed may have left calls of a Promise.all behind it.       *)
AtRest(m) ==
  /\ In(m, "idle")
  /\ adds[m] = {} /\ removes[m] = {} /\ NoSetup(m) /\ batch[m] = 0

StartRun(m) ==
  /\ AtRest(m)
  /\ Enter(m, "listing")
  /\ alone' = [n \in Managers |->
       n = m /\ \A other \in Managers \ {m} : AtRest(other)]
  /\ UNCHANGED <<catalog, stores, stale, todo, openSeen, adds, removes, step,
                 batch, toProvision>>

(* A failure ends the run; what was sent in parallel stays under way, what *)
(* was not sent yet never is.                                              *)
EndRun(m) ==
  /\ Leave(m)
  /\ todo' = [todo EXCEPT ![m] = {}]
  /\ openSeen' = [openSeen EXCEPT ![m] = {}]
  /\ removes' = [removes EXCEPT ![m] =
       IF adds[m] = {} /\ todo[m] = {} THEN @ ELSE {}]
  /\ toProvision' = [toProvision EXCEPT ![m] = 0]
  /\ UNCHANGED <<stale, adds>>

----------------------------------------------------------------------------
(* The provisioning of one list, by reconcileStatusLists for the stale     *)
(* ones in turn, by provisionStatusList for the new ones in parallel.      *)
Awaits(m, l, s) == step[m][l] = s

(* The loop over the stale lists takes the next one when it has finished   *)
(* the one before.                                                         *)
IsNextStale(m, l) == In(m, "completing") /\ NoSetup(m) /\ l \in todo[m]

AwaitsPages(m, l) == Awaits(m, l, "pages") \/ IsNextStale(m, l)

Awaiting(m, l, s) == step' = [step EXCEPT ![m][l] = s]

AddPages(l, P) == pages' = [pages EXCEPT ![l] = @ \cup P]

PagesCreated(m, l) ==
  /\ Awaiting(m, l, "publishing")
  /\ todo' = [todo EXCEPT ![m] = IF In(m, "completing") THEN @ \ {l} ELSE @]
  /\ UNCHANGED <<catalog, routable, published, stale, phase, openSeen, adds,
                 removes, batch, toProvision, alone>>

\* Mutant: the errors of the single operations of the bulk are not looked at.
CreateSomePages(m, l) ==
  /\ AwaitsPages(m, l)
  /\ \E P \in SUBSET Pages : AddPages(l, P)
  /\ PagesCreated(m, l)

\* Mutant: a page that exists already is an error.
CreateMissingPages(m, l) ==
  /\ AwaitsPages(m, l)
  /\ pages[l] = {}
  /\ AddPages(l, Pages)
  /\ PagesCreated(m, l)

(* Pages that exist already (409) are kept as they are.                    *)
CreateEmptyPagesForStatusList(m, l) ==
  /\ AwaitsPages(m, l)
  /\ AddPages(l, Pages)
  /\ PagesCreated(m, l)

(* The upload, unless there is a valid blob, and the fetch that checks it. *)
PublishInitializingStatusList(m, l) ==
  /\ Awaits(m, l, "publishing")
  /\ published' = published \cup {l}
  /\ Awaiting(m, l, "opening")
  /\ UNCHANGED <<catalog, routable, pages, stale, phase, todo, openSeen, adds,
                 removes, batch, toProvision, alone>>

\* Mutant: every error of the patch is ignored, not only a failed condition.
OpenIgnoringErrors(m, l) ==
  /\ Awaits(m, l, "opening")
  /\ OpenIfInitializing(l) \/ UNCHANGED catalog
  /\ Awaiting(m, l, "routing")
  /\ UNCHANGED <<stores, stale, phase, todo, openSeen, adds, removes, batch,
                 toProvision, alone>>

OpenStatusList(m, l) ==
  /\ Awaits(m, l, "opening")
  /\ OpenIfInitializing(l)
  /\ Awaiting(m, l, "routing")
  /\ UNCHANGED <<stores, stale, phase, todo, openSeen, adds, removes, batch,
                 toProvision, alone>>

RouteOpenedStatusList(m, l) ==
  /\ Awaits(m, l, "routing")
  /\ routable' = routable \cup {l}
  /\ Awaiting(m, l, "none")
  /\ UNCHANGED <<catalog, pages, published, stale, phase, todo, openSeen, adds,
                 removes, batch, toProvision, alone>>

(* One call of the four fails: nothing, a part or all of it was done.      *)
MaybeDone(m, l) ==
  \/ UNCHANGED <<catalog, stores>>
  \/ /\ AwaitsPages(m, l)
     /\ \E P \in SUBSET Pages : AddPages(l, P)
     /\ UNCHANGED <<catalog, routable, published>>
  \/ /\ Awaits(m, l, "publishing")
     /\ published' = published \cup {l}
     /\ UNCHANGED <<catalog, routable, pages>>
  \/ /\ Awaits(m, l, "opening")
     /\ OpenIfInitializing(l)
     /\ UNCHANGED stores
  \/ /\ Awaits(m, l, "routing")
     /\ routable' = routable \cup {l}
     /\ UNCHANGED <<catalog, pages, published>>

SetupFails(m, l) ==
  /\ ~Awaits(m, l, "none") \/ IsNextStale(m, l)
  /\ MaybeDone(m, l)
  /\ Awaiting(m, l, "none")
  /\ EndRun(m)
  /\ UNCHANGED batch

----------------------------------------------------------------------------
(* reconcileStatusLists *)

(* The query asks for a single page of results. *)
ListStaleInitializingStatusListIds(m) ==
  LET found == stale \cap ListsIn("INITIALIZING") IN
  /\ In(m, "listing")
  /\ \E S \in SUBSET found :
       /\ Cardinality(S) <= StalePageSize
       /\ S = found \/ Cardinality(S) = StalePageSize
       /\ todo' = [todo EXCEPT ![m] = S]
  /\ Enter(m, "completing")
  /\ UNCHANGED <<catalog, stores, stale, openSeen, adds, removes, step, batch,
                 toProvision, alone>>

ListOpenStatusListIds(m) ==
  /\ In(m, "completing") /\ todo[m] = {} /\ NoSetup(m)
  /\ openSeen' = [openSeen EXCEPT ![m] = ListsIn("OPEN")]
  /\ Enter(m, "comparing")
  /\ UNCHANGED <<catalog, stores, stale, todo, adds, removes, step, batch,
                 toProvision, alone>>

\* Mutant: the lists to remove are not compared with the catalog.
CompareOneWay(m) ==
  /\ In(m, "comparing")
  /\ adds' = [adds EXCEPT ![m] = openSeen[m] \ routable]
  /\ openSeen' = [openSeen EXCEPT ![m] = {}]
  /\ Enter(m, "routing")
  /\ UNCHANGED <<catalog, stores, stale, todo, removes, step, batch,
                 toProvision, alone>>

GetRoutableStatusListIds(m) ==
  /\ In(m, "comparing")
  /\ adds' = [adds EXCEPT ![m] = openSeen[m] \ routable]
  /\ removes' = [removes EXCEPT ![m] = routable \ openSeen[m]]
  /\ openSeen' = [openSeen EXCEPT ![m] = {}]
  /\ Enter(m, "routing")
  /\ UNCHANGED <<catalog, stores, stale, todo, step, batch, toProvision, alone>>

AddRoutableStatusListId(m, l) ==
  /\ l \in adds[m]
  /\ routable' = routable \cup {l}
  /\ adds' = [adds EXCEPT ![m] = @ \ {l}]
  /\ UNCHANGED <<catalog, pages, published, stale, phase, todo, openSeen,
                 removes, step, batch, toProvision, alone>>

(* The removals are sent when the additions, or the seals, are over.  An   *)
(* id that is not there (404) is no error.                                 *)
RemoveRoutableStatusListId(m, l) ==
  /\ adds[m] = {} /\ todo[m] = {}
  /\ l \in removes[m]
  /\ routable' = routable \ {l}
  /\ removes' = [removes EXCEPT ![m] = @ \ {l}]
  /\ UNCHANGED <<catalog, pages, published, stale, phase, todo, openSeen, adds,
                 step, batch, toProvision, alone>>

RoutingIsDone(m) == adds[m] = {} /\ removes[m] = {}

----------------------------------------------------------------------------
(* closeAlmostFullStatusLists *)

ListClosableStatusLists(m) ==
  /\ In(m, "routing") /\ RoutingIsDone(m)
  /\ LET closable == {l \in StatusLists : IsClosable(l)} IN
       /\ todo' = [todo EXCEPT ![m] = closable]
       /\ removes' = [removes EXCEPT ![m] = closable]
  /\ Enter(m, "closing")
  /\ UNCHANGED <<catalog, stores, stale, openSeen, adds, step, batch,
                 toProvision, alone>>

SealStatusList(m, l) ==
  /\ In(m, "closing") /\ l \in todo[m]
  /\ SealIfClosable(l)
  /\ todo' = [todo EXCEPT ![m] = @ \ {l}]
  /\ UNCHANGED <<stores, stale, phase, openSeen, adds, removes, step, batch,
                 toProvision, alone>>

----------------------------------------------------------------------------
(* ensureTargetOpenStatusLists *)

\* Mutant: the query has lost its condition on the state.
EveryList == {l \in StatusLists : ~StateIs(l, "ABSENT")}

(* getCapacitySnapshot: the lists counted, and the sum of what they have left. *)
SnapshotLists == ListsIn("OPEN")

RemainingTotalCapacity ==
  MapThenSumSet(LAMBDA l : CapacityBits - catalog[l].nextFreeIndex, SnapshotLists)

(* capacityPerNewStatusList is the capacity of a list.                     *)
StatusListsToProvisionCount(target) ==
  LET forFloor == Max({0, target - Cardinality(SnapshotLists)})
      missingCapacity ==
        Max({0, MinimumRemainingTotalCapacity - RemainingTotalCapacity})
      forCapacity == (missingCapacity + CapacityBits - 1) \div CapacityBits
  IN Max({forFloor, forCapacity})

LoadStatusListsToProvision(m) ==
  /\ In(m, "closing") /\ todo[m] = {} /\ RoutingIsDone(m)
  /\ \E target \in Targets :
       toProvision' =
         [toProvision EXCEPT ![m] = StatusListsToProvisionCount(target)]
  /\ Enter(m, "provisioning")
  /\ UNCHANGED <<catalog, stores, stale, todo, openSeen, adds, removes, step,
                 batch, alone>>

(* A batch begins when every list of the one before is finished.           *)
BatchIsOver(m) == batch[m] = 0 /\ NoSetup(m)

CreationsAwaited(m) ==
  IF BatchIsOver(m) THEN Min({ProvisionBatchSize, toProvision[m]})
                    ELSE batch[m]

CreationAnswered(m) ==
  /\ CreationsAwaited(m) > 0
  /\ batch' = [batch EXCEPT ![m] = CreationsAwaited(m) - 1]

(* Bound: when every uuid of StatusLists is used, a creation adds nothing. *)
CreateAnother(m) ==
  \/ \E l \in StatusLists : CreateInitializing(l) /\ Awaiting(m, l, "pages")
  \/ ListsIn("ABSENT") = {} /\ UNCHANGED <<catalog, step>>

\* Mutant: every batch counts as a full one.
AfterFullBatch(m) == toProvision[m] - ProvisionBatchSize

AfterThisBatch(m) == toProvision[m] - CreationsAwaited(m)

CreateInitializingStatusList(m) ==
  /\ CreationAnswered(m)
  /\ toProvision' = [toProvision EXCEPT ![m] =
       IF BatchIsOver(m) THEN AfterThisBatch(m) ELSE @]
  /\ CreateAnother(m)
  /\ UNCHANGED <<stores, stale, phase, todo, openSeen, adds, removes, alone>>

CreationFails(m) ==
  /\ CreationAnswered(m)
  /\ \/ UNCHANGED catalog
     \/ \E l \in StatusLists : CreateInitializing(l)
  /\ EndRun(m)
  /\ UNCHANGED <<stores, step>>

FinishRun(m) ==
  /\ In(m, "provisioning") /\ BatchIsOver(m) /\ toProvision[m] = 0
  /\ Leave(m)
  /\ UNCHANGED <<catalog, stores, stale, todo, openSeen, adds, removes, step,
                 batch, toProvision>>

----------------------------------------------------------------------------
(* The other calls of a run fail: a query, or a write of a group whose     *)
(* other writes were answered or are still under way.                      *)
CallFails(m) ==
  /\ \/ phase[m] \in {"listing", "comparing", "routing", "closing"}
     \/ In(m, "completing") /\ todo[m] = {} /\ NoSetup(m)
  /\ EndRun(m)
  /\ UNCHANGED <<catalog, stores, step, batch>>

(* A write left behind by a failed run fails in its turn.                  *)
LeftoverWriteFails(m) ==
  /\ In(m, "idle")
  /\ \E l \in StatusLists :
       /\ l \in adds[m] \cup removes[m]
       /\ adds' = [adds EXCEPT ![m] = @ \ {l}]
       /\ removes' = [removes EXCEPT ![m] = @ \ {l}]
  /\ UNCHANGED <<catalog, stores, stale, phase, todo, openSeen, step, batch,
                 toProvision, alone>>

(* The host of a run restarts. *)
Crash(m) ==
  /\ ~AtRest(m)
  /\ Leave(m)
  /\ todo' = [todo EXCEPT ![m] = {}]
  /\ openSeen' = [openSeen EXCEPT ![m] = {}]
  /\ adds' = [adds EXCEPT ![m] = {}]
  /\ removes' = [removes EXCEPT ![m] = {}]
  /\ step' = [step EXCEPT ![m] = NoSteps]
  /\ batch' = [batch EXCEPT ![m] = 0]
  /\ toProvision' = [toProvision EXCEPT ![m] = 0]
  /\ UNCHANGED <<catalog, stores, stale>>

----------------------------------------------------------------------------
(* The environment: the allocator reserves blocks, and time passes.        *)
ReserveNextBlock(l) ==
  /\ HasFreeBlock(l)
  /\ AdvanceNextFreeIndex(l, catalog[l].nextFreeIndex)
  /\ UNCHANGED <<stores, stale, runVars>>

BecomeStale(l) ==
  /\ StateIs(l, "INITIALIZING") /\ l \notin stale
  /\ stale' = stale \cup {l}
  /\ UNCHANGED <<catalog, stores, runVars>>

----------------------------------------------------------------------------
Provision(m, l) ==
  \/ CreateEmptyPagesForStatusList(m, l)
  \/ PublishInitializingStatusList(m, l)
  \/ OpenStatusList(m, l)
  \/ RouteOpenedStatusList(m, l)

UpdateRouting(m, l) ==
  \/ AddRoutableStatusListId(m, l)
  \/ RemoveRoutableStatusListId(m, l)

Progress(m) ==
  \/ ListStaleInitializingStatusListIds(m)
  \/ ListOpenStatusListIds(m)
  \/ GetRoutableStatusListIds(m)
  \/ ListClosableStatusLists(m)
  \/ LoadStatusListsToProvision(m)
  \/ CreateInitializingStatusList(m)
  \/ FinishRun(m)

Fail(m) ==
  \/ CallFails(m)
  \/ CreationFails(m)
  \/ LeftoverWriteFails(m)
  \/ Crash(m)
  \/ \E l \in StatusLists : SetupFails(m, l)

Work(m) ==
  \/ StartRun(m) \/ Progress(m)
  \/ \E l \in StatusLists :
       Provision(m, l) \/ UpdateRouting(m, l) \/ SealStatusList(m, l)

Environment(l) == ReserveNextBlock(l) \/ BecomeStale(l)

Next ==
  \/ \E m \in Managers : Work(m) \/ Fail(m)
  \/ \E l \in StatusLists : Environment(l)

Spec == Init /\ [][Next]_vars

(* The timer fires for ever, time passes, and calls that do not fail are   *)
(* answered.  Failures may come in any number, but stop: what a run that   *)
(* fails leaves behind is for the runs after it to repair.                 *)
FailuresStop ==
  <>[][\/ \E m \in Managers : Work(m)
       \/ \E l \in StatusLists : Environment(l)]_vars

FairSpec ==
  /\ Spec
  /\ \A m \in Managers : WF_vars(Work(m))
  /\ \A l \in StatusLists : WF_vars(BecomeStale(l))
  /\ FailuresStop

----------------------------------------------------------------------------
(* Properties *)

WasOpened(l) == catalog[l].state \in {"OPEN", "SEALED"}

(* No list is opened before all its pages and a first blob exist, whatever *)
(* calls failed half way and whichever run went on with the list: a bit    *)
(* that is given out can be revoked, and its list can be fetched.          *)
OpenedIsReady ==
  \A l \in StatusLists :
    WasOpened(l) => pages[l] = Pages /\ l \in published

(* Only lists that were opened are ever routed, although the id is written *)
(* after the call that opens the list, by runs that may hold old answers.  *)
RoutedWasOpened == \A l \in routable : WasOpened(l)

(* A list never goes back: a slow run that opens a list that another run   *)
(* opened and sealed meanwhile does not reopen it.                         *)
NeverReopened ==
  [][\A l \in StatusLists :
       catalog'[l].state # catalog[l].state =>
         <<catalog[l].state, catalog'[l].state>> \in
           {<<"ABSENT", "INITIALIZING">>, <<"INITIALIZING", "OPEN">>,
            <<"OPEN", "SEALED">>}]_vars

(* reconcileStatusLists "makes routing match the catalog OPEN state": when *)
(* a run that no other run disturbed has made its writes, the routable ids *)
(* are exactly the OPEN lists, whatever the runs before it left behind.    *)
RoutingMatchesCatalog ==
  \A m \in Managers :
    alone[m] /\ In(m, "routing") /\ RoutingIsDone(m) =>
      routable = ListsIn("OPEN")

LowestTarget == Min(Targets)

(* A run that no other run disturbed ends with the number of OPEN lists    *)
(* the policy asks for: the batches add up to the count, and every list of *)
(* a batch is open when the batch is over.                                 *)
TargetIsMet ==
  \A m \in Managers :
    alone[m] /\ In(m, "provisioning") /\ BatchIsOver(m) /\ toProvision[m] = 0 =>
      Cardinality(ListsIn("OPEN")) >= LowestTarget \/ ListsIn("ABSENT") = {}

(* What runs do to the containers they share with the hosts is to move one *)
(* list on, or to route one that was opened, whatever they have read       *)
(* before, and a call that a failed run left under way does no more.       *)
Containers == INSTANCE StatusListContainers

ImplementsContainers == Containers!Spec

(* Once failures stop, the runs heal the drift they left between catalog   *)
(* and routing, again and again while lists are sealed and provisioned.    *)
DriftHeals == []<>(routable = ListsIn("OPEN"))

(* No list stays half provisioned: a later run completes it.               *)
InitializingIsCompleted ==
  \A l \in StatusLists : StateIs(l, "INITIALIZING") ~> StateIs(l, "OPEN")

(* However fast the lists fill up, there are again as many OPEN lists as   *)
(* the policy asks for.                                                    *)
TargetIsReached ==
  []<>(Cardinality(ListsIn("OPEN")) >= LowestTarget \/ ListsIn("ABSENT") = {})
=============================================================================
