-------------------- MODULE StatusListPublicationProofs --------------------
(***************************************************************************)
(* Verifiers are never shown a bit that is not set, and a published list   *)
(* takes a revocation back only when a publication was overtaken, for any  *)
(* numbers of lists, pages, hosts, managers, messages and faults.  First   *)
(* the types; then the queue: a message is handled by one host at a time,  *)
(* and its list stays the same meanwhile; then what the pages, the blobs   *)
(* and the loaded pages may do in one step, from which the invariant about *)
(* their bits follows.  The argument is one chain of inequalities: every   *)
(* page a host has loaded is at most what the page is now, and, as long as *)
(* nobody has written the blob meanwhile, at least what the blob shows.    *)
(* At its end, how old what is shown can be (StatusListFreshness).         *)
(***************************************************************************)
EXTENDS StatusListPublication, StatusListFreshness, TLAPS

----------------------------------------------------------------------------
(* A slot of the queue without a list is empty, and a message that waits   *)
(* has an attempt left.                                                    *)
QueueInv ==
  \A q \in Messages :
    /\ queue[q].list = NoList => Free(q)
    /\ ~Free(q) /\ ~Handled(q) => queue[q].count < MaxDequeueCount

(* What a host handles is a message of the queue, and no other host        *)
(* handles it.                                                             *)
HandlersInv ==
  \A h \in Hosts : step[h] # "idle" =>
    /\ ListOf(h) \in StatusLists
    /\ \A g \in Hosts \ {h} : step[g] # "idle" => message[g] # message[h]

(* What host h has loaded: nothing before it begins and after it has       *)
(* copied; all pages once it has signed; and what it copies is what it     *)
(* signed. A loaded page is at most the page of the list now, and at least *)
(* that of the blob unless the blob was written meanwhile.                 *)
TokenHolds(h) ==
  /\ step[h] \in {"idle", "purging"} => token[h] = NoToken
  /\ step[h] \in {"checking", "copying", "failing"} => IsLoaded(h)
  /\ step[h] = "copying" => staged[h] = token[h]
  /\ \A p \in PageIndex : token[h][p] # NotLoaded =>
       /\ token[h][p] <= pages[ListOf(h)][p]
       /\ ~overlapped[h] /\ blob[ListOf(h)] # NoToken =>
            blob[ListOf(h)][p] <= token[h][p]

(* That, of every host.                                                    *)
TokensInv == \A h \in Hosts : TokenHolds(h)

(* The blob of a list and the copy of the CDN show no more than its pages, *)
(* and nobody revokes in a list that has not been opened.                  *)
BlobsInv ==
  \A l \in StatusLists :
    /\ blob[l] # NoToken => AtMost(blob[l], pages[l])
    /\ cdn[l] # NoToken => AtMost(cdn[l], pages[l])
    /\ l \notin opened => pages[l] = EmptyToken

(* The inductive invariant.                                                *)
PublicationInv == TypeOK /\ QueueInv /\ HandlersInv /\ TokensInv /\ BlobsInv

----------------------------------------------------------------------------
(* A list has a page, so that no token, an empty one, a corrupted one and  *)
(* a loaded one are different things.                                      *)
LEMMA Tokens ==
  /\ 0 \in PageIndex /\ EmptyToken \in Content /\ NoToken \in Loading
  /\ NoToken \notin Content /\ Corrupted \notin Loading
  /\ Content \subseteq Loading
<1>1. 0 \in PageIndex
  BY SizesAssumption DEF PageIndex
<1>2. 0 \in 0..PageBits /\ NotLoaded \in 0..NotLoaded /\ NotLoaded \notin 0..PageBits
      /\ PageBits + 2 \notin 0..NotLoaded /\ 0..PageBits \subseteq 0..NotLoaded
  BY SizesAssumption DEF NotLoaded
<1>3. EmptyToken \in Content /\ NoToken \in Loading
  BY <1>2 DEF EmptyToken, NoToken, Content, Loading
<1>4. NoToken[0] = NotLoaded /\ Corrupted[0] = PageBits + 2
  BY <1>1 DEF NoToken, Corrupted
<1>5. NoToken \notin Content /\ Corrupted \notin Loading
  BY <1>1, <1>2, <1>4 DEF Content, Loading
<1>6. Content \subseteq Loading
  BY <1>2 DEF Content, Loading
<1>7. QED
  BY <1>1, <1>3, <1>5, <1>6

(* Once all pages are loaded they are what a token contains.               *)
LEMMA LoadedIsContent ==
  ASSUME TypeOK, NEW h \in Hosts, IsLoaded(h)
  PROVE  token[h] \in Content
<1>1. token[h] \in Loading
  BY DEF TypeOK
<1>2. \A p \in PageIndex : token[h][p] \in 0..PageBits
  BY <1>1, SizesAssumption DEF IsLoaded, Loading, NotLoaded
<1>3. QED
  BY <1>1, <1>2 DEF Content, Loading

(* There is a message an idle host is said to have.                        *)
LEMMA AnyMessageIsOne == AnyMessage \in Messages
BY SizesAssumption DEF AnyMessage

(* An empty slot has the type of the slots.                                *)
LEMMA NoMessageType ==
  NoMessage \in [list : StatusLists \cup {NoList}, count : 0..MaxDequeueCount]
BY SizesAssumption DEF NoMessage

(* The initial states have the types of the variables.                     *)
LEMMA InitType == Init => TypeOK
<1> SUFFICES ASSUME Init PROVE TypeOK
  OBVIOUS
<1>1. (CHOOSE l \in StatusLists : TRUE) \in StatusLists
  BY SizesAssumption
<1>2. 0 \in 0..MaxFaults
  BY SizesAssumption
<1>3. QED
  BY <1>1, <1>2, Tokens, AnyMessageIsOne, NoMessageType, Zenon DEF Init, TypeOK, Step

(* The next await of a publication keeps the type of step.                 *)
LEMMA GotoType ==
  ASSUME TypeOK, NEW h \in Hosts, NEW s \in Step, Goto(h, s)
  PROVE  step' \in [Hosts -> Step]
BY Zenon DEF TypeOK, Goto

(* The end of a publication keeps the types.                               *)
LEMMA FinishType ==
  ASSUME TypeOK, NEW h \in Hosts, Finish(h)
  PROVE  /\ step' \in [Hosts -> Step] /\ message' \in [Hosts -> Messages]
         /\ token' \in [Hosts -> Loading] /\ dispatching' \in SUBSET StatusLists
         /\ staged' \in [Hosts -> Content \cup {NoToken, Corrupted}]
<1>1. step' \in [Hosts -> Step]
  BY GotoType DEF Finish, Step
<1>2. message' \in [Hosts -> Messages]
  BY AnyMessageIsOne, Zenon DEF Finish, TypeOK
<1>3. token' \in [Hosts -> Loading]
  BY Tokens, Zenon DEF Finish, TypeOK
<1>4. staged' \in [Hosts -> Content \cup {NoToken, Corrupted}]
  BY Zenon DEF Finish, TypeOK
<1>5. QED
  BY <1>1, <1>2, <1>3, <1>4 DEF Finish, TypeOK

(* Writing a token into a blob keeps the types.                            *)
LEMMA WriteBlobType ==
  ASSUME TypeOK, NEW l \in StatusLists, NEW content \in Content \cup {NoToken},
         NEW ended, WriteBlob(l, content, ended)
  PROVE  /\ blob' \in [StatusLists -> Content \cup {NoToken}]
         /\ overlapped' \in [Hosts -> BOOLEAN]
<1>1. blob' \in [StatusLists -> Content \cup {NoToken}]
  BY Zenon DEF WriteBlob, TypeOK
<1>2. overlapped' \in [Hosts -> BOOLEAN]
  BY Zenon DEF WriteBlob, TypeOK
<1>3. QED
  BY <1>1, <1>2

(* A failed call stays within the bound on faults.                         *)
LEMMA FaultType ==
  ASSUME TypeOK, UNCHANGED faults \/ (CanFail /\ Fault)
  PROVE  faults' \in 0..MaxFaults
BY SizesAssumption DEF TypeOK, CanFail, Fault

(* A message that is returned, dropped or deleted keeps the type of the    *)
(* queue.                                                                  *)
LEMMA ReturnType ==
  ASSUME TypeOK, NEW h \in Hosts,
         \/ ReturnMessage(h)
         \/ queue' = [queue EXCEPT ![message[h]] = NoMessage]
  PROVE  queue' \in [Messages -> [list : StatusLists \cup {NoList},
                                  count : 0..MaxDequeueCount]]
<1>1. message[h] \in Messages /\ queue[message[h]] \in
        [list : StatusLists \cup {NoList}, count : 0..MaxDequeueCount]
  BY DEF TypeOK
<1>2. \/ queue' = [queue EXCEPT ![message[h]] = NoMessage]
      \/ queue' = [queue EXCEPT ![message[h]] = queue[message[h]]]
  BY Zenon DEF ReturnMessage
<1>3. QED
  BY <1>1, <1>2, NoMessageType, Zenon DEF TypeOK

(* The end of a publication keeps the type of overlapped.                  *)
LEMMA ForgetType ==
  ASSUME TypeOK, NEW h \in Hosts, ForgetOverlap(h)
  PROVE  overlapped' \in [Hosts -> BOOLEAN]
BY Zenon DEF TypeOK, ForgetOverlap

(* The next await of a provisioning keeps the type of setup.               *)
LEMMA SetupType ==
  ASSUME TypeOK, NEW m \in Managers,
         NEW s \in {"idle", "looking", "uploading", "fetching"}, SetupAt(m, s)
  PROVE  setup' \in [Managers -> {"idle", "looking", "uploading", "fetching"}]
BY Zenon DEF TypeOK, SetupAt

(* The dispatcher keeps the types.                                         *)
LEMMA DispatchType ==
  ASSUME TypeOK, Dispatch
  PROVE  TypeOK'
<1>1. CASE ListPublishable
  BY <1>1 DEF ListPublishable, TypeOK, hostVars, setupVars
<1>2. ASSUME NEW l \in StatusLists, EnqueueStatusList(l) PROVE TypeOK'
  <2>1. PICK slots \in SUBSET Messages :
          /\ Enqueue(l, slots)
          /\ UNCHANGED faults \/ (CanFail /\ Fault)
    BY <1>2 DEF EnqueueStatusList
  <2>2. [list |-> l, count |-> 0] \in [list : StatusLists \cup {NoList}, count : 0..MaxDequeueCount]
    BY SizesAssumption
  <2>3. queue' \in [Messages -> [list : StatusLists \cup {NoList}, count : 0..MaxDequeueCount]]
    BY <2>1, <2>2, Zenon DEF Enqueue, TypeOK
  <2>4. faults' \in 0..MaxFaults
    BY <2>1, FaultType
  <2>5. dispatching' \in SUBSET StatusLists
    BY <1>2 DEF EnqueueStatusList, TypeOK
  <2>6. QED
    BY <1>2, <2>3, <2>4, <2>5 DEF EnqueueStatusList, TypeOK, hostVars, setupVars
<1>3. QED
  BY <1>1, <1>2 DEF Dispatch

(* Receiving a message keeps the types: one that waits has an attempt      *)
(* left.                                                                   *)
LEMMA ReceiveType ==
  ASSUME TypeOK, QueueInv, NEW h \in Hosts, NEW q \in Messages, Receive(h, q)
  PROVE  TypeOK'
<1>1. queue[q] \in [list : StatusLists \cup {NoList}, count : 0..MaxDequeueCount]
  BY DEF TypeOK
<1>2. queue[q].count + 1 \in 0..MaxDequeueCount
  BY <1>1, SizesAssumption DEF QueueInv, Receive
<1>3. [queue[q] EXCEPT !.count = queue[q].count + 1]
        \in [list : StatusLists \cup {NoList}, count : 0..MaxDequeueCount]
  BY <1>1, <1>2
<1>4. queue' = [queue EXCEPT ![q] = [queue[q] EXCEPT !.count = queue[q].count + 1]]
  BY Zenon DEF Receive
<1>5. queue' \in [Messages -> [list : StatusLists \cup {NoList}, count : 0..MaxDequeueCount]]
  BY <1>3, <1>4, Zenon DEF TypeOK
<1>6. step' \in [Hosts -> Step]
  BY GotoType DEF Receive, Step
<1>7. message' \in [Hosts -> Messages]
  BY Zenon DEF Receive, TypeOK
<1>8. QED
  BY <1>5, <1>6, <1>7 DEF Receive, TypeOK, setupVars

(* A publication keeps the types: what it copies is all its pages.         *)
LEMMA PublishType ==
  ASSUME TypeOK, HandlersInv, TokensInv, NEW h \in Hosts, Publish(h) \/ FailPublication(h)
  PROVE  TypeOK'
<1>1. CASE LoadPage(h)
  <2>1. PICK p \in PageIndex :
          token' = [token EXCEPT ![h][p] = pages[ListOf(h)][p]]
    BY <1>1 DEF LoadPage
  <2>2. ListOf(h) \in StatusLists /\ token[h] \in Loading
    BY <1>1 DEF LoadPage, HandlersInv, TypeOK
  <2>3. pages[ListOf(h)] \in Content
    BY <2>2 DEF TypeOK
  <2>4. pages[ListOf(h)][p] \in 0..NotLoaded
    BY <2>3, SizesAssumption DEF Content, NotLoaded
  <2>5. [token[h] EXCEPT ![p] = pages[ListOf(h)][p]] \in Loading
    BY <2>2, <2>4, Zenon DEF Loading
  <2>6. token' = [token EXCEPT ![h] = [token[h] EXCEPT ![p] = pages[ListOf(h)][p]]]
    BY <2>1, Zenon
  <2>7. token' \in [Hosts -> Loading]
    BY <2>5, <2>6, Zenon DEF TypeOK
  <2>8. QED
    BY <1>1, <2>7 DEF LoadPage, TypeOK, setupVars, queueVars
<1>2. CASE StageTokenStatusList(h)
  <2>1. step' \in [Hosts -> Step]
    BY <1>2, GotoType DEF StageTokenStatusList, Step
  <2>2. staged' \in [Hosts -> Content \cup {NoToken, Corrupted}]
    BY <1>2, LoadedIsContent, Zenon DEF StageTokenStatusList, TypeOK
  <2>3. faults' \in 0..MaxFaults
    BY <1>2, FaultType DEF StageTokenStatusList
  <2>4. QED
    BY <1>2, <2>1, <2>2, <2>3 DEF StageTokenStatusList, TypeOK, setupVars, queueVars
<1>3. CASE CheckStaged(h)
  <2>1. step' \in [Hosts -> Step]
    BY <1>3, GotoType DEF CheckStaged, Step
  <2>2. QED
    BY <1>3, <2>1 DEF CheckStaged, TypeOK, setupVars, queueVars
<1>4. step[h] = "copying" => /\ ListOf(h) \in StatusLists
                             /\ staged[h] \in Content
  BY LoadedIsContent DEF HandlersInv, TokensInv, TokenHolds
<1>5. CASE CopyStaging(h)
  <2>1. step' \in [Hosts -> Step]
    BY <1>5, GotoType DEF CopyStaging, Step
  <2>2. blob' \in [StatusLists -> Content \cup {NoToken}] /\ overlapped' \in [Hosts -> BOOLEAN]
    BY <1>4, <1>5, WriteBlobType DEF CopyStaging
  <2>3. staged' \in [Hosts -> Content \cup {NoToken, Corrupted}]
    BY <1>5, Zenon DEF CopyStaging, TypeOK
  <2>4. token' \in [Hosts -> Loading]
    BY <1>5, Tokens, Zenon DEF CopyStaging, TypeOK
  <2>5. QED
    BY <1>5, <2>1, <2>2, <2>3, <2>4 DEF CopyStaging, TypeOK, setupVars, queueVars
<1>6. CASE PurgeStatusListContent(h) \/ FailStaged(h)
  <2>1. /\ queue' \in [Messages -> [list : StatusLists \cup {NoList},
                                    count : 0..MaxDequeueCount]]
        /\ overlapped' \in [Hosts -> BOOLEAN]
    BY <1>6, ReturnType, ForgetType DEF PurgeStatusListContent, FailStaged
  <2>2. QED
    BY <1>6, <2>1, FinishType DEF PurgeStatusListContent, FailStaged, TypeOK, setupVars
<1>7. CASE FailPublication(h)
  <2>1. queue' \in [Messages -> [list : StatusLists \cup {NoList},
                                 count : 0..MaxDequeueCount]]
    BY <1>7, ReturnType DEF FailPublication
  <2>2. blob' \in [StatusLists -> Content \cup {NoToken}] /\ overlapped' \in [Hosts -> BOOLEAN]
    BY <1>4, <1>7, WriteBlobType, ForgetType DEF FailPublication, TypeOK
  <2>3. faults' \in 0..MaxFaults
    BY <1>7, FaultType DEF FailPublication
  <2>4. QED
    BY <1>7, <2>1, <2>2, <2>3, FinishType DEF FailPublication, TypeOK, setupVars
<1>8. QED
  BY <1>1, <1>2, <1>3, <1>5, <1>6, <1>7 DEF Publish

(* Opening a list keeps the type of the catalog, and every list that has   *)
(* been opened.                                                            *)
LEMMA OpenType ==
  ASSUME TypeOK, NEW l \in StatusLists, OpenStatusList(l)
  PROVE  /\ state' \in [StatusLists -> {"INITIALIZING", "OPEN", "SEALED"}]
         /\ opened \subseteq opened'
BY DEF TypeOK, OpenStatusList, opened

(* A provisioning keeps the types.                                         *)
LEMMA SetupStepType ==
  ASSUME TypeOK, NEW m \in Managers,
         \/ PublishInitializing(m) \/ FailSetup(m)
         \/ \E l \in StatusLists : StartSetup(m, l)
  PROVE  TypeOK'
<1>1. setup' \in [Managers -> {"idle", "looking", "uploading", "fetching"}]
  BY SetupType DEF PublishInitializing, FailSetup, StartSetup,
     HasValidPublishedInitializingStatusList, UploadInitializingStatusList,
     CheckPublishedAndOpen
<1>2. setupList' \in [Managers -> StatusLists]
  BY DEF PublishInitializing, FailSetup, StartSetup,
     HasValidPublishedInitializingStatusList, UploadInitializingStatusList,
     CheckPublishedAndOpen, TypeOK
<1>3. setupList[m] \in StatusLists
  BY DEF TypeOK
<1>4. faults' \in 0..MaxFaults
  BY FaultType DEF PublishInitializing, FailSetup, StartSetup,
     HasValidPublishedInitializingStatusList, UploadInitializingStatusList,
     CheckPublishedAndOpen
<1>5. blob' \in [StatusLists -> Content \cup {NoToken}] /\ overlapped' \in [Hosts -> BOOLEAN]
  BY <1>3, Tokens, WriteBlobType DEF PublishInitializing, FailSetup, StartSetup,
     HasValidPublishedInitializingStatusList, UploadInitializingStatusList,
     CheckPublishedAndOpen, TypeOK
<1>6. state' \in [StatusLists -> {"INITIALIZING", "OPEN", "SEALED"}]
  BY <1>3, OpenType DEF PublishInitializing, FailSetup, StartSetup,
     HasValidPublishedInitializingStatusList, UploadInitializingStatusList,
     CheckPublishedAndOpen, TypeOK
<1>7. UNCHANGED <<pages, cdn, queueVars, hostVars>>
  BY DEF PublishInitializing, FailSetup, StartSetup,
     HasValidPublishedInitializingStatusList, UploadInitializingStatusList,
     CheckPublishedAndOpen
<1>8. QED
  BY <1>1, <1>2, <1>4, <1>5, <1>6, <1>7 DEF TypeOK, queueVars, hostVars

(* Revocations, seals, the CDN and other runs of the manager keep the      *)
(* types.                                                                  *)
LEMMA WorldType ==
  ASSUME TypeOK, NEW l \in StatusLists,
         \/ OpenInAnotherRun(l) \/ SealStatusList(l)
         \/ CacheBlob(l) \/ DropFromCache(l)
         \/ \E p \in PageIndex : RevokeBit(l, p)
  PROVE  TypeOK'
<1>1. CASE OpenInAnotherRun(l) \/ SealStatusList(l)
  <2>1. state' \in [StatusLists -> {"INITIALIZING", "OPEN", "SEALED"}]
    BY <1>1, OpenType DEF OpenInAnotherRun, SealStatusList, TypeOK
  <2>2. QED
    BY <1>1, <2>1 DEF OpenInAnotherRun, SealStatusList, TypeOK, queueVars, hostVars, setupVars
<1>2. CASE CacheBlob(l) \/ DropFromCache(l)
  <2>1. cdn' \in [StatusLists -> Content \cup {NoToken}]
    BY <1>2, Zenon DEF CacheBlob, DropFromCache, TypeOK
  <2>2. QED
    BY <1>2, <2>1 DEF CacheBlob, DropFromCache, TypeOK, queueVars, hostVars, setupVars
<1>3. ASSUME NEW p \in PageIndex, RevokeBit(l, p) PROVE TypeOK'
  <2>1. pages[l] \in Content /\ pages[l][p] \in 0..PageBits
    BY DEF TypeOK, Content
  <2>2. pages[l][p] + 1 \in 0..PageBits
    BY <1>3, <2>1, SizesAssumption DEF RevokeBit
  <2>3. [pages[l] EXCEPT ![p] = pages[l][p] + 1] \in Content
    BY <2>1, <2>2, Zenon DEF Content
  <2>4. pages' = [pages EXCEPT ![l] = [pages[l] EXCEPT ![p] = pages[l][p] + 1]]
    BY <1>3, Zenon DEF RevokeBit
  <2>5. pages' \in [StatusLists -> Content]
    BY <2>3, <2>4, Zenon DEF TypeOK
  <2>6. QED
    BY <1>3, <2>5 DEF RevokeBit, TypeOK, queueVars, hostVars, setupVars
<1>4. QED
  BY <1>1, <1>2, <1>3

(* Each step keeps the types.                                              *)
LEMMA StepType == PublicationInv /\ [Next]_vars => TypeOK'
<1> SUFFICES ASSUME PublicationInv, [Next]_vars PROVE TypeOK'
  OBVIOUS
<1>1. TypeOK /\ QueueInv /\ HandlersInv /\ TokensInv
  BY DEF PublicationInv
<1>2. CASE UNCHANGED vars
  BY <1>1, <1>2 DEF vars, TypeOK, queueVars, hostVars, setupVars
<1>3. QED
  BY <1>1, <1>2, DispatchType, ReceiveType, PublishType, SetupStepType, WorldType
  DEF Next, ReceiveAny

----------------------------------------------------------------------------
(* The queue when the dispatcher enqueues list l.                          *)
Enqueues(l) ==
  /\ \E slots \in SUBSET {q \in Messages : Free(q)} : Enqueue(l, slots)
  /\ UNCHANGED <<step, message>>

(* The queue when host h goes on with its message.                         *)
GoesOn(h) ==
  /\ step[h] # "idle"
  /\ \E s \in Step \ {"idle"} : Goto(h, s)
  /\ UNCHANGED <<queue, message>>

(* The queue when host h is done with its message, for good or not.        *)
Ends(h) ==
  /\ step[h] # "idle" /\ Goto(h, "idle")
  /\ message' = [message EXCEPT ![h] = AnyMessage]
  /\ \/ queue' = [queue EXCEPT ![message[h]] = NoMessage]
     \/ queue' = queue /\ queue[message[h]].count # MaxDequeueCount

(* The queue when host h receives message q.                               *)
Receives(h, q) ==
  /\ step[h] = "idle" /\ ~Free(q) /\ ~Handled(q)
  /\ queue' = [queue EXCEPT ![q].count = @ + 1]
  /\ Goto(h, "loading")
  /\ message' = [message EXCEPT ![h] = q]

(* A returned message is dropped or stays, with an attempt left.           *)
LEMMA ReturnCases ==
  ASSUME TypeOK, NEW h \in Hosts, ReturnMessage(h)
  PROVE  \/ queue' = [queue EXCEPT ![message[h]] = NoMessage]
         \/ queue' = queue /\ queue[message[h]].count # MaxDequeueCount
<1>1. message[h] \in Messages
  BY DEF TypeOK
<1>2. CASE queue[message[h]].count = MaxDequeueCount
  BY <1>2, Zenon DEF ReturnMessage
<1>3. CASE queue[message[h]].count # MaxDequeueCount
  <2>1. queue' = [queue EXCEPT ![message[h]] = queue[message[h]]]
    BY <1>3, Zenon DEF ReturnMessage
  <2>2. [queue EXCEPT ![message[h]] = queue[message[h]]] = queue
    BY <1>1 DEF TypeOK
  <2>3. QED
    BY <1>3, <2>1, <2>2
<1>4. QED
  BY <1>2, <1>3

(* Nothing else happens to the queue and to who handles what.              *)
LEMMA QueueMoves ==
  ASSUME TypeOK, [Next]_vars
  PROVE  \/ \E l \in StatusLists : Enqueues(l)
         \/ \E h \in Hosts : GoesOn(h) \/ Ends(h) \/ \E q \in Messages : Receives(h, q)
         \/ UNCHANGED <<queue, step, message>>
<1>1. ASSUME Dispatch
      PROVE  (\E l \in StatusLists : Enqueues(l)) \/ UNCHANGED <<queue, step, message>>
  BY <1>1 DEF Dispatch, ListPublishable, EnqueueStatusList, Enqueues, hostVars
<1>2. ASSUME NEW h \in Hosts, NEW q \in Messages, Receive(h, q)
      PROVE  Receives(h, q)
  BY <1>2 DEF Receive, Receives
<1>3. ASSUME NEW h \in Hosts, Publish(h) \/ FailPublication(h)
      PROVE  GoesOn(h) \/ Ends(h) \/ UNCHANGED <<queue, step, message>>
  <2>1. CASE LoadPage(h)
    BY <2>1 DEF LoadPage, queueVars
  <2>2. CASE StageTokenStatusList(h) \/ CheckStaged(h) \/ CopyStaging(h)
    BY <2>2 DEF StageTokenStatusList, CheckStaged, CopyStaging, queueVars, GoesOn, Step
  <2>3. CASE PurgeStatusListContent(h)
    BY <2>3 DEF PurgeStatusListContent, Finish, Ends
  <2>4. CASE FailStaged(h) \/ FailPublication(h)
    BY <2>4, ReturnCases DEF FailStaged, FailPublication, Finish, Ends
  <2>5. QED
    BY <1>3, <2>1, <2>2, <2>3, <2>4 DEF Publish
<1>4. ASSUME NEW m \in Managers,
             \/ PublishInitializing(m) \/ FailSetup(m)
             \/ \E l \in StatusLists : StartSetup(m, l)
      PROVE  UNCHANGED <<queue, step, message>>
  BY <1>4 DEF PublishInitializing, FailSetup, StartSetup,
     HasValidPublishedInitializingStatusList, UploadInitializingStatusList,
     CheckPublishedAndOpen, queueVars, hostVars
<1>5. ASSUME NEW l \in StatusLists,
             \/ OpenInAnotherRun(l) \/ SealStatusList(l)
             \/ CacheBlob(l) \/ DropFromCache(l)
             \/ \E p \in PageIndex : RevokeBit(l, p)
      PROVE  UNCHANGED <<queue, step, message>>
  BY <1>5 DEF OpenInAnotherRun, SealStatusList, CacheBlob, DropFromCache, RevokeBit, queueVars, hostVars
<1>6. CASE UNCHANGED vars
  BY <1>6 DEF vars, queueVars, hostVars
<1>7. QED
  BY <1>1, <1>2, <1>3, <1>4, <1>5, <1>6 DEF Next, ReceiveAny

(* A message that is handled is in the queue.                              *)
LEMMA HandledIsNotFree ==
  ASSUME TypeOK, HandlersInv, NEW h \in Hosts, step[h] # "idle"
  PROVE  ~Free(message[h]) /\ message[h] \in Messages /\ Handled(message[h])
BY SizesAssumption DEF TypeOK, HandlersInv, ListOf, Free, NoMessage, Handled

(* As long as a host handles its message, nobody changes it.               *)
LEMMA HandledStays ==
  ASSUME TypeOK, HandlersInv, [Next]_vars, NEW h \in Hosts,
         step[h] # "idle", step'[h] # "idle"
  PROVE  /\ message'[h] = message[h]
         /\ queue'[message[h]] = queue[message[h]]
<1>1. ~Free(message[h]) /\ message[h] \in Messages /\ Handled(message[h])
  BY HandledIsNotFree
<1>2. ASSUME NEW l \in StatusLists, Enqueues(l)
      PROVE  message'[h] = message[h] /\ queue'[message[h]] = queue[message[h]]
  BY <1>1, <1>2 DEF Enqueues, Enqueue
<1>3. ASSUME NEW g \in Hosts, GoesOn(g)
      PROVE  message'[h] = message[h] /\ queue'[message[h]] = queue[message[h]]
  BY <1>3 DEF GoesOn
<1>4. ASSUME NEW g \in Hosts, Ends(g)
      PROVE  message'[h] = message[h] /\ queue'[message[h]] = queue[message[h]]
  <2>1. g # h
    BY <1>4 DEF Ends, Goto, TypeOK
  <2>2. message[g] # message[h]
    BY <1>4, <2>1 DEF Ends, HandlersInv
  <2>3. QED
    BY <1>1, <1>4, <2>1, <2>2 DEF Ends, TypeOK
<1>5. ASSUME NEW g \in Hosts, NEW q \in Messages, Receives(g, q)
      PROVE  message'[h] = message[h] /\ queue'[message[h]] = queue[message[h]]
  <2>1. g # h /\ q # message[h]
    BY <1>1, <1>5 DEF Receives
  <2>2. QED
    BY <1>1, <1>5, <2>1 DEF Receives, TypeOK
<1>6. QED
  BY <1>2, <1>3, <1>4, <1>5, QueueMoves

(* Each step keeps every message with one handler at most.                 *)
LEMMA StepHandlers == TypeOK /\ QueueInv /\ HandlersInv /\ [Next]_vars => HandlersInv'
<1> SUFFICES ASSUME TypeOK, QueueInv, HandlersInv, [Next]_vars,
                    NEW h \in Hosts, step'[h] # "idle"
             PROVE  /\ queue'[message'[h]].list \in StatusLists
                    /\ \A g \in Hosts \ {h} : step'[g] # "idle" => message'[g] # message'[h]
  BY DEF HandlersInv, ListOf
<1>1. ASSUME NEW g \in Hosts, NEW k \in Hosts, g # k, step[g] = "idle", step'[g] # "idle",
             step'[k] # "idle"
      PROVE  message'[g] # message'[k] /\ queue'[message'[g]].list \in StatusLists
  <2>1. PICK q \in Messages : Receives(g, q)
    BY <1>1, QueueMoves DEF Enqueues, GoesOn, Ends, Receives, Goto, TypeOK
  <2>2. message'[g] = q /\ ~Handled(q) /\ queue'[q].list = queue[q].list
        /\ queue[q].list \in StatusLists
    BY <2>1 DEF Receives, TypeOK, QueueInv
  <2>3. step[k] # "idle" /\ message'[k] = message[k]
    BY <1>1, <2>1 DEF Receives, Goto, TypeOK
  <2>4. QED
    BY <2>2, <2>3 DEF Handled
<1>2. queue'[message'[h]].list \in StatusLists
  <2>1. CASE step[h] = "idle"
    <3>1. PICK q \in Messages : Receives(h, q)
      BY <2>1, QueueMoves DEF Enqueues, GoesOn, Ends, Receives, Goto, TypeOK
    <3>2. message'[h] = q /\ queue'[q].list = queue[q].list
          /\ queue[q].list \in StatusLists
      BY <3>1 DEF Receives, TypeOK, QueueInv
    <3>3. QED
      BY <3>2
  <2>2. CASE step[h] # "idle"
    BY <2>2, HandledStays DEF HandlersInv, ListOf
  <2>3. QED
    BY <2>1, <2>2
<1>3. ASSUME NEW g \in Hosts, g # h, step'[g] # "idle"
      PROVE  message'[g] # message'[h]
  <2>1. CASE step[g] # "idle" /\ step[h] # "idle"
    BY <1>3, <2>1, HandledStays DEF HandlersInv
  <2>2. QED
    BY <1>1, <1>3, <2>1
<1>4. QED
  BY <1>2, <1>3

(* Each step leaves waiting messages an attempt.                           *)
LEMMA StepQueue == TypeOK /\ QueueInv /\ HandlersInv /\ [Next]_vars => QueueInv'
<1> SUFFICES ASSUME TypeOK, QueueInv, HandlersInv, [Next]_vars, NEW q \in Messages
             PROVE  /\ queue'[q].list = NoList => queue'[q] = NoMessage
                    /\ queue'[q] # NoMessage /\ ~Handled(q)' =>
                         queue'[q].count < MaxDequeueCount
  BY DEF QueueInv, Free
<1> DEFINE Good == /\ queue'[q].list = NoList => queue'[q] = NoMessage
                   /\ queue'[q] # NoMessage /\ ~Handled(q)' =>
                         queue'[q].count < MaxDequeueCount
<1>1. /\ queue[q] \in [list : StatusLists \cup {NoList}, count : 0..MaxDequeueCount]
      /\ queue[q].list = NoList => queue[q] = NoMessage
      /\ queue[q] # NoMessage /\ ~Handled(q) => queue[q].count < MaxDequeueCount
  BY DEF TypeOK, QueueInv, Free
<1>2. ASSUME queue'[q] = queue[q], Handled(q) => Handled(q)' PROVE Good
  BY <1>1, <1>2
<1>3. ASSUME NEW l \in StatusLists, Enqueues(l) PROVE Good
  <2>1. queue'[q] = queue[q] \/ queue'[q] = [list |-> l, count |-> 0]
    BY <1>3 DEF Enqueues, Enqueue
  <2>2. Handled(q) => Handled(q)'
    BY <1>3 DEF Enqueues, Handled
  <2>3. queue'[q] = [list |-> l, count |-> 0] => Good
    BY SizesAssumption
  <2>4. QED
    BY <1>2, <2>1, <2>2, <2>3
<1>4. ASSUME NEW h \in Hosts, GoesOn(h) PROVE Good
  <2>1. Handled(q) => Handled(q)'
    BY <1>4 DEF GoesOn, Handled, Goto, TypeOK
  <2>2. QED
    BY <1>2, <1>4, <2>1 DEF GoesOn
<1>5. ASSUME NEW h \in Hosts, Ends(h) PROVE Good
  <2>1. CASE q = message[h]
    <3>1. queue'[q] = NoMessage
          \/ (queue'[q] = queue[q] /\ queue[q].count # MaxDequeueCount)
      BY <1>5, <2>1 DEF Ends, TypeOK
    <3>2. queue[q].count \in 0..MaxDequeueCount
      BY <1>1
    <3>3. QED
      BY <1>1, <3>1, <3>2, SizesAssumption
  <2>2. CASE q # message[h]
    <3>1. queue'[q] = queue[q]
      BY <1>5, <2>2 DEF Ends, TypeOK
    <3>2. ASSUME NEW g \in Hosts, step[g] # "idle", message[g] = q
          PROVE  step'[g] # "idle" /\ message'[g] = q
      BY <1>5, <2>2, <3>2 DEF Ends, Goto, TypeOK
    <3>3. QED
      BY <1>2, <3>1, <3>2 DEF Handled
  <2>3. QED
    BY <2>1, <2>2
<1>6. ASSUME NEW h \in Hosts, NEW s \in Messages, Receives(h, s) PROVE Good
  <2>1. CASE q = s
    <3>1. Handled(q)'
      BY <1>6, <2>1 DEF Receives, Goto, Handled, TypeOK
    <3>2. queue'[q].list = queue[q].list /\ queue[q].list # NoList
      BY <1>1, <1>6, <2>1 DEF Receives, Free, TypeOK
    <3>3. QED
      BY <3>1, <3>2
  <2>2. CASE q # s
    <3>1. queue'[q] = queue[q]
      BY <1>6, <2>2 DEF Receives, TypeOK
    <3>2. ASSUME NEW g \in Hosts, step[g] # "idle", message[g] = q
          PROVE  step'[g] # "idle" /\ message'[g] = q
      BY <1>6, <3>2 DEF Receives, Goto, TypeOK
    <3>3. QED
      BY <1>2, <3>1, <3>2 DEF Handled
  <2>3. QED
    BY <2>1, <2>2
<1>7. CASE UNCHANGED <<queue, step, message>>
  BY <1>2, <1>7 DEF Handled
<1>8. QED
  BY <1>3, <1>4, <1>5, <1>6, <1>7, QueueMoves

----------------------------------------------------------------------------
(* Pages only gain bits, in lists that have been opened, which stay so.    *)
PagesGrow ==
  /\ opened \subseteq opened'
  /\ \A l \in StatusLists :
       /\ \A p \in PageIndex : pages[l][p] <= pages'[l][p]
       /\ l \notin opened => pages'[l] = pages[l]

(* The blob of list l was written: by a publication that copied, or by a   *)
(* provisioning.                                                           *)
Wrote(l) ==
  \/ \E h \in Hosts : Copies(h, l) /\ blob'[l] = staged[h]
  \/ \E m \in Managers : Uploads(m, l) /\ blob'[l] = EmptyToken

(* Every publication of l that was under way knows of it.                  *)
Overlaps(l) ==
  \A h \in Hosts : step[h] # "idle" /\ step'[h] # "idle" /\ ListOf(h) = l => overlapped'[h]

(* A page is a number of bits.                                             *)
LEMMA PageTypes ==
  ASSUME TypeOK, NEW l \in StatusLists, NEW p \in PageIndex
  PROVE  pages[l][p] \in Nat /\ pages[l][p] \in 0..PageBits
BY SizesAssumption DEF TypeOK, Content

(* No step takes a bit from a page.                                        *)
LEMMA StepPages == TypeOK /\ [Next]_vars => PagesGrow
<1> SUFFICES ASSUME TypeOK, [Next]_vars PROVE PagesGrow
  OBVIOUS
<1>1. ASSUME opened \subseteq opened', pages' = pages PROVE PagesGrow
  BY <1>1, PageTypes DEF PagesGrow
<1>0. UNCHANGED state => opened' = opened
  BY DEF opened
<1>2. ASSUME NEW l \in StatusLists, NEW p \in PageIndex, RevokeBit(l, p) PROVE PagesGrow
  <2>1. \A k \in StatusLists, r \in PageIndex :
          /\ pages'[k][r] = IF k = l /\ r = p THEN pages[k][r] + 1 ELSE pages[k][r]
          /\ k # l => pages'[k] = pages[k]
    BY <1>2 DEF RevokeBit, TypeOK, Content
  <2>2. l \in opened /\ opened' = opened
    BY <1>0, <1>2 DEF RevokeBit
  <2>3. QED
    BY <2>1, <2>2, PageTypes DEF PagesGrow
<1>3. ASSUME NEW h \in Hosts, Publish(h) \/ FailPublication(h) \/ ReceiveAny(h)
      PROVE  UNCHANGED <<state, pages>>
  BY <1>3 DEF Publish, FailPublication, ReceiveAny, Receive, LoadPage,
     StageTokenStatusList, CheckStaged, CopyStaging, PurgeStatusListContent, FailStaged
<1>4. ASSUME NEW m \in Managers,
             \/ PublishInitializing(m) \/ FailSetup(m)
             \/ \E l \in StatusLists : StartSetup(m, l)
      PROVE  opened \subseteq opened' /\ pages' = pages
  <2>1. setupList[m] \in StatusLists
    BY DEF TypeOK
  <2>2. pages' = pages /\ (UNCHANGED state \/ OpenStatusList(setupList[m]))
    BY <1>4 DEF PublishInitializing, FailSetup, StartSetup,
       HasValidPublishedInitializingStatusList, UploadInitializingStatusList,
       CheckPublishedAndOpen
  <2>3. QED
    BY <1>0, <2>1, <2>2, OpenType
<1>5. ASSUME NEW l \in StatusLists,
             \/ OpenInAnotherRun(l) \/ SealStatusList(l)
             \/ CacheBlob(l) \/ DropFromCache(l)
      PROVE  opened \subseteq opened' /\ pages' = pages
  <2>1. CASE OpenInAnotherRun(l)
    BY <2>1, OpenType DEF OpenInAnotherRun
  <2>2. CASE SealStatusList(l)
    BY <2>2 DEF SealStatusList, opened, TypeOK
  <2>3. CASE CacheBlob(l) \/ DropFromCache(l)
    BY <1>0, <2>3 DEF CacheBlob, DropFromCache
  <2>4. QED
    BY <1>5, <2>1, <2>2, <2>3
<1>6. ASSUME Dispatch PROVE UNCHANGED <<state, pages>>
  BY <1>6 DEF Dispatch, ListPublishable, EnqueueStatusList
<1>7. QED
  BY <1>0, <1>1, <1>2, <1>3, <1>4, <1>5, <1>6 DEF Next, vars

(* WriteBlob writes one blob, and marks the publications of that list.     *)
LEMMA WriteBlobCases ==
  ASSUME TypeOK, NEW k \in StatusLists, NEW content, NEW ended, WriteBlob(k, content, ended),
         NEW l \in StatusLists, \A h \in ended : step'[h] = "idle"
  PROVE  \/ /\ blob'[l] = blob[l]
            /\ \A h \in Hosts : step'[h] # "idle" => (overlapped[h] => overlapped'[h])
         \/ l = k /\ blob'[l] = content /\ Overlaps(l)
<1>1. blob'[l] = IF l = k THEN content ELSE blob[l]
  BY DEF WriteBlob, TypeOK
<1>2. \A h \in Hosts : step'[h] # "idle" =>
        (overlapped'[h] <=> (overlapped[h] \/ (step[h] # "idle" /\ ListOf(h) = k)))
  BY DEF WriteBlob
<1>3. QED
  BY <1>1, <1>2 DEF Overlaps

(* A blob is written only so, and never unnoticed.                         *)
LEMMA BlobMoves ==
  ASSUME TypeOK, HandlersInv, [Next]_vars, NEW l \in StatusLists
  PROVE  blob'[l] = blob[l] \/ (Wrote(l) /\ Overlaps(l))
<1>1. ASSUME blob' = blob PROVE blob'[l] = blob[l]
  BY <1>1
<1>2. ASSUME NEW h \in Hosts, Publish(h) \/ FailPublication(h), blob' # blob
      PROVE  /\ step[h] = "copying" /\ step'[h] # "copying"
             /\ ListOf(h) \in StatusLists
             /\ \E ended \in SUBSET {h} :
                  /\ WriteBlob(ListOf(h), staged[h], ended)
                  /\ \A g \in ended : step'[g] = "idle"
  <2>1. CASE CopyStaging(h)
    <3>1. WriteBlob(ListOf(h), staged[h], {}) /\ step[h] = "copying"
      BY <2>1 DEF CopyStaging
    <3>2. step'[h] = "purging"
      BY <2>1 DEF CopyStaging, Goto, TypeOK
    <3>3. QED
      BY <3>1, <3>2 DEF HandlersInv
  <2>2. CASE FailPublication(h)
    <3>1. WriteBlob(ListOf(h), staged[h], {h}) /\ step[h] = "copying"
      BY <1>2, <2>2 DEF FailPublication
    <3>2. step'[h] = "idle"
      BY <2>2 DEF FailPublication, Finish, Goto, TypeOK
    <3>3. QED
      BY <3>1, <3>2 DEF HandlersInv
  <2>3. QED
    BY <1>2, <2>1, <2>2 DEF Publish, LoadPage, StageTokenStatusList, CheckStaged,
       PurgeStatusListContent, FailStaged
<1>3. ASSUME NEW h \in Hosts, Publish(h) \/ FailPublication(h), blob' # blob
      PROVE  blob'[l] = blob[l] \/ (Wrote(l) /\ Overlaps(l))
  <2>1. PICK ended \in SUBSET {h} :
          /\ WriteBlob(ListOf(h), staged[h], ended)
          /\ \A g \in ended : step'[g] = "idle"
    BY <1>2, <1>3
  <2>2. blob'[l] = blob[l] \/ (l = ListOf(h) /\ blob'[l] = staged[h] /\ Overlaps(l))
    BY <1>2, <1>3, <2>1, WriteBlobCases
  <2>3. QED
    BY <1>2, <1>3, <2>2 DEF Wrote, Copies
<1>4. ASSUME NEW m \in Managers, blob' # blob,
             \/ PublishInitializing(m) \/ FailSetup(m)
             \/ \E k \in StatusLists : StartSetup(m, k)
      PROVE  blob'[l] = blob[l] \/ (Wrote(l) /\ Overlaps(l))
  <2>1. /\ setup[m] = "uploading" /\ WriteBlob(setupList[m], EmptyToken, {})
        /\ setup'[m] # "uploading"
    BY <1>4 DEF PublishInitializing, FailSetup, StartSetup, SetupAt, TypeOK,
       HasValidPublishedInitializingStatusList, UploadInitializingStatusList,
       CheckPublishedAndOpen
  <2>2. setupList[m] \in StatusLists
    BY DEF TypeOK
  <2>3. blob'[l] = blob[l] \/ (l = setupList[m] /\ blob'[l] = EmptyToken /\ Overlaps(l))
    BY <2>1, <2>2, WriteBlobCases
  <2>4. QED
    BY <2>1, <2>3 DEF Wrote, Uploads
<1>5. ASSUME NEW k \in StatusLists,
             \/ OpenInAnotherRun(k) \/ SealStatusList(k)
             \/ CacheBlob(k) \/ DropFromCache(k)
             \/ \E p \in PageIndex : RevokeBit(k, p)
      PROVE  blob' = blob
  BY <1>5 DEF OpenInAnotherRun, SealStatusList, CacheBlob, DropFromCache, RevokeBit
<1>6. ASSUME Dispatch \/ \E h \in Hosts : ReceiveAny(h) PROVE blob' = blob
  BY <1>6 DEF Dispatch, ListPublishable, EnqueueStatusList, ReceiveAny, Receive
<1>7. QED
  BY <1>1, <1>3, <1>4, <1>5, <1>6 DEF Next, vars

(* A publication that was overtaken stays overtaken until it ends.         *)
LEMMA OverlapStays ==
  ASSUME TypeOK, HandlersInv, [Next]_vars, NEW h \in Hosts,
         step[h] # "idle", step'[h] # "idle", overlapped[h]
  PROVE  overlapped'[h]
<1>1. ASSUME NEW g \in Hosts, ForgetOverlap(g), Goto(g, "idle") PROVE overlapped'[h]
  BY <1>1 DEF ForgetOverlap, Goto, TypeOK
<1>2. ASSUME NEW k, NEW content, NEW ended, WriteBlob(k, content, ended),
             \A g \in ended : step'[g] = "idle"
      PROVE  overlapped'[h]
  BY <1>2 DEF WriteBlob
<1>3. ASSUME NEW g \in Hosts, Publish(g) \/ FailPublication(g) \/ ReceiveAny(g)
      PROVE  overlapped'[h]
  <2>1. CASE CopyStaging(g)
    BY <1>2, <2>1 DEF CopyStaging
  <2>2. CASE FailPublication(g)
    <3>1. Goto(g, "idle") /\ step'[g] = "idle"
      BY <2>2 DEF FailPublication, Finish, Goto, TypeOK
    <3>2. QED
      BY <1>1, <1>2, <2>2, <3>1 DEF FailPublication
  <2>3. CASE PurgeStatusListContent(g) \/ FailStaged(g)
    BY <1>1, <2>3 DEF PurgeStatusListContent, FailStaged, Finish
  <2>4. QED
    BY <1>3, <2>1, <2>2, <2>3 DEF Publish, LoadPage, StageTokenStatusList, CheckStaged,
       ReceiveAny, Receive
<1>4. ASSUME NEW m \in Managers,
             \/ PublishInitializing(m) \/ FailSetup(m)
             \/ \E k \in StatusLists : StartSetup(m, k)
      PROVE  overlapped'[h]
  BY <1>2, <1>4 DEF PublishInitializing, FailSetup, StartSetup,
     HasValidPublishedInitializingStatusList, UploadInitializingStatusList,
     CheckPublishedAndOpen
<1>5. ASSUME NEW k \in StatusLists,
             \/ OpenInAnotherRun(k) \/ SealStatusList(k)
             \/ CacheBlob(k) \/ DropFromCache(k)
             \/ \E p \in PageIndex : RevokeBit(k, p)
      PROVE  overlapped' = overlapped
  BY <1>5 DEF OpenInAnotherRun, SealStatusList, CacheBlob, DropFromCache, RevokeBit
<1>6. ASSUME Dispatch PROVE overlapped' = overlapped
  BY <1>6 DEF Dispatch, ListPublishable, EnqueueStatusList
<1>7. QED
  BY <1>3, <1>4, <1>5, <1>6 DEF Next, vars

----------------------------------------------------------------------------
(* What a step may do to the pages host h has loaded.                      *)
TokenMoves(h) ==
  \/ UNCHANGED <<step[h], token[h], staged[h]>>
  \/ step[h] = "idle" /\ step'[h] = "loading" /\ token'[h] = token[h]
  \/ LoadPage(h)
  \/ /\ step[h] = "loading" /\ IsLoaded(h) /\ step'[h] = "checking"
     /\ token'[h] = token[h]
  \/ /\ step[h] = "checking" /\ step'[h] \in {"copying", "failing"}
     /\ UNCHANGED <<token[h], staged[h]>>
     /\ step'[h] = "copying" => staged[h] = token[h]
  \/ step'[h] \in {"purging", "idle"} /\ token'[h] = NoToken

(* No step does anything else to them.                                     *)
LEMMA StepTokenMoves ==
  ASSUME TypeOK, [Next]_vars, NEW h \in Hosts
  PROVE  TokenMoves(h)
<1>1. ASSUME UNCHANGED <<step, token, staged>> PROVE TokenMoves(h)
  BY <1>1 DEF TokenMoves
<1>2. ASSUME NEW g \in Hosts, Publish(g) \/ FailPublication(g) \/ ReceiveAny(g), g # h
      PROVE  UNCHANGED <<step[h], token[h], staged[h]>>
  BY <1>2 DEF Publish, FailPublication, ReceiveAny, Receive, LoadPage, TypeOK, Goto,
     StageTokenStatusList, CheckStaged, CopyStaging, PurgeStatusListContent, FailStaged, Finish
<1>3. CASE Publish(h) \/ FailPublication(h) \/ ReceiveAny(h)
  <2>1. CASE ReceiveAny(h)
    BY <2>1 DEF ReceiveAny, Receive, Goto, TypeOK, TokenMoves
  <2>2. CASE LoadPage(h)
    BY <2>2 DEF TokenMoves
  <2>3. CASE StageTokenStatusList(h)
    BY <2>3 DEF StageTokenStatusList, Goto, TypeOK, TokenMoves
  <2>4. CASE CheckStaged(h)
    BY <2>4 DEF CheckStaged, Goto, TypeOK, TokenMoves
  <2>5. CASE CopyStaging(h)
    BY <2>5 DEF CopyStaging, Goto, TypeOK, TokenMoves
  <2>6. CASE PurgeStatusListContent(h) \/ FailStaged(h) \/ FailPublication(h)
    <3>1. Finish(h)
      BY <2>6 DEF PurgeStatusListContent, FailStaged, FailPublication
    <3>2. QED
      BY <3>1 DEF Finish, Goto, TypeOK, TokenMoves
  <2>7. QED
    BY <1>3, <2>1, <2>2, <2>3, <2>4, <2>5, <2>6 DEF Publish
<1>4. ASSUME NEW m \in Managers,
             \/ PublishInitializing(m) \/ FailSetup(m)
             \/ \E k \in StatusLists : StartSetup(m, k)
      PROVE  UNCHANGED <<step, token, staged>>
  BY <1>4 DEF PublishInitializing, FailSetup, StartSetup,
     HasValidPublishedInitializingStatusList, UploadInitializingStatusList,
     CheckPublishedAndOpen, hostVars
<1>5. ASSUME NEW k \in StatusLists,
             \/ OpenInAnotherRun(k) \/ SealStatusList(k)
             \/ CacheBlob(k) \/ DropFromCache(k)
             \/ \E p \in PageIndex : RevokeBit(k, p)
      PROVE  UNCHANGED <<step, token, staged>>
  BY <1>5 DEF OpenInAnotherRun, SealStatusList, CacheBlob, DropFromCache, RevokeBit, hostVars
<1>6. ASSUME Dispatch PROVE UNCHANGED <<step, token, staged>>
  BY <1>6 DEF Dispatch, ListPublishable, EnqueueStatusList, hostVars
<1>7. CASE UNCHANGED vars
  BY <1>1, <1>7 DEF vars, hostVars
<1>8. QED
  BY <1>1, <1>2, <1>3, <1>4, <1>5, <1>6, <1>7 DEF Next, TokenMoves

(* A page that was loaded and is kept stays between the blob and the page  *)
(* of the list.                                                            *)
LEMMA LoadedStays ==
  ASSUME PublicationInv, [Next]_vars, NEW h \in Hosts,
         step[h] # "idle", step'[h] # "idle", NEW p \in PageIndex, token[h][p] # NotLoaded
  PROVE  /\ token[h][p] <= pages'[ListOf(h)'][p]
         /\ ~overlapped'[h] /\ blob'[ListOf(h)'] # NoToken =>
              blob'[ListOf(h)'][p] <= token[h][p]
<1> DEFINE l == ListOf(h)
<1>1. ListOf(h)' = l /\ l \in StatusLists
  BY HandledStays DEF PublicationInv, HandlersInv, ListOf
<1>2. /\ token[h][p] \in Nat /\ pages[l][p] \in Nat /\ pages'[l][p] \in Nat
  <2>1. token[h] \in Loading
    BY DEF PublicationInv, TypeOK
  <2>2. token[h][p] \in Nat
    BY <2>1, SizesAssumption DEF Loading, NotLoaded
  <2>3. pages'[l][p] \in Nat
    BY <1>1, StepType, SizesAssumption DEF TypeOK, Content
  <2>4. QED
    BY <1>1, <2>2, <2>3, PageTypes DEF PublicationInv
<1>3. /\ token[h][p] <= pages[l][p]
      /\ ~overlapped[h] /\ blob[l] # NoToken => blob[l][p] <= token[h][p]
  BY DEF PublicationInv, TokensInv, TokenHolds
<1>4. pages[l][p] <= pages'[l][p]
  BY <1>1, StepPages DEF PublicationInv, PagesGrow
<1>5. ~overlapped'[h] => blob'[l] = blob[l] /\ ~overlapped[h]
  BY <1>1, BlobMoves, OverlapStays DEF PublicationInv, Overlaps
<1>6. QED
  BY <1>1, <1>2, <1>3, <1>4, <1>5

(* Each step keeps what is known of the loaded pages: a page is loaded as  *)
(* it is now, and the blob shows no more than that.                        *)
LEMMA StepTokens == PublicationInv /\ [Next]_vars => TokensInv'
<1> SUFFICES ASSUME PublicationInv, [Next]_vars, NEW h \in Hosts PROVE TokenHolds(h)'
  BY DEF TokensInv
<1>1. TypeOK /\ TypeOK' /\ HandlersInv /\ TokenHolds(h) /\ BlobsInv
  BY StepType DEF PublicationInv, TokensInv
<1>2. /\ step'[h] \in {"idle", "purging"} => token'[h] = NoToken
      /\ step'[h] \in {"checking", "copying", "failing"} => IsLoaded(h)'
      /\ step'[h] = "copying" => staged'[h] = token'[h]
  <2>1. CASE LoadPage(h)
    BY <1>1, <2>1 DEF LoadPage
  <2>2. CASE ~LoadPage(h)
    BY <1>1, <2>2, StepTokenMoves DEF TokenMoves, TokenHolds, IsLoaded
  <2>3. QED
    BY <2>1, <2>2
<1>3. ASSUME NEW p \in PageIndex, token'[h][p] # NotLoaded
      PROVE  /\ token'[h][p] <= pages'[ListOf(h)'][p]
             /\ ~overlapped'[h] /\ blob'[ListOf(h)'] # NoToken =>
                  blob'[ListOf(h)'][p] <= token'[h][p]
  <2>1. token'[h] # NoToken
    BY <1>3 DEF NoToken
  <2>2. CASE token'[h] = token[h]
    <3>1. step[h] # "idle" /\ step'[h] # "idle"
      BY <1>1, <1>2, <2>1, <2>2 DEF TokenHolds
    <3>2. QED
      BY <1>3, <2>2, <3>1, LoadedStays
  <2>3. CASE LoadPage(h)
    <3>1. PICK r \in PageIndex : token' = [token EXCEPT ![h][r] = pages[ListOf(h)][r]]
      BY <2>3 DEF LoadPage
    <3>2. step[h] # "idle" /\ step'[h] # "idle" /\ UNCHANGED <<pages, blob, overlapped>>
          /\ ListOf(h)' = ListOf(h) /\ ListOf(h) \in StatusLists
      BY <1>1, <2>3 DEF LoadPage, queueVars, ListOf, HandlersInv
    <3>3. CASE p = r
      <4>1. token'[h][p] = pages[ListOf(h)][p]
        BY <1>1, <3>1, <3>3 DEF TypeOK, Loading
      <4>2. blob[ListOf(h)] # NoToken => blob[ListOf(h)][p] <= pages[ListOf(h)][p]
        BY <1>1, <3>2 DEF BlobsInv, AtMost
      <4>3. pages[ListOf(h)][p] \in Nat
        BY <1>1, <3>2, PageTypes
      <4>4. QED
        BY <3>2, <4>1, <4>2, <4>3
    <3>4. CASE p # r
      <4>1. token'[h][p] = token[h][p]
        BY <1>1, <3>1, <3>4 DEF TypeOK, Loading
      <4>2. QED
        BY <1>3, <3>2, <4>1, LoadedStays
    <3>5. QED
      BY <3>3, <3>4
  <2>4. QED
    BY <2>1, <2>2, <2>3, StepTokenMoves, <1>1 DEF TokenMoves
<1>4. QED
  BY <1>2, <1>3 DEF TokenHolds

(* The CDN keeps its copy, drops it, or takes that of the blob.            *)
LEMMA StepCdn ==
  ASSUME TypeOK, [Next]_vars, NEW l \in StatusLists
  PROVE  cdn'[l] \in {cdn[l], NoToken, blob[l]}
<1>1. ASSUME NEW k \in StatusLists, CacheBlob(k) \/ DropFromCache(k)
      PROVE  cdn'[l] \in {cdn[l], NoToken, blob[l]}
  BY <1>1 DEF CacheBlob, DropFromCache, TypeOK
<1>2. ASSUME NEW h \in Hosts, Publish(h) \/ FailPublication(h) \/ ReceiveAny(h)
      PROVE  cdn' = cdn
  BY <1>2 DEF Publish, FailPublication, ReceiveAny, Receive, LoadPage,
     StageTokenStatusList, CheckStaged, CopyStaging, PurgeStatusListContent, FailStaged
<1>3. ASSUME NEW m \in Managers,
             \/ PublishInitializing(m) \/ FailSetup(m)
             \/ \E k \in StatusLists : StartSetup(m, k)
      PROVE  cdn' = cdn
  BY <1>3 DEF PublishInitializing, FailSetup, StartSetup,
     HasValidPublishedInitializingStatusList, UploadInitializingStatusList,
     CheckPublishedAndOpen
<1>4. ASSUME NEW k \in StatusLists,
             \/ OpenInAnotherRun(k) \/ SealStatusList(k)
             \/ \E p \in PageIndex : RevokeBit(k, p)
      PROVE  cdn' = cdn
  BY <1>4 DEF OpenInAnotherRun, SealStatusList, RevokeBit
<1>5. ASSUME Dispatch PROVE cdn' = cdn
  BY <1>5 DEF Dispatch, ListPublishable, EnqueueStatusList
<1>6. QED
  BY <1>1, <1>2, <1>3, <1>4, <1>5 DEF Next, vars

(* What a list showed in time it goes on showing in truth, as pages only   *)
(* grow.                                                                   *)
LEMMA AtMostGoesOn ==
  ASSUME TypeOK, TypeOK', PagesGrow, NEW l \in StatusLists,
         NEW t \in Content, AtMost(t, pages[l])
  PROVE  AtMost(t, pages'[l])
<1> SUFFICES ASSUME NEW p \in PageIndex PROVE t[p] <= pages'[l][p]
  BY DEF AtMost
<1>1. t[p] \in Nat /\ pages[l][p] \in Nat /\ pages'[l][p] \in Nat
  BY SizesAssumption DEF TypeOK, Content
<1>2. t[p] <= pages[l][p] /\ pages[l][p] <= pages'[l][p]
  BY DEF AtMost, PagesGrow
<1>3. QED
  BY <1>1, <1>2

(* An empty token shows nothing that is not set.                           *)
LEMMA EmptyIsLeast ==
  ASSUME TypeOK, NEW l \in StatusLists
  PROVE  AtMost(EmptyToken, pages[l])
BY PageTypes DEF AtMost, EmptyToken

(* Each step keeps the blobs and the copies at most at the pages.          *)
LEMMA StepBlobs == PublicationInv /\ [Next]_vars => BlobsInv'
<1> SUFFICES ASSUME PublicationInv, [Next]_vars, NEW l \in StatusLists
             PROVE  /\ blob'[l] # NoToken => AtMost(blob'[l], pages'[l])
                    /\ cdn'[l] # NoToken => AtMost(cdn'[l], pages'[l])
                    /\ l \notin opened' => pages'[l] = EmptyToken
  BY DEF BlobsInv, AtMost
<1>1. TypeOK /\ TypeOK' /\ HandlersInv /\ TokensInv /\ BlobsInv /\ PagesGrow
  BY StepType, StepPages DEF PublicationInv
<1>2. ASSUME NEW t \in Content \cup {NoToken}, t # NoToken, AtMost(t, pages[l])
      PROVE  AtMost(t, pages'[l])
  BY <1>1, <1>2, AtMostGoesOn
<1>3. blob[l] # NoToken => AtMost(blob[l], pages'[l])
  BY <1>1, <1>2 DEF BlobsInv, TypeOK
<1>4. ASSUME Wrote(l) PROVE AtMost(blob'[l], pages'[l])
  <2>1. ASSUME NEW h \in Hosts, step[h] = "copying", ListOf(h) = l, blob'[l] = staged[h]
        PROVE  AtMost(blob'[l], pages'[l])
    <3>1. IsLoaded(h) /\ blob'[l] = token[h]
      BY <1>1, <2>1 DEF TokensInv, TokenHolds
    <3>2. token[h] \in Content
      BY <1>1, <3>1, LoadedIsContent
    <3>3. AtMost(token[h], pages[l])
      BY <1>1, <2>1, <3>1 DEF AtMost, IsLoaded, TokensInv, TokenHolds
    <3>4. QED
      BY <1>1, <3>1, <3>2, <3>3, AtMostGoesOn
  <2>2. AtMost(EmptyToken, pages'[l])
    BY <1>1, EmptyIsLeast, AtMostGoesOn, Tokens
  <2>3. QED
    BY <1>4, <2>1, <2>2 DEF Wrote, Copies
<1>5. blob'[l] # NoToken => AtMost(blob'[l], pages'[l])
  BY <1>1, <1>3, <1>4, BlobMoves
<1>6. cdn'[l] # NoToken => AtMost(cdn'[l], pages'[l])
  <2>1. cdn[l] # NoToken => AtMost(cdn[l], pages'[l])
    BY <1>1, <1>2 DEF BlobsInv, TypeOK
  <2>2. QED
    BY <1>1, <1>3, <2>1, StepCdn
<1>7. l \notin opened' => pages'[l] = EmptyToken
  BY <1>1 DEF PagesGrow, BlobsInv
<1>8. QED
  BY <1>5, <1>6, <1>7

----------------------------------------------------------------------------
(* The invariant holds initially.                                          *)
LEMMA InitPublication == Init => PublicationInv
<1> SUFFICES ASSUME Init PROVE PublicationInv
  OBVIOUS
<1>1. QueueInv
  BY DEF Init, QueueInv, Free, NoMessage
<1>2. HandlersInv
  BY DEF Init, HandlersInv
<1>3. TokensInv
  BY DEF Init, TokensInv, TokenHolds, NoToken
<1>4. BlobsInv
  BY DEF Init, BlobsInv, opened
<1>5. QED
  BY <1>1, <1>2, <1>3, <1>4, InitType DEF PublicationInv

(* Each step keeps the invariant.                                          *)
LEMMA StepPublication == PublicationInv /\ [Next]_vars => PublicationInv'
BY StepType, StepQueue, StepHandlers, StepTokens, StepBlobs DEF PublicationInv

(* The invariant holds in every reachable state.                           *)
THEOREM PublicationCorrect == Spec => []PublicationInv
BY InitPublication, StepPublication, PTL DEF Spec

(* A verifier is shown a whole token or none, whatever was staged, copied  *)
(* late or cached, and no index is shown as revoked that is not.           *)
THEOREM PublicationServedBitsAreSet == Spec => []ServedBitsAreSet
<1>1. PublicationInv => ServedBitsAreSet
  BY DEF PublicationInv, BlobsInv, ServedBitsAreSet, Served
<1>2. QED
  BY <1>1, PublicationCorrect, PTL

(* A blob that loses a bit is written by a publication that knows it was   *)
(* overtaken, or by a provisioning of that list, opened meanwhile.         *)
LEMMA StepTakesBack ==
  ASSUME PublicationInv, [Next]_vars, NEW l \in StatusLists,
         blob[l] # NoToken, ~AtMost(blob[l], blob'[l])
  PROVE  \/ \E h \in Hosts : Copies(h, l) /\ overlapped[h]
         \/ \E m \in Managers : Uploads(m, l) /\ l \in opened
<1>1. TypeOK /\ HandlersInv /\ TokensInv /\ BlobsInv
  BY DEF PublicationInv
<1>2. AtMost(blob[l], blob[l])
  <2>1. blob[l] \in Content
    BY <1>1 DEF TypeOK
  <2>2. QED
    BY <2>1, SizesAssumption DEF AtMost, Content
<1>3. Wrote(l)
  BY <1>1, <1>2, BlobMoves
<1>4. ASSUME NEW h \in Hosts, Copies(h, l), blob'[l] = staged[h], ~overlapped[h]
      PROVE  FALSE
  <2>1. IsLoaded(h) /\ blob'[l] = token[h]
    BY <1>1, <1>4 DEF Copies, TokensInv, TokenHolds
  <2>2. AtMost(blob[l], token[h])
    BY <1>1, <1>4, <2>1 DEF Copies, AtMost, IsLoaded, TokensInv, TokenHolds
  <2>3. QED
    BY <2>1, <2>2
<1>5. ASSUME blob'[l] = EmptyToken, l \notin opened
      PROVE  FALSE
  BY <1>1, <1>5 DEF BlobsInv
<1>6. QED
  BY <1>3, <1>4, <1>5 DEF Wrote

(* Publications one after the other only add revocations to what a blob    *)
(* shows.                                                                  *)
THEOREM PublicationTakesBackOnlyWhenOvertaken == Spec => TakesBackOnlyWhenOvertaken
<1>1. PublicationInv /\ [Next]_vars =>
        [\A l \in StatusLists :
           blob[l] # NoToken /\ ~AtMost(blob[l], blob'[l]) =>
             \/ \E h \in Hosts : Copies(h, l) /\ overlapped[h]
             \/ \E m \in Managers : Uploads(m, l) /\ l \in opened]_vars
  BY StepTakesBack
<1>2. QED
  BY <1>1, PublicationCorrect, PTL DEF Spec, TakesBackOnlyWhenOvertaken

----------------------------------------------------------------------------
(* Freshness: ExpiryIsAnnounced for all durations that fit, all delays and *)
(* any number of CDN nodes.  While the monitor is content the token in the *)
(* blob is young (BlobIsYoung), because what a node has shown is not much  *)
(* younger than the blob (CopiesAreNotYounger); and a copy was taken from  *)
(* such a blob, or an alarm is about as old as it (CopiesWereYoung).       *)

(* The age at which the monitor complains.                                 *)
Limit == JwtDuration - MinimumValidity
(* Ticks since the monitor last asked.                                     *)
Since == IF monitored THEN 0 ELSE 1

(* The monitor has just complained, or the token in the blob is young.     *)
BlobIsYoung ==
  lastAlarm <= Since \/ blobAge <= Limit + Since

(* A copy is not much younger than the blob was when it was made.          *)
CopiesAreNotYounger ==
  \A n \in CdnNodes : IsCached(n) =>
    blobAge <= copies[n].token \/ blobAge <= MaxDelay + copies[n].copy

(* A copy was made of a young blob, or the monitor complained since.       *)
CopiesWereYoung ==
  \A n \in CdnNodes : IsCached(n) =>
    \/ lastAlarm <= copies[n].copy + 1
    \/ copies[n].token <= Limit + 1 + copies[n].copy

(* The inductive invariant.                                                *)
FreshnessInv ==
  FreshnessTypeOK /\ BlobIsYoung /\ CopiesAreNotYounger /\ CopiesWereYoung

(* What the assumption on the durations says of the limit.                 *)
LEMMA DurationsAreNat ==
  /\ JwtDuration \in Nat /\ CacheMaxAge \in Nat
  /\ MinimumValidity \in Nat /\ MaxDelay \in Nat
  /\ Old \in Nat /\ MaxDelay <= Old /\ Limit \in Nat
  /\ CacheMaxAge + MaxDelay <= Limit + 1
  /\ Limit + CacheMaxAge <= JwtDuration
  /\ Limit + 1 <= JwtDuration
BY DurationsAssumption DEF Old, Limit

(* A tick.                                                                 *)
LEMMA OlderIsAge ==
  ASSUME NEW age \in 0..Old
  PROVE  /\ Older(age) \in 0..Old
         /\ Older(age) <= age + 1
         /\ Older(age) = age + 1 \/ Older(age) = Old
BY DurationsAreNat DEF Older

(* What a purge leaves.                                                    *)
LEMMA NoCopyIsCopy ==
  /\ NoCopy \in [token : 0..Old, copy : 0..CacheMaxAge]
  /\ NoCopy.copy = CacheMaxAge
BY DurationsAreNat DEF NoCopy

(* A node that was purged shows what the blob holds.                       *)
LEMMA NoCopyIsNotCached ==
  ASSUME NEW n \in CdnNodes, copies[n] = NoCopy
  PROVE  ~IsCached(n)
BY DurationsAreNat DEF NoCopy, IsCached

USE DEF Limit

----------------------------------------------------------------------------
(* At first the blob is new and nothing is cached.                         *)
LEMMA InitFresh == FreshnessInit => FreshnessInv
<1> SUFFICES ASSUME FreshnessInit PROVE FreshnessInv
  OBVIOUS
<1>1. FreshnessTypeOK
  <2>1. copies \in [CdnNodes -> [token : 0..Old, copy : 0..CacheMaxAge]]
    BY NoCopyIsCopy, Zenon DEF FreshnessInit
  <2>2. blobAge = 0 /\ monitored = FALSE /\ lastAlarm = Old
    BY DEF FreshnessInit
  <2>3. blobAge \in 0..Old /\ lastAlarm \in 0..Old
    BY <2>2, DurationsAreNat
  <2>4. monitored \in BOOLEAN
    BY <2>2, Zenon
  <2>5. QED
    BY <2>1, <2>3, <2>4, Zenon DEF FreshnessTypeOK
<1>2. \A n \in CdnNodes : ~IsCached(n)
  BY NoCopyIsNotCached DEF FreshnessInit
<1>3. QED
  BY <1>1, <1>2, DurationsAreNat
  DEF FreshnessInit, FreshnessInv, BlobIsYoung, CopiesAreNotYounger, CopiesWereYoung, Since

(* A publication makes the blob younger, by no more than a delay allows.   *)
LEMMA PublishKeepsFresh ==
  FreshnessInv /\ PublishStatusList => FreshnessInv'
<1> SUFFICES ASSUME FreshnessInv, PublishStatusList PROVE FreshnessInv'
  OBVIOUS
<1> USE DEF FreshnessInv
<1>1. PICK delay \in 0..MaxDelay : blobAge' = delay
  BY DEF PublishStatusList
<1>2. /\ monitored' = monitored /\ lastAlarm' = lastAlarm
      /\ \A n \in CdnNodes : copies'[n] = copies[n] \/ copies'[n] = NoCopy
  BY DEF PublishStatusList, FreshnessTypeOK
<1>3. FreshnessTypeOK'
  BY <1>1, DurationsAreNat DEF PublishStatusList, FreshnessTypeOK, NoCopy
<1>4. BlobIsYoung'
  BY <1>1, <1>2, DurationsAreNat, DurationsAssumption DEF BlobIsYoung, Since, FreshnessTypeOK
<1>5. ASSUME NEW n \in CdnNodes, IsCached(n)'
      PROVE  copies'[n] = copies[n] /\ IsCached(n)
  BY <1>2, <1>5, DurationsAreNat DEF IsCached, NoCopy
<1>6. CopiesAreNotYounger'
  BY <1>1, <1>5, <1>3, DurationsAreNat DEF CopiesAreNotYounger, FreshnessTypeOK
<1>7. CopiesWereYoung'
  BY <1>2, <1>5 DEF CopiesWereYoung
<1>8. QED
  BY <1>3, <1>4, <1>6, <1>7

(* A fetch copies the blob, which is young or was complained about.        *)
LEMMA FetchKeepsCopies ==
  ASSUME FreshnessInv, NEW n \in CdnNodes, Fetch(n) \/ UNCHANGED copies,
         UNCHANGED blobAge, lastAlarm' = 0 \/ UNCHANGED lastAlarm
  PROVE  /\ copies' \in [CdnNodes -> [token : 0..Old, copy : 0..CacheMaxAge]]
         /\ CopiesAreNotYounger' /\ CopiesWereYoung'
<1> USE DEF FreshnessInv
<1>1. copies' \in [CdnNodes -> [token : 0..Old, copy : 0..CacheMaxAge]]
  BY DurationsAreNat DEF Fetch, FreshnessTypeOK
<1>2. ASSUME NEW m \in CdnNodes, IsCached(m)'
      PROVE  \/ copies'[m] = copies[m] /\ IsCached(m)
             \/ copies'[m] = [token |-> blobAge, copy |-> 0]
  BY <1>2 DEF Fetch, FreshnessTypeOK, IsCached
<1>3. CopiesAreNotYounger'
  BY <1>2, DurationsAreNat DEF CopiesAreNotYounger, FreshnessTypeOK
<1>4. CopiesWereYoung'
  BY <1>1, <1>2, DurationsAreNat
  DEF CopiesWereYoung, BlobIsYoung, Since, FreshnessTypeOK, IsCached
<1>5. QED
  BY <1>1, <1>3, <1>4

(* A verifier's fetch changes nothing but a copy.                          *)
LEMMA FetchKeepsFresh ==
  ASSUME FreshnessInv, NEW n \in CdnNodes, FetchByVerifier(n)
  PROVE  FreshnessInv'
<1>1. /\ copies' \in [CdnNodes -> [token : 0..Old, copy : 0..CacheMaxAge]]
      /\ CopiesAreNotYounger' /\ CopiesWereYoung'
  BY FetchKeepsCopies DEF FetchByVerifier
<1>2. QED
  BY <1>1 DEF FreshnessInv, FetchByVerifier, FreshnessTypeOK, BlobIsYoung, Since

(* A content monitor has seen a token that is young; the blob is not much  *)
(* older than that.                                                        *)
LEMMA MonitorKeepsFresh ==
  ASSUME FreshnessInv, NEW n \in CdnNodes, MonitorStatusList(n)
  PROVE  FreshnessInv'
<1> USE DEF FreshnessInv
<1>1. /\ Fetch(n) \/ UNCHANGED copies
      /\ UNCHANGED blobAge /\ monitored' = TRUE
      /\ \/ lastAlarm' = 0
         \/ HasValidExpiration(ServedAge(n)) /\ UNCHANGED lastAlarm
  BY DEF MonitorStatusList
<1>2. /\ copies' \in [CdnNodes -> [token : 0..Old, copy : 0..CacheMaxAge]]
      /\ CopiesAreNotYounger' /\ CopiesWereYoung'
  BY <1>1, FetchKeepsCopies
<1>3. FreshnessTypeOK'
  BY <1>1, <1>2, DurationsAreNat DEF FreshnessTypeOK
<1>4. HasValidExpiration(ServedAge(n)) => blobAge <= Limit
  BY DurationsAreNat
  DEF HasValidExpiration, ServedAge, CopiesAreNotYounger, IsCached, FreshnessTypeOK
<1>5. BlobIsYoung'
  BY <1>1, <1>4, DurationsAreNat DEF BlobIsYoung, Since, FreshnessTypeOK
<1>6. QED
  BY <1>2, <1>3, <1>5

(* A tick makes all of them older by one, and the monitor has run before.  *)
LEMMA TickKeepsFresh == FreshnessInv /\ Tick => FreshnessInv'
<1> SUFFICES ASSUME FreshnessInv, Tick PROVE FreshnessInv'
  OBVIOUS
<1> USE DEF FreshnessInv
<1>1. /\ monitored = TRUE /\ monitored' = FALSE
      /\ blobAge' = Older(blobAge) /\ lastAlarm' = Older(lastAlarm)
  BY DEF Tick, FreshnessTypeOK
<1>2. ASSUME NEW n \in CdnNodes
      PROVE  \/ copies'[n] = NoCopy
             \/ /\ copies[n].copy + 1 < CacheMaxAge
                /\ copies'[n] = [token |-> Older(copies[n].token),
                                copy |-> copies[n].copy + 1]
  BY DEF Tick
<1>3. /\ Older(blobAge) \in 0..Old /\ Older(blobAge) <= blobAge + 1
      /\ Older(lastAlarm) \in 0..Old /\ Older(lastAlarm) <= lastAlarm + 1
  BY OlderIsAge DEF FreshnessTypeOK
<1>4. ASSUME NEW n \in CdnNodes
      PROVE  LET shown == copies[n].token
             IN /\ shown \in 0..Old /\ copies[n].copy \in 0..CacheMaxAge
                /\ Older(shown) \in 0..Old /\ Older(shown) <= shown + 1
                /\ Older(shown) = shown + 1 \/ Older(shown) = Old
  BY OlderIsAge DEF FreshnessTypeOK
<1>5. copies' \in [CdnNodes -> [token : 0..Old, copy : 0..CacheMaxAge]]
  <2>1. ASSUME NEW n \in CdnNodes
        PROVE  copies'[n] \in [token : 0..Old, copy : 0..CacheMaxAge]
    <3>1. CASE copies'[n] = NoCopy
      BY <3>1, NoCopyIsCopy
    <3>2. CASE copies'[n] # NoCopy
      <4>1. /\ copies[n].copy + 1 < CacheMaxAge
            /\ copies'[n] = [token |-> Older(copies[n].token),
                            copy |-> copies[n].copy + 1]
        BY <3>2, <1>2, Zenon
      <4>2. /\ copies[n].copy + 1 \in 0..CacheMaxAge
            /\ Older(copies[n].token) \in 0..Old
        BY <4>1, <1>4, DurationsAreNat
      <4>3. QED
        BY <4>1, <4>2
    <3>3. QED
      BY <3>1, <3>2
  <2>2. QED
    BY <2>1 DEF Tick
<1>6. FreshnessTypeOK'
  BY <1>1, <1>3, <1>5 DEF FreshnessTypeOK
<1>7. BlobIsYoung'
  BY <1>1, <1>3, DurationsAreNat DEF BlobIsYoung, Since, FreshnessTypeOK
<1>8. ASSUME NEW n \in CdnNodes, IsCached(n)'
      PROVE  /\ copies[n].copy + 1 < CacheMaxAge
             /\ copies'[n].token = Older(copies[n].token)
             /\ copies'[n].copy = copies[n].copy + 1
             /\ IsCached(n)
  <2>1. copies'[n] # NoCopy
    BY <1>8, NoCopyIsCopy, DurationsAreNat DEF IsCached
  <2>2. /\ copies[n].copy + 1 < CacheMaxAge
        /\ copies'[n].token = Older(copies[n].token)
        /\ copies'[n].copy = copies[n].copy + 1
    <3>1. /\ copies[n].copy + 1 < CacheMaxAge
          /\ copies'[n] = [token |-> Older(copies[n].token),
                          copy |-> copies[n].copy + 1]
      BY <2>1, <1>2, Zenon
    <3>2. QED
      BY <3>1
  <2>3. QED
    BY <2>2, <1>4, DurationsAreNat DEF IsCached
<1>9. CopiesAreNotYounger'
  BY <1>1, <1>3, <1>4, <1>8, DurationsAreNat DEF CopiesAreNotYounger, FreshnessTypeOK
<1>10. CopiesWereYoung'
  BY <1>1, <1>3, <1>4, <1>8, DurationsAreNat DEF CopiesWereYoung, FreshnessTypeOK
<1>11. QED
  BY <1>6, <1>7, <1>9, <1>10

----------------------------------------------------------------------------
(* A token that is shown after its end is that of an old blob or copy.     *)
LEMMA FreshnessInvImplies == FreshnessInv => ExpiryIsAnnounced
BY DurationsAreNat, DurationsAssumption
DEF FreshnessInv, ExpiryIsAnnounced, BlobIsYoung, CopiesWereYoung, Since,
    ServedAge, IsCached, FreshnessTypeOK

(* Each action keeps the invariant.                                        *)
LEMMA StepKeepsFresh == FreshnessInv /\ [FreshnessNext]_freshnessVars => FreshnessInv'
<1> SUFFICES ASSUME FreshnessInv, [FreshnessNext]_freshnessVars PROVE FreshnessInv'
  OBVIOUS
<1>1. CASE PublishStatusList
  BY <1>1, PublishKeepsFresh
<1>2. ASSUME NEW n \in CdnNodes, FetchByVerifier(n) PROVE FreshnessInv'
  BY <1>2, FetchKeepsFresh
<1>3. ASSUME NEW n \in CdnNodes, MonitorStatusList(n) PROVE FreshnessInv'
  BY <1>3, MonitorKeepsFresh
<1>4. CASE Tick
  BY <1>4, TickKeepsFresh
<1>5. CASE UNCHANGED freshnessVars
  BY <1>5 DEF freshnessVars, FreshnessInv, FreshnessTypeOK, BlobIsYoung, CopiesAreNotYounger,
     CopiesWereYoung, Since, IsCached
<1>6. QED
  BY <1>1, <1>2, <1>3, <1>4, <1>5 DEF FreshnessNext

(* Freshness: all is of its type, and the three parts of the argument hold.*)
THEOREM FreshnessCorrect == FreshnessSpec => []FreshnessInv
BY InitFresh, StepKeepsFresh, PTL DEF FreshnessSpec

(* No node goes on showing an expired token without an alarm in the time a *)
(* copy is kept, whatever the durations, if a copy is not kept longer than *)
(* the validity the monitor asks for and a publication does not take long. *)
THEOREM FreshnessExpiryIsAnnounced == FreshnessSpec => []ExpiryIsAnnounced
BY FreshnessCorrect, FreshnessInvImplies, PTL
=============================================================================
