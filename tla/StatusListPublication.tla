----------------------- MODULE StatusListPublication -----------------------
(***************************************************************************)
(* The publication of the status lists: a timer enqueues a message for     *)
(* every list that has been opened, and each message makes a host load the *)
(* pages, sign them as a token, upload it aside, check it, copy it over    *)
(* the blob of the list and purge the CDN.  A list that is being           *)
(* provisioned is published empty before it is opened                      *)
(* (apps/io-wallet-user-func/src/infra/status-list-publication.ts,         *)
(* infra/handlers/status-list-publication*.ts, infra/azure/storage/*.ts).  *)
(*                                                                         *)
(* A page is the number of its bits that are 1: bits are only ever set     *)
(* (StatusListRevocation), so what a page was before is a smaller number,  *)
(* and a token is one such number for every page.                          *)
(***************************************************************************)
EXTENDS Naturals, FiniteSets

CONSTANTS
  StatusLists,
  PageCount,
  PageBits,         \* bits of a page
  Hosts,            \* publications that may be under way
  Managers,         \* provisionings of a list that may be under way
  Messages,         \* bound: messages in the queue at once
  MaxDequeueCount,  \* maxDequeueCount of host.json
  MaxFaults,        \* bound: calls that fail and hosts that stop
  NoList

ASSUME SizesAssumption ==
  /\ PageCount \in Nat \ {0} /\ PageBits \in Nat
  /\ MaxDequeueCount \in Nat \ {0} /\ MaxFaults \in Nat
  /\ NoList \notin StatusLists
  /\ StatusLists # {} /\ Messages # {}

VARIABLES
  state,        \* the state of each list in the catalog
  pages,        \* what the pages of each list contain
  blob,         \* the token in the blob of each list, or NoToken
  cdn,          \* the copy the CDN keeps of it, or NoToken
  queue,        \* the list of each message and how often it was dequeued
  dispatching,  \* the lists the dispatcher has still to enqueue
  step,         \* what each publication awaits
  message,      \* the message it handles
  token,        \* the pages it has loaded
  staged,       \* its staging blob
  setup,        \* what each provisioning awaits
  setupList,    \* the list it provisions
  faults,       \* bounded by MaxFaults
  overlapped    \* ghost: the blob was written after this one began to load

queueVars == <<queue, dispatching>>
hostVars == <<step, message, token, staged>>
setupVars == <<setup, setupList>>
vars == <<state, pages, blob, cdn, queueVars, hostVars, setupVars,
          faults, overlapped>>

----------------------------------------------------------------------------
PageIndex == 0..PageCount - 1
NotLoaded == PageBits + 1
Content == [PageIndex -> 0..PageBits]
Loading == [PageIndex -> 0..NotLoaded]
NoToken == [p \in PageIndex |-> NotLoaded]
Corrupted == [p \in PageIndex |-> PageBits + 2]   \* not what was uploaded
EmptyToken == [p \in PageIndex |-> 0]
AnyMessage == CHOOSE q \in Messages : TRUE
NoMessage == [list |-> NoList, count |-> 0]

(* The lists that have left INITIALIZING.                                  *)
opened == {l \in StatusLists : state[l] # "INITIALIZING"}

Step == {"idle", "loading", "checking", "copying", "failing", "purging"}

TypeOK ==
  /\ state \in [StatusLists -> {"INITIALIZING", "OPEN", "SEALED"}]
  /\ pages \in [StatusLists -> Content]
  /\ blob \in [StatusLists -> Content \cup {NoToken}]
  /\ cdn \in [StatusLists -> Content \cup {NoToken}]
  /\ queue \in [Messages -> [list : StatusLists \cup {NoList},
                             count : 0..MaxDequeueCount]]
  /\ dispatching \in SUBSET StatusLists
  /\ step \in [Hosts -> Step]
  /\ message \in [Hosts -> Messages]
  /\ token \in [Hosts -> Loading]
  /\ staged \in [Hosts -> Content \cup {NoToken, Corrupted}]
  /\ setup \in [Managers -> {"idle", "looking", "uploading", "fetching"}]
  /\ setupList \in [Managers -> StatusLists]
  /\ faults \in 0..MaxFaults
  /\ overlapped \in [Hosts -> BOOLEAN]

Init ==
  /\ state = [l \in StatusLists |-> "INITIALIZING"]
  /\ pages = [l \in StatusLists |-> EmptyToken]
  /\ blob = [l \in StatusLists |-> NoToken]
  /\ cdn = [l \in StatusLists |-> NoToken]
  /\ queue = [q \in Messages |-> NoMessage]
  /\ dispatching = {}
  /\ step = [h \in Hosts |-> "idle"]
  /\ message = [h \in Hosts |-> AnyMessage]
  /\ token = [h \in Hosts |-> NoToken]
  /\ staged = [h \in Hosts |-> NoToken]
  /\ setup = [m \in Managers |-> "idle"]
  /\ setupList = [m \in Managers |-> CHOOSE l \in StatusLists : TRUE]
  /\ faults = 0
  /\ overlapped = [h \in Hosts |-> FALSE]

CanFail == faults < MaxFaults
Fault == faults' = faults + 1

----------------------------------------------------------------------------
(* The dispatcher: an enqueue is tried three times and may have been       *)
(* applied each time; the failure of one list does not stop the others.    *)
\* Mutant: the lists that are sealed are forgotten.
ListOpen ==
  /\ dispatching = {}
  /\ \E l \in StatusLists : state[l] = "OPEN"
  /\ dispatching' = {l \in StatusLists : state[l] = "OPEN"}
  /\ UNCHANGED <<state, pages, blob, cdn, queue, hostVars, setupVars, faults,
                 overlapped>>

ListPublishable ==
  LET publishable == {l \in StatusLists : state[l] \in {"OPEN", "SEALED"}}
  IN /\ dispatching = {} /\ publishable # {}
     /\ dispatching' = publishable
     /\ UNCHANGED <<state, pages, blob, cdn, queue, hostVars, setupVars,
                    faults, overlapped>>

Free(q) == queue[q] = NoMessage

Enqueue(l, slots) ==
  queue' = [q \in Messages |->
    IF q \in slots THEN [list |-> l, count |-> 0] ELSE queue[q]]

EnqueueStatusList(l) ==
  /\ l \in dispatching
  /\ dispatching' = dispatching \ {l}
  /\ \E slots \in SUBSET {q \in Messages : Free(q)} :
       /\ Cardinality(slots) <= 3
       /\ Enqueue(l, slots)
       /\ IF Cardinality(slots) = 1 THEN UNCHANGED faults ELSE CanFail /\ Fault
  /\ UNCHANGED <<state, pages, blob, cdn, hostVars, setupVars,
                 overlapped>>

----------------------------------------------------------------------------
(* publishStatusList, one message at a time on each host.                  *)
Handled(q) == \E h \in Hosts : step[h] # "idle" /\ message[h] = q
ListOf(h) == queue[message[h]].list
Goto(h, s) == step' = [step EXCEPT ![h] = s]

Receive(h, q) ==
  /\ step[h] = "idle" /\ ~Free(q) /\ ~Handled(q)
  /\ queue' = [queue EXCEPT ![q].count = @ + 1]
  /\ Goto(h, "loading")
  /\ message' = [message EXCEPT ![h] = q]
  /\ UNCHANGED <<state, pages, blob, cdn, dispatching, token, staged,
                 setupVars, faults, overlapped>>

IsLoaded(h) == \A p \in PageIndex : token[h][p] # NotLoaded
IsNextPage(h, p) ==
  token[h][p] = NotLoaded /\ \A r \in 0..p - 1 : token[h][r] # NotLoaded

(* The query returns the pages by index, and may take several round trips. *)
LoadPage(h) ==
  /\ step[h] = "loading"
  /\ \E p \in PageIndex :
       /\ IsNextPage(h, p)
       /\ token' = [token EXCEPT ![h][p] = pages[ListOf(h)][p]]
  /\ UNCHANGED <<state, pages, blob, cdn, queueVars, step, message,
                 staged, setupVars, faults, overlapped>>

(* signTokenStatusList, and the upload to .staging.                        *)
StageTokenStatusList(h) ==
  /\ step[h] = "loading" /\ IsLoaded(h)
  /\ Goto(h, "checking")
  /\ \/ staged' = [staged EXCEPT ![h] = token[h]] /\ UNCHANGED faults
     \/ staged' = [staged EXCEPT ![h] = Corrupted] /\ CanFail /\ Fault
  /\ UNCHANGED <<state, pages, blob, cdn, queueVars, message, token,
                 setupVars, overlapped>>

\* Mutant: the staged token is not compared with the signed one.
CheckNothing(h) ==
  /\ step[h] = "checking"
  /\ Goto(h, "copying")
  /\ UNCHANGED <<state, pages, blob, cdn, queueVars, message, token,
                 staged, setupVars, faults, overlapped>>

CheckStaged(h) ==
  /\ step[h] = "checking"
  /\ Goto(h, IF staged[h] = token[h] THEN "copying" ELSE "failing")
  /\ UNCHANGED <<state, pages, blob, cdn, queueVars, message, token,
                 staged, setupVars, faults, overlapped>>

WriteBlob(l, content, ended) ==
  /\ blob' = [blob EXCEPT ![l] = content]
  /\ overlapped' = [h \in Hosts |->
       /\ h \notin ended
       /\ overlapped[h] \/ (step[h] # "idle" /\ ListOf(h) = l)]

(* The copy, and the deletion of the staging blob whatever happened, its   *)
(* errors ignored.                                                         *)
CopyStaging(h) ==
  /\ step[h] = "copying"
  /\ WriteBlob(ListOf(h), staged[h], {})
  /\ staged' = [staged EXCEPT ![h] = NoToken]
  /\ token' = [token EXCEPT ![h] = NoToken]
  /\ Goto(h, "purging")
  /\ UNCHANGED <<state, pages, cdn, queueVars, message, setupVars,
                 faults>>

\* Mutant: the next attempt works on the pages this one has loaded.
FinishKeepingPages(h) ==
  /\ Goto(h, "idle")
  /\ staged' = [staged EXCEPT ![h] = NoToken]
  /\ message' = [message EXCEPT ![h] = AnyMessage]
  /\ UNCHANGED <<dispatching, token>>

Finish(h) ==
  /\ Goto(h, "idle")
  /\ token' = [token EXCEPT ![h] = NoToken]
  /\ staged' = [staged EXCEPT ![h] = NoToken]
  /\ message' = [message EXCEPT ![h] = AnyMessage]
  /\ UNCHANGED dispatching

ForgetOverlap(h) == overlapped' = [overlapped EXCEPT ![h] = FALSE]

(* The purge has begun; the CDN drops its copy later (DropFromCache).      *)
PurgeStatusListContent(h) ==
  /\ step[h] = "purging"
  /\ queue' = [queue EXCEPT ![message[h]] = NoMessage]
  /\ Finish(h) /\ ForgetOverlap(h)
  /\ UNCHANGED <<state, pages, blob, cdn, setupVars, faults>>

(* The message is visible again, or poison after too many attempts.        *)
ReturnMessage(h) ==
  queue' = [queue EXCEPT ![message[h]] =
    IF @.count = MaxDequeueCount THEN NoMessage ELSE @]

FailStaged(h) ==
  /\ step[h] = "failing"
  /\ ReturnMessage(h) /\ Finish(h) /\ ForgetOverlap(h)
  /\ UNCHANGED <<state, pages, blob, cdn, setupVars, faults>>

(* Any call fails, the copy applied or not, or the host stops.             *)
FailPublication(h) ==
  /\ step[h] \notin {"idle", "failing"} /\ CanFail /\ Fault
  /\ \/ step[h] = "copying" /\ WriteBlob(ListOf(h), staged[h], {h})
     \/ UNCHANGED blob /\ ForgetOverlap(h)
  /\ ReturnMessage(h) /\ Finish(h)
  /\ UNCHANGED <<state, pages, cdn, setupVars>>

----------------------------------------------------------------------------
(* publishInitializingStatusList, called by the manager for a list it      *)
(* found INITIALIZING, which other runs of the manager may open meanwhile. *)
SetupAt(m, s) == setup' = [setup EXCEPT ![m] = s]

StartSetup(m, l) ==
  /\ setup[m] = "idle" /\ state[l] = "INITIALIZING"
  /\ SetupAt(m, "looking")
  /\ setupList' = [setupList EXCEPT ![m] = l]
  /\ UNCHANGED <<state, pages, blob, cdn, queueVars, hostVars, faults,
                 overlapped>>

(* A blob that has expired, or that cannot be read, counts as none.        *)
HasValidPublishedInitializingStatusList(m) ==
  /\ setup[m] = "looking"
  /\ \/ /\ blob[setupList[m]] # NoToken
        /\ SetupAt(m, "fetching") /\ UNCHANGED faults
     \/ /\ SetupAt(m, "uploading")
        /\ IF blob[setupList[m]] = NoToken THEN UNCHANGED faults
           ELSE CanFail /\ Fault
  /\ UNCHANGED <<state, pages, blob, cdn, queueVars, hostVars,
                 setupList, overlapped>>

UploadInitializingStatusList(m) ==
  /\ setup[m] = "uploading"
  /\ WriteBlob(setupList[m], EmptyToken, {})
  /\ SetupAt(m, "fetching")
  /\ UNCHANGED <<state, pages, cdn, queueVars, hostVars, setupList,
                 faults>>

(* The patch is conditional: a list that is open or sealed stays so.       *)
OpenStatusList(l) ==
  state' = [state EXCEPT ![l] = IF @ = "INITIALIZING" THEN "OPEN" ELSE @]

(* The fetch through the CDN succeeds, and the manager opens the list.     *)
CheckPublishedAndOpen(m) ==
  /\ setup[m] = "fetching"
  /\ blob[setupList[m]] # NoToken
  /\ OpenStatusList(setupList[m])
  /\ SetupAt(m, "idle")
  /\ UNCHANGED <<pages, blob, cdn, queueVars, hostVars, setupList,
                 faults, overlapped>>

(* Another run of the manager finds the blob of the list and opens it.     *)
OpenInAnotherRun(l) ==
  /\ state[l] = "INITIALIZING" /\ blob[l] # NoToken
  /\ OpenStatusList(l)
  /\ UNCHANGED <<pages, blob, cdn, queueVars, hostVars, setupVars,
                 faults, overlapped>>

FailSetup(m) ==
  /\ setup[m] # "idle" /\ CanFail /\ Fault
  /\ \/ setup[m] = "uploading" /\ WriteBlob(setupList[m], EmptyToken, {})
     \/ UNCHANGED <<blob, overlapped>>
  /\ SetupAt(m, "idle")
  /\ UNCHANGED <<state, pages, cdn, queueVars, hostVars, setupList>>

----------------------------------------------------------------------------
(* The world around: the pages of an opened list get bits, the manager     *)
(* seals it when it is almost full, which ends no revocation, and the CDN  *)
(* caches what it is asked for, until the purge or the end of the 12 hours *)
(* of the cache-control header.                                            *)
SealStatusList(l) ==
  /\ state[l] = "OPEN"
  /\ state' = [state EXCEPT ![l] = "SEALED"]
  /\ UNCHANGED <<pages, blob, cdn, queueVars, hostVars, setupVars, faults,
                 overlapped>>

RevokeBit(l, p) ==
  /\ l \in opened /\ pages[l][p] < PageBits
  /\ pages' = [pages EXCEPT ![l][p] = @ + 1]
  /\ UNCHANGED <<state, blob, cdn, queueVars, hostVars, setupVars,
                 faults, overlapped>>

CacheBlob(l) ==
  /\ cdn[l] = NoToken /\ blob[l] # NoToken
  /\ cdn' = [cdn EXCEPT ![l] = blob[l]]
  /\ UNCHANGED <<state, pages, blob, queueVars, hostVars, setupVars,
                 faults, overlapped>>

DropFromCache(l) ==
  /\ cdn[l] # NoToken
  /\ cdn' = [cdn EXCEPT ![l] = NoToken]
  /\ UNCHANGED <<state, pages, blob, queueVars, hostVars, setupVars, faults,
                 overlapped>>

----------------------------------------------------------------------------
Dispatch == ListPublishable \/ \E l \in StatusLists : EnqueueStatusList(l)

ReceiveAny(h) == \E q \in Messages : Receive(h, q)

Publish(h) ==
  \/ LoadPage(h) \/ StageTokenStatusList(h)
  \/ CheckStaged(h) \/ CopyStaging(h)
  \/ PurgeStatusListContent(h) \/ FailStaged(h)

PublishInitializing(m) ==
  \/ HasValidPublishedInitializingStatusList(m)
  \/ UploadInitializingStatusList(m)
  \/ CheckPublishedAndOpen(m)

Next ==
  \/ Dispatch
  \/ \E h \in Hosts : ReceiveAny(h) \/ Publish(h) \/ FailPublication(h)
  \/ \E m \in Managers :
       \/ PublishInitializing(m) \/ FailSetup(m)
       \/ \E l \in StatusLists : StartSetup(m, l)
  \/ \E l \in StatusLists :
       \/ OpenInAnotherRun(l) \/ SealStatusList(l)
       \/ CacheBlob(l) \/ DropFromCache(l)
       \/ \E p \in PageIndex : RevokeBit(l, p)

(* The timer fires every hour, the queue trigger takes messages, calls     *)
(* that were sent are answered, and the CDN forgets after 12 hours.        *)
Fairness ==
  /\ WF_vars(Dispatch)
  /\ \A h \in Hosts : WF_vars(ReceiveAny(h)) /\ WF_vars(Publish(h))
  /\ \A m \in Managers : WF_vars(PublishInitializing(m))
  /\ \A l \in StatusLists : WF_vars(DropFromCache(l))

Spec == Init /\ [][Next]_vars
FairSpec == Spec /\ Fairness

----------------------------------------------------------------------------
Served(l) == IF cdn[l] # NoToken THEN cdn[l] ELSE blob[l]

AtMost(t, u) == \A p \in PageIndex : t[p] <= u[p]

(* Whatever is stored aside, copied late or cached, a verifier is only     *)
(* ever shown a whole token, and no index it shows as revoked is valid:    *)
(* each page of it is the page of that index, now or earlier.              *)
ServedBitsAreSet ==
  \A l \in StatusLists : Served(l) # NoToken => AtMost(Served(l), pages[l])

(* The blob of a list takes back a revocation it has shown only in the     *)
(* copy of a publication that was overtaken by another write between its   *)
(* reads and its copy, or in the upload of a provisioning whose list was   *)
(* opened since it looked: publications one after the other only add.      *)
Copies(h, l) == step[h] = "copying" /\ step'[h] # "copying" /\ ListOf(h) = l
Uploads(m, l) ==
  setup[m] = "uploading" /\ setup'[m] # "uploading" /\ setupList[m] = l

TakesBackOnlyWhenOvertaken ==
  [][\A l \in StatusLists :
       blob[l] # NoToken /\ ~AtMost(blob[l], blob'[l]) =>
         \/ \E h \in Hosts : Copies(h, l) /\ overlapped[h]
         \/ \E m \in Managers : Uploads(m, l) /\ l \in opened]_vars

(* Every revocation, in a list that is open or sealed, is shown in the     *)
(* end, and stays shown, whichever messages are lost, doubled or delivered *)
(* again and whatever is cached: the hourly publications repair what an    *)
(* overtaken one has taken back.                                           *)
RevocationsAreServed ==
  \A l \in StatusLists :
    <>[](l \in opened => Served(l) = pages[l])
=============================================================================
