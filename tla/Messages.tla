------------------------------ MODULE Messages ------------------------------
(***************************************************************************)
(* The messages that are sent to a file of fiscal codes: a blob trigger    *)
(* cuts the file into groups and enqueues all of them at once, and a queue *)
(* trigger sends the messages of a group at once and uploads a report      *)
(* (apps/io-wallet-messages-func/src/infra/handlers/*.ts,                  *)
(* infra/io-messages-api.ts, infra/azure/storage/*.ts).                    *)
(*                                                                         *)
(* A file is a text: each fiscal code is CodeLength characters and a new   *)
(* line, which the last one may lack.  The limit on the rate of the        *)
(* messages is left out.                                                   *)
(***************************************************************************)
EXTENDS Naturals, FiniteSets, Sequences, SequencesExt

CONSTANTS
  FiscalCodes,
  CodeLength,        \* 16
  Files,             \* the files that may be uploaded: sequences of codes
  BatchSize,         \* fiscal codes of a group
  MaxBlobAttempts,   \* calls of the blob trigger for one file
  MaxDequeueCount,   \* deliveries of a queue message
  MaxFaults          \* bound: calls without an answer, hosts that stop

ASSUME SizesAssumption ==
  /\ CodeLength \in Nat \ {0} /\ BatchSize \in Nat \ {0}
  /\ MaxBlobAttempts \in Nat \ {0} /\ MaxDequeueCount \in Nat \ {0}
  /\ MaxFaults \in Nat
  /\ Files \subseteq Seq(FiscalCodes)

VARIABLES
  file,          \* the codes in the file
  groups,        \* the recipients of each group of its text
  blobAttempt,   \* the calls of the blob trigger so far
  dispatching,   \* the groups it has not an answer for
  dispatched,    \* how it ended: the trigger calls it again if it failed
  queue,         \* the messages of the queue: attempt, group and deliveries
  handling,      \* the message that is handled, or none
  waiting,       \* the lines of its group that have no answer
  rows,          \* the rows of its report
  sent,          \* how often each recipient was sent the message
  refused,       \* ghost: the recipients that the API has refused
  reports,       \* the rows of the reports that were uploaded
  poison,        \* the recipients of the poisoned messages
  redelivered,   \* ghost: how often a message was delivered again
  faults         \* bounded by MaxFaults

dispatcher == <<blobAttempt, dispatching, dispatched>>
sender == <<handling, waiting, rows>>
outcome == <<sent, refused, reports, poison>>
vars == <<file, groups, dispatcher, queue, sender, outcome, redelivered, faults>>

----------------------------------------------------------------------------
(* Texts.                                                                  *)
NewLine == <<"new line", 0>>
Characters(code) == [k \in 1..CodeLength |-> <<code, k>>]

LineLength == CodeLength + 1

Text(codes, newLine) ==
  [p \in 1..(Len(codes) * LineLength - (IF newLine THEN 0 ELSE 1)) |->
     IF p % LineLength = 0 THEN NewLine
     ELSE Characters(codes[p \div LineLength + 1])[p % LineLength]]

SubText(text, first, last) ==
  SubSeq(text, first, IF last < Len(text) THEN last ELSE Len(text))

(* Groups of n characters.                                                 *)
GroupsOf(text, n) ==
  [g \in 1..(Len(text) + n - 1) \div n |->
     SubText(text, (g - 1) * n + 1, g * n)]

Split(text) == GroupsOf(text, BatchSize * LineLength)

(* A line is known by the place before it.                                 *)
SplitFiscalCodes(group) ==
  LET text == IF Last(group) = NewLine THEN Front(group) ELSE group
      newLines == {i \in DOMAIN text : text[i] = NewLine}
      EndAfter(start) ==
        Min({end \in newLines \cup {Len(text) + 1} : end > start})
  IN [start \in {0} \cup newLines |->
        SubSeq(text, start + 1, EndAfter(start) - 1)]

(* What is no fiscal code is a recipient too: nothing checks it here.      *)
Garbled == "garbled"
Recipient(line) ==
  IF \E code \in FiscalCodes : line = Characters(code)
  THEN CHOOSE code \in FiscalCodes : line = Characters(code) ELSE Garbled
Recipients == FiscalCodes \cup {Garbled}

(* Those of each group of a text.                                          *)
RecipientsOf(text) ==
  [g \in DOMAIN Split(text) |->
     LET lines == SplitFiscalCodes(Split(text)[g])
     IN [i \in DOMAIN lines |-> Recipient(lines[i])]]

----------------------------------------------------------------------------
NoMessage == [attempt |-> 0, group |-> 0, count |-> 0]
Status == {"201", "error"}

TypeOK ==
  /\ file \in Files
  /\ groups \in Seq(Range(groups))
  /\ \A lines \in Range(groups) :
       DOMAIN lines \subseteq Nat /\ lines \in [DOMAIN lines -> Recipients]
  /\ blobAttempt \in 1..MaxBlobAttempts
  /\ dispatching \subseteq DOMAIN groups
  /\ dispatched \in {"no", "failing", "done", "given up"}
  /\ \A m \in queue \cup {handling} :
       m \in [attempt : 0..MaxBlobAttempts, group : Nat, count : 0..MaxDequeueCount]
  /\ waiting \subseteq Nat
  /\ rows \subseteq Recipients \X Status
  /\ sent \in [Recipients -> Nat] /\ refused \subseteq Recipients
  /\ reports \subseteq Recipients \X Status /\ poison \subseteq Recipients
  /\ redelivered \in Nat /\ faults \in 0..MaxFaults

Init ==
  /\ file \in Files
  /\ \E newLine \in BOOLEAN : groups = RecipientsOf(Text(file, newLine))
  /\ blobAttempt = 1 /\ dispatching = DOMAIN groups /\ dispatched = "no"
  /\ queue = {} /\ handling = NoMessage
  /\ waiting = {} /\ rows = {}
  /\ sent = [r \in Recipients |-> 0] /\ refused = {} /\ reports = {}
  /\ poison = {}
  /\ redelivered = 0 /\ faults = 0

Fault == faults < MaxFaults /\ faults' = faults + 1

----------------------------------------------------------------------------
(* insertFiscalCodesInQueue: all groups are enqueued at once, without a    *)
(* second attempt, and it fails when one of them has failed.               *)
AddToQueue(g) ==
  queue' = queue \cup {[attempt |-> blobAttempt, group |-> g, count |-> 0]}

Enqueue(g) ==
  /\ g \in dispatching
  /\ dispatching' = dispatching \ {g}
  /\ \/ AddToQueue(g) /\ UNCHANGED <<dispatched, faults>>
     \/ /\ AddToQueue(g) \/ UNCHANGED queue
        /\ dispatched' = "failing" /\ Fault
  /\ UNCHANGED <<file, groups, blobAttempt, sender, outcome, redelivered>>

\* Mutant: the answers of the single groups are not looked at.
DispatchAnyway ==
  /\ dispatching = {} /\ dispatched \in {"no", "failing"}
  /\ dispatched' = "done"
  /\ UNCHANGED <<file, groups, blobAttempt, dispatching, queue, sender,
                 outcome, redelivered, faults>>

DispatchToQueue ==
  /\ dispatching = {} /\ dispatched \in {"no", "failing"}
  /\ IF dispatched = "no"
     THEN dispatched' = "done" /\ UNCHANGED <<blobAttempt, dispatching>>
     ELSE IF blobAttempt < MaxBlobAttempts
     THEN /\ blobAttempt' = blobAttempt + 1
          /\ dispatching' = DOMAIN groups /\ dispatched' = "no"
     ELSE dispatched' = "given up" /\ UNCHANGED <<blobAttempt, dispatching>>
  /\ UNCHANGED <<file, groups, queue, sender, outcome, redelivered, faults>>

----------------------------------------------------------------------------
(* sendMessages, for one message of the queue at a time: calls for         *)
(* different messages share nothing.                                       *)
Receive(m) ==
  /\ handling = NoMessage
  /\ queue' = queue \ {m}
  /\ handling' = [m EXCEPT !.count = @ + 1]
  /\ waiting' = DOMAIN groups[m.group]
  /\ rows' = {}
  /\ UNCHANGED <<file, groups, dispatcher, outcome, redelivered, faults>>

RecipientOf(i) == groups[handling.group][i]

Answer(i, row) ==
  /\ waiting' = waiting \ {i}
  /\ rows' = rows \cup {row}

\* Mutant: a message without an answer is sent once more.
SendUntilAnswered(i) ==
  LET recipient == RecipientOf(i) IN
  /\ i \in waiting
  /\ \/ /\ sent' = [sent EXCEPT ![recipient] = @ + 1]
        /\ Answer(i, <<recipient, "201">>)
        /\ UNCHANGED <<refused, faults>>
     \/ /\ sent' = [sent EXCEPT ![recipient] = @ + 1] /\ Fault
        /\ UNCHANGED <<waiting, rows, refused>>
  /\ UNCHANGED <<file, groups, dispatcher, queue, handling, reports, poison,
                 redelivered>>

(* The message is sent, or refused, at the third retry at the latest if    *)
(* the API is busy; or it is sent and the answer is lost.                  *)
SendMessageToFiscalCode(i) ==
  LET recipient == RecipientOf(i) IN
  /\ i \in waiting
  /\ \/ /\ sent' = [sent EXCEPT ![recipient] = @ + 1]
        /\ Answer(i, <<recipient, "201">>)
        /\ UNCHANGED <<refused, faults>>
     \/ /\ sent' = [sent EXCEPT ![recipient] = @ + 1] /\ Fault
        /\ Answer(i, <<recipient, "error">>)
        /\ UNCHANGED refused
     \/ /\ refused' = refused \cup {recipient}
        /\ Answer(i, <<recipient, "error">>)
        /\ UNCHANGED <<sent, faults>>
  /\ UNCHANGED <<file, groups, dispatcher, queue, handling, reports, poison,
                 redelivered>>

(* An upload that fails is ignored: the message is deleted.                *)
UploadFile ==
  /\ handling # NoMessage /\ waiting = {}
  /\ \/ reports' = reports \cup rows /\ UNCHANGED faults
     \/ UNCHANGED reports /\ Fault
  /\ handling' = NoMessage /\ rows' = {}
  /\ UNCHANGED <<file, groups, dispatcher, queue, waiting, sent, refused,
                 poison, redelivered>>

(* The host stops: what it has sent is forgotten, and the message is       *)
(* visible again, or poison.                                               *)
Crash ==
  /\ handling # NoMessage /\ Fault
  /\ IF handling.count < MaxDequeueCount
     THEN /\ queue' = queue \cup {handling}
          /\ redelivered' = redelivered + 1 /\ UNCHANGED poison
     ELSE /\ poison' = poison \cup Range(groups[handling.group])
          /\ UNCHANGED <<queue, redelivered>>
  /\ handling' = NoMessage /\ waiting' = {} /\ rows' = {}
  /\ UNCHANGED <<file, groups, dispatcher, sent, refused, reports>>

----------------------------------------------------------------------------
InsertFiscalCodesInQueue ==
  (\E g \in DOMAIN groups : Enqueue(g)) \/ DispatchToQueue

SendMessages ==
  \/ \E m \in queue : Receive(m)
  \/ \E i \in waiting : SendMessageToFiscalCode(i)
  \/ UploadFile

Next == InsertFiscalCodesInQueue \/ SendMessages \/ Crash

Spec ==
  /\ Init /\ [][Next]_vars
  /\ WF_vars(InsertFiscalCodesInQueue) /\ WF_vars(SendMessages)

----------------------------------------------------------------------------
(* Everyone in the file is tried: the groups are whole lines, none of them *)
(* is left behind by a dispatch that succeeds, and a message that is       *)
(* delivered again begins anew, until it is poisoned.                      *)
EveryoneIsTried ==
  <>[](dispatched = "done" =>
         \A i \in DOMAIN file :
           sent[file[i]] > 0 \/ file[i] \in refused \cup poison)

(* Only those in the file are recipients, and nobody is sent the message   *)
(* twice but for a trigger that was called again; whoever is reported as   *)
(* reached was.                                                            *)
Listings(recipient) == Cardinality({i \in DOMAIN file : file[i] = recipient})

NobodyIsSentTwiceForNothing ==
  /\ \A r \in Recipients :
       sent[r] <= Listings(r) * (blobAttempt + redelivered)
  /\ \A r \in Recipients : <<r, "201">> \in reports => sent[r] > 0
=============================================================================
