----------------------- MODULE WhitelistedFiscalCodes -----------------------
(***************************************************************************)
(* The import of a file of fiscal codes into the whitelist: a blob trigger *)
(* reads the file line by line and enqueues batches, and a queue trigger   *)
(* creates the documents of each batch, one chunk after the other, with    *)
(* bulk calls that the database may throttle                               *)
(* (apps/io-wallet-whitelist-func/src/infra/handlers/*.ts,                 *)
(* infra/azure/storage/queue.ts,                                           *)
(* infra/azure/cosmos/whitelisted-fiscal-code.ts).                         *)
(*                                                                         *)
(* The delays between the calls are left out.                              *)
(***************************************************************************)
EXTENDS Naturals, FiniteSets, Sequences, SequencesExt

CONSTANTS
  FiscalCodes,
  Invalid,                \* a line that is no fiscal code
  Files,                  \* the files that may be uploaded: sequences of lines
  BatchSize,              \* fiscal codes of a message
  BulkChunkSize,          \* operations of a bulk call
  MaxEnqueueAttempts,
  MaxBulkRetryAttempts,
  MaxBlobAttempts,        \* calls of the blob trigger for one file
  MaxDequeueCount,        \* maxDequeueCount of host.json
  Messages,               \* bound: messages in the queue at once
  MaxFaults               \* bound: calls that fail or are throttled

ASSUME SizesAssumption ==
  /\ BatchSize \in Nat \ {0} /\ BulkChunkSize \in Nat \ {0}
  /\ MaxEnqueueAttempts \in Nat \ {0} /\ MaxBulkRetryAttempts \in Nat \ {0}
  /\ MaxBlobAttempts \in Nat \ {0} /\ MaxDequeueCount \in Nat \ {0}
  /\ MaxFaults \in Nat
  /\ Files \subseteq Seq(FiscalCodes \cup {Invalid}) /\ Invalid \notin FiscalCodes

VARIABLES
  file,         \* the file
  reading,      \* whether the blob trigger has done with it
  blobAttempt,  \* the calls of the trigger so far
  line,         \* lines it has read
  fiscalCodes,  \* those that are not enqueued yet
  queue,        \* the fiscal codes of each message and its dequeue count
  chunks,       \* what the call that handles a message has still to insert
  pending,      \* the operations of the bulk call under way
  attempt,      \* the bulk calls for them so far
  container,    \* the whitelist
  poison,       \* the fiscal codes of poisoned messages
  faults        \* bounded by MaxFaults

reader == <<reading, blobAttempt, line, fiscalCodes>>
writer == <<chunks, pending, attempt>>
whitelistVars == <<file, reader, queue, writer, container, poison, faults>>

----------------------------------------------------------------------------
NoMessage == [fiscalCodes |-> <<>>, count |-> 0]

WhitelistTypeOK ==
  /\ file \in Files
  /\ reading \in {"reading", "done", "given up"}
  /\ blobAttempt \in 1..MaxBlobAttempts
  /\ line \in 0..Len(file)
  /\ fiscalCodes \in Seq(FiscalCodes) /\ Len(fiscalCodes) <= BatchSize
  /\ queue \in [Messages -> [fiscalCodes : Seq(FiscalCodes),
                             count : 0..MaxDequeueCount]]
  /\ chunks \in [Messages -> Seq(SUBSET FiscalCodes)]
  /\ pending \in [Messages -> SUBSET FiscalCodes]
  /\ attempt \in [Messages -> 0..MaxBulkRetryAttempts]
  /\ container \in SUBSET FiscalCodes /\ poison \in SUBSET FiscalCodes
  /\ faults \in 0..MaxFaults

WhitelistInit ==
  /\ file \in Files
  /\ reading = "reading" /\ blobAttempt = 1
  /\ line = 0 /\ fiscalCodes = <<>>
  /\ queue = [q \in Messages |-> NoMessage]
  /\ chunks = [q \in Messages |-> <<>>]
  /\ pending = [q \in Messages |-> {}]
  /\ attempt = [q \in Messages |-> 0]
  /\ container = {} /\ poison = {}
  /\ faults = 0

Fault == faults < MaxFaults /\ faults' = faults + 1

----------------------------------------------------------------------------
(* EnqueueWhitelistedFiscalCodesFunction.  When it throws, the trigger     *)
(* calls it again, from the first line.                                    *)
Throw ==
  /\ line' = 0 /\ fiscalCodes' = <<>>
  /\ IF blobAttempt < MaxBlobAttempts
     THEN blobAttempt' = blobAttempt + 1 /\ UNCHANGED reading
     ELSE reading' = "given up" /\ UNCHANGED blobAttempt

IsFull == Len(fiscalCodes) = BatchSize

ReadLine ==
  /\ reading = "reading" /\ line < Len(file) /\ ~IsFull
  /\ IF file[line + 1] = Invalid THEN Throw
     ELSE /\ line' = line + 1
          /\ fiscalCodes' = Append(fiscalCodes, file[line + 1])
          /\ UNCHANGED <<reading, blobAttempt>>
  /\ UNCHANGED <<file, queue, writer, container, poison, faults>>

FailDownload ==
  /\ reading = "reading" /\ ~IsFull /\ Fault
  /\ Throw
  /\ UNCHANGED <<file, queue, writer, container, poison>>

(* The message is sent until a call has an answer; those without may have  *)
(* put it in the queue as well.                                            *)
Free == {q \in Messages : queue[q] = NoMessage}

SendMessage(slots) ==
  queue' = [q \in Messages |->
    IF q \in slots THEN [fiscalCodes |-> fiscalCodes, count |-> 0] ELSE queue[q]]

Sent == fiscalCodes' = <<>> /\ UNCHANGED <<reading, blobAttempt, line>>

Enqueue ==
  \E slots \in SUBSET Free :
    /\ Cardinality(slots) <= MaxEnqueueAttempts
    /\ SendMessage(slots)
    /\ \/ Cardinality(slots) = 1 /\ Sent /\ UNCHANGED faults
       \/ Cardinality(slots) > 1 /\ Sent /\ Fault
       \/ Throw /\ Fault

EnqueueBatch ==
  /\ reading = "reading"
  /\ IsFull \/ (line = Len(file) /\ fiscalCodes # <<>>)
  /\ Enqueue
  /\ UNCHANGED <<file, writer, container, poison>>

EndOfFile ==
  /\ reading = "reading" /\ line = Len(file) /\ fiscalCodes = <<>>
  /\ reading' = "done"
  /\ UNCHANGED <<file, blobAttempt, line, fiscalCodes, queue, writer,
                 container, poison, faults>>

----------------------------------------------------------------------------
(* insertWhitelistedFiscalCodes: one call for each message.                *)
Handled(q) == chunks[q] # <<>>

ChunksOf(codes) ==
  [i \in 1..(Len(codes) + BulkChunkSize - 1) \div BulkChunkSize |->
     Range(SubSeq(codes, (i - 1) * BulkChunkSize + 1,
                  IF i * BulkChunkSize < Len(codes) THEN i * BulkChunkSize
                  ELSE Len(codes)))]

StartChunk(q, rest) ==
  /\ chunks' = [chunks EXCEPT ![q] = rest]
  /\ pending' = [pending EXCEPT ![q] = IF rest = <<>> THEN {} ELSE Head(rest)]
  /\ attempt' = [attempt EXCEPT ![q] = 0]

Receive(q) ==
  /\ queue[q] # NoMessage /\ ~Handled(q)
  /\ queue' = [queue EXCEPT ![q].count = @ + 1]
  /\ StartChunk(q, ChunksOf(queue[q].fiscalCodes))
  /\ UNCHANGED <<file, reader, container, poison, faults>>

(* The call has returned: the message is deleted.                          *)
Succeed(q, rest) ==
  /\ StartChunk(q, rest)
  /\ queue' = IF rest = <<>> THEN [queue EXCEPT ![q] = NoMessage] ELSE queue
  /\ UNCHANGED poison

(* It has thrown, or the host has stopped: the message is visible again,   *)
(* or poison.                                                              *)
Fail(q) ==
  /\ StartChunk(q, <<>>)
  /\ IF queue[q].count < MaxDequeueCount THEN UNCHANGED <<queue, poison>>
     ELSE /\ queue' = [queue EXCEPT ![q] = NoMessage]
          /\ poison' = poison \cup Range(queue[q].fiscalCodes)

\* Mutant: what is throttled at the last attempt is dropped.
AfterThrottlingDropped(q, throttled) ==
  IF throttled = {} \/ attempt[q] + 1 = MaxBulkRetryAttempts
    THEN Succeed(q, Tail(chunks[q]))
  ELSE /\ pending' = [pending EXCEPT ![q] = throttled]
       /\ attempt' = [attempt EXCEPT ![q] = @ + 1]
       /\ UNCHANGED <<queue, chunks, poison>>

AfterThrottling(q, throttled) ==
  IF throttled = {} THEN Succeed(q, Tail(chunks[q]))
  ELSE IF attempt[q] + 1 = MaxBulkRetryAttempts THEN Fail(q)
  ELSE /\ pending' = [pending EXCEPT ![q] = throttled]
       /\ attempt' = [attempt EXCEPT ![q] = @ + 1]
       /\ UNCHANGED <<queue, chunks, poison>>

\* Mutant: a document that exists is an error.
ExecuteAndFailOnConflict(q) ==
  /\ Handled(q)
  /\ container' = container \cup pending[q]
  /\ IF pending[q] \cap container = {} THEN Succeed(q, Tail(chunks[q])) ELSE Fail(q)
  /\ UNCHANGED <<file, reader, faults>>

(* A document that exists (409) is as good as one that is created; those   *)
(* that are throttled (429) are tried once more.                           *)
ExecuteBulkOperations(q) ==
  /\ Handled(q)
  /\ \E throttled \in SUBSET pending[q] :
       /\ container' = container \cup (pending[q] \ throttled)
       /\ AfterThrottling(q, throttled)
       /\ IF throttled = {} THEN UNCHANGED faults ELSE Fault
  /\ UNCHANGED <<file, reader>>

(* An operation, or the whole call, ends with some other error.            *)
FailBulkOperations(q) ==
  /\ Handled(q) /\ Fault
  /\ \E created \in SUBSET pending[q] : container' = container \cup created
  /\ Fail(q)
  /\ UNCHANGED <<file, reader>>

----------------------------------------------------------------------------
EnqueueWhitelistedFiscalCodes == ReadLine \/ EnqueueBatch \/ EndOfFile
InsertWhitelistedFiscalCodes(q) == Receive(q) \/ ExecuteBulkOperations(q)

WhitelistNext ==
  \/ EnqueueWhitelistedFiscalCodes \/ FailDownload
  \/ \E q \in Messages : InsertWhitelistedFiscalCodes(q) \/ FailBulkOperations(q)

(* The triggers fire and calls are answered.                               *)
WhitelistSpec ==
  /\ WhitelistInit /\ [][WhitelistNext]_whitelistVars
  /\ WF_whitelistVars(EnqueueWhitelistedFiscalCodes)
  /\ \A q \in Messages : WF_whitelistVars(InsertWhitelistedFiscalCodes(q))

----------------------------------------------------------------------------
Enqueued == UNION {Range(queue[q].fiscalCodes) : q \in Messages}
Poisoned == IF faults < MaxDequeueCount THEN {} ELSE poison

(* No fiscal code that the reader has passed is lost, in the middle of the *)
(* file or at its end: it is in the whitelist, in a message, among those   *)
(* that are not enqueued yet, or it went with a poisoned message; what was *)
(* throttled or failed in a bulk call is never taken for inserted.         *)
EveryCodeIsAccounted ==
  \A i \in 1..line :
    file[i] \in container \cup Enqueued \cup poison \cup Range(fiscalCodes)

(* A file without an invalid line is in the whitelist in the end, if the   *)
(* trigger does not give it up, although calls fail half way and batches   *)
(* are enqueued or delivered twice; all but what went with a message that  *)
(* was poisoned by as many failures as that takes.  Of a file with an      *)
(* invalid line, nothing that comes after it is there.                     *)
FileIsInserted ==
  <>[](/\ reading = "done" => Range(file) \subseteq container \cup Poisoned
       /\ reading = "done" \/ reading = "given up"
       /\ \A i \in DOMAIN file :
            file[i] = Invalid => container \subseteq Range(SubSeq(file, 1, i - 1)))
=============================================================================
