---------------------------- MODULE DataLinkWriter ----------------------------
(***************************************************************************)
(* A DataLinkClient: the thread of DataLinkClientImpl::runWriter, the      *)
(* export queue it drains, the connection it keeps open, and the thread    *)
(* that calls stop().                                                      *)
(*                                                                         *)
(* External: the DataLink server and its library.  dl_connect succeeds or  *)
(* fails; dl_write accepts the record, or fails and either keeps the link  *)
(* or loses it.  Both return, within the timeout given to the library.     *)
(* No acknowledgement is asked for (writeAcknowledgement is 0), so what    *)
(* the server stores is what dl_write accepted, except for records a       *)
(* broken link loses.                                                      *)
(*                                                                         *)
(* The queue is the LossyFifo that DropOldestQueue implements.  A packet   *)
(* becomes a sequence of miniSEED records, some of them empty; the record  *)
(* k of packet p is <<p, k>>.                                              *)
(***************************************************************************)
EXTENDS Integers, Sequences, SequencesExt

CONSTANTS MaxQueue,           \* mMaximumInternalQueueSize
          MaxWriteFailures,   \* 32 in the code
          ReconnectAttempts,  \* mReconnectInterval.size(), 4 in the code
          MaxPackets,         \* bound: packets the relay enqueues
          MaxRecords          \* bound: records made of one packet

ASSUME WriterAssumption ==
    /\ MaxQueue \in Nat \ {0}
    /\ MaxWriteFailures \in Nat \ {0}
    /\ ReconnectAttempts \in Nat \ {0}
    /\ MaxPackets \in Nat
    /\ MaxRecords \in Nat

VARIABLES pc,               \* where the writer thread is
          link,             \* mDataLinkClient: null, closed (-1) or open
          attempt,          \* index into mReconnectInterval
          failures,         \* consecutiveWriteFailures
          batch,            \* records of the popped packet still to write
          keepRunning,      \* mKeepRunning
          terminate,        \* mTerminateRequested
          stopper,          \* where the caller of stop() is
          offered,          \* packets enqueued so far
          queue,            \* mQueue
          written,          \* mMetrics: packets written
          failed,           \* mMetrics: packets failed to write
          invalid,          \* mMetrics: invalid packets
          reason,           \* why the thread threw
          attempted,        \* history: records given to dl_write
          sent,             \* history: records dl_write accepted
          late              \* history: what the writer did after stop()

linkVars == <<link, attempt, failures>>
counterVars == <<written, failed, invalid>>
historyVars == <<attempted, sent, late>>
stopVars == <<keepRunning, terminate, stopper>>
queueVars == <<offered, queue>>
writerVars == <<pc, linkVars, batch, counterVars, reason, historyVars>>
vars == <<writerVars, stopVars, queueVars>>

Finished == {"returned", "threw"}

(* The constructor connects, or throws and there is no client; start()     *)
(* resets both flags before it launches the thread.                        *)
Init ==
    /\ pc = "top"
    /\ link = "open"
    /\ attempt = 0
    /\ failures = 0
    /\ batch = <<>>
    /\ keepRunning = TRUE
    /\ terminate = FALSE
    /\ stopper = "away"
    /\ offered = 0
    /\ queue = <<>>
    /\ written = 0
    /\ failed = 0
    /\ invalid = 0
    /\ reason = "none"
    /\ attempted = <<>>
    /\ sent = <<>>
    /\ late = [pops |-> 0, timeouts |-> 0, connects |-> 0]

-----------------------------------------------------------------------------
(* The relay's side of the queue: the oldest packet makes room for the     *)
(* newest, or not (and it may although the writer has just made room       *)
(* itself); then the newest enters, or is refused.                         *)

Enqueue ==
    /\ offered < MaxPackets
    /\ offered' = offered + 1
    /\ \/ Len(queue) < MaxQueue /\ queue' = Append(queue, offered + 1)
       \/ queue # <<>> /\ queue' = Append(Tail(queue), offered + 1)
       \/ queue # <<>> /\ queue' = Tail(queue)
       \/ UNCHANGED queue
    /\ UNCHANGED <<writerVars, stopVars>>

-----------------------------------------------------------------------------
(* The loop and the reconnection. *)

Goto(place) ==
    /\ pc' = place
    /\ UNCHANGED <<linkVars, batch, counterVars, reason, historyVars, stopVars,
                   queueVars>>

(* The loop condition is read once per round. *)
Return == pc = "top" /\ ~keepRunning /\ Goto("returned")

(* Mutant: the loop does not look at mKeepRunning. *)
TestConnectionForEver ==
    /\ pc = "top"
    /\ pc' = IF link = "open" THEN "pop" ELSE "wait"
    /\ attempt' = IF link = "open" THEN 0 ELSE 1
    /\ UNCHANGED <<link, failures, batch, counterVars, reason, historyVars,
                   stopVars, queueVars>>

(* A connected writer goes on to the queue, another one to the first wait. *)
TestConnection ==
    /\ pc = "top"
    /\ keepRunning
    /\ pc' = IF link = "open" THEN "pop" ELSE "wait"
    /\ attempt' = IF link = "open" THEN 0 ELSE 1
    /\ UNCHANGED <<link, failures, batch, counterVars, reason, historyVars,
                   stopVars, queueVars>>

(* Mutant: wait_for without a predicate. *)
WaitWithoutPredicate == pc = "wait" /\ Goto("falling")

(* wait_for evaluates its predicate before it sleeps ... *)
EvaluatePredicate ==
    pc = "wait" /\ Goto(IF terminate THEN "connect" ELSE "falling")

(* ... and stop() may set the flag and notify in between, for it does not  *)
(* hold the mutex: nobody is asleep yet, and the wake-up is lost.          *)
FallAsleep == pc = "falling" /\ Goto("asleep")

Timeout ==
    /\ pc = "asleep"
    /\ pc' = "connect"
    /\ late' = [late EXCEPT !.timeouts = @ + (IF terminate THEN 1 ELSE 0)]
    /\ UNCHANGED <<linkVars, batch, counterVars, reason, attempted, sent,
                   stopVars, queueVars>>

Connect(outcome) ==
    /\ pc = "connect"
    /\ link' = outcome
    /\ late' = [late EXCEPT !.connects = @ + (IF keepRunning THEN 0 ELSE 1)]
    /\ UNCHANGED <<failures, batch, counterVars, attempted, sent, stopVars,
                   queueVars>>

(* connect() makes a new client if it must; success ends the attempts, and *)
(* the writer pops without looking at the loop condition again.            *)
ConnectSucceeds ==
    /\ Connect("open")
    /\ pc' = "pop"
    /\ attempt' = 0
    /\ UNCHANGED reason

ConnectAgain == attempt' = attempt + 1 /\ pc' = "wait" /\ UNCHANGED reason

GiveUpConnecting ==
    pc' = "threw" /\ reason' = "connection" /\ UNCHANGED attempt

(* Mutant: one attempt too many. *)
ConnectFailsOnceMore ==
    /\ Connect("null")
    /\ IF attempt <= ReconnectAttempts THEN ConnectAgain ELSE GiveUpConnecting

(* Mutant: the connection is not tested again after the last attempt. *)
ConnectFailsUnnoticed ==
    /\ Connect("null")
    /\ IF attempt < ReconnectAttempts
       THEN ConnectAgain
       ELSE attempt' = 0 /\ pc' = "pop" /\ UNCHANGED reason

(* connect() frees the client and throws; after the last attempt the       *)
(* thread throws as well.                                                  *)
ConnectFails ==
    /\ Connect("null")
    /\ IF attempt < ReconnectAttempts THEN ConnectAgain ELSE GiveUpConnecting

-----------------------------------------------------------------------------
(* A packet. *)

(* An empty queue: sleep, and look again. *)
PopNothing == pc = "pop" /\ queue = <<>> /\ Goto("top")

Pop ==
    /\ pc = "pop"
    /\ queue # <<>>
    /\ queue' = Tail(queue)
    /\ late' = [late EXCEPT !.pops = @ + (IF keepRunning THEN 0 ELSE 1)]
    /\ UNCHANGED <<linkVars, written, failed, reason, attempted, sent, stopVars,
                   offered>>

(* toDataLinkPackets or toDataLinkIdentifier throws: the packet is counted *)
(* as invalid and forgotten.                                               *)
PopInvalid == Pop /\ invalid' = invalid + 1 /\ pc' = "top" /\ UNCHANGED batch

(* The records of a packet: any number of them, and any of them empty. *)
Batches(p) ==
    UNION { { [k \in 1..n |-> [id |-> <<p, k>>, empty |-> k \in blank]] :
                blank \in SUBSET (1..n) } : n \in 0..MaxRecords }

PopPacket ==
    /\ Pop
    /\ batch' \in Batches(Head(queue))
    /\ pc' = IF batch' = <<>> THEN "top" ELSE "write"
    /\ UNCHANGED invalid

(* The loop over the records goes on, or is over. *)
NextRecord ==
    /\ batch' = Tail(batch)
    /\ pc' = IF Tail(batch) = <<>> THEN "top" ELSE "write"

(* Mutant: the loop does not move on from an empty record. *)
SkipEmptyNever == pc = "write" /\ Head(batch).empty /\ UNCHANGED vars

(* A record without data is skipped, and not counted. *)
SkipEmpty ==
    /\ pc = "write"
    /\ Head(batch).empty
    /\ NextRecord
    /\ UNCHANGED <<linkVars, counterVars, reason, historyVars, stopVars, queueVars>>

WriteRecord ==
    /\ pc = "write"
    /\ ~Head(batch).empty
    /\ attempted' = Append(attempted, Head(batch).id)
    /\ UNCHANGED <<attempt, invalid, late, stopVars, offered>>

Accepted ==
    /\ WriteRecord
    /\ link = "open"
    /\ sent' = Append(sent, Head(batch).id)
    /\ written' = written + 1
    /\ NextRecord
    /\ UNCHANGED <<link, failed, reason, queue>>

(* Mutant: a success does not end a run of failures. *)
WriteSucceedsKeepingCount == Accepted /\ UNCHANGED failures

(* A successful write ends a run of failures. *)
WriteSucceeds == Accepted /\ failures' = 0

(* A failed record is not tried again; the next ones of the packet are,    *)
(* even if the link is gone.  The last failure the writer tolerates closes *)
(* the link and ends the thread.                                           *)
CountFailure ==
    /\ WriteRecord
    /\ failures' = failures + 1
    /\ IF failures' >= MaxWriteFailures
       THEN /\ batch' = Tail(batch)
            /\ pc' = "threw"
            /\ reason' = "writes"
            /\ link' = "closed"
       ELSE /\ NextRecord
            /\ link' \in {link, "closed"}
            /\ UNCHANGED reason
    /\ UNCHANGED <<written, sent>>

(* Mutant: the packet of a failed record is queued again. *)
WriteFailsAndRequeues ==
    /\ CountFailure
    /\ failed' = failed + 1
    /\ queue' = Append(queue, Head(batch).id[1])

(* Mutant: the failure that ends the thread is not counted. *)
LastFailureUncounted ==
    /\ CountFailure
    /\ failed' = failed + (IF failures' < MaxWriteFailures THEN 1 ELSE 0)
    /\ UNCHANGED queue

(* Every failed write is counted. *)
WriteFails == CountFailure /\ failed' = failed + 1 /\ UNCHANGED queue

Writer ==
    \/ Return
    \/ TestConnection
    \/ EvaluatePredicate
    \/ FallAsleep
    \/ Timeout
    \/ ConnectSucceeds
    \/ ConnectFails
    \/ PopNothing
    \/ PopInvalid
    \/ PopPacket
    \/ SkipEmpty
    \/ WriteSucceeds
    \/ WriteFails

-----------------------------------------------------------------------------
(* stop(), called from another thread: store, set the flag, notify. *)

StopStores ==
    /\ stopper = "away"
    /\ keepRunning' = FALSE
    /\ stopper' = "stored"
    /\ UNCHANGED <<terminate, writerVars, queueVars>>

StopFlags ==
    /\ stopper = "stored"
    /\ terminate' = TRUE
    /\ stopper' = "flagged"
    /\ UNCHANGED <<keepRunning, writerVars, queueVars>>

(* Only a thread that is asleep hears it. *)
StopNotifies ==
    /\ stopper = "flagged"
    /\ stopper' = "returned"
    /\ pc' = IF pc = "asleep" THEN "connect" ELSE pc
    /\ UNCHANGED <<linkVars, batch, counterVars, reason, historyVars,
                   keepRunning, terminate, queueVars>>

Stop == StopFlags \/ StopNotifies

Next == Enqueue \/ Writer \/ StopStores \/ Stop

(* The writer thread is scheduled, library calls return and timed waits    *)
(* end; a stop() that was called goes through.  Nothing obliges the relay  *)
(* to call it, or to enqueue.                                              *)
Spec == Init /\ [][Next]_vars /\ WF_vars(Writer) /\ WF_vars(Stop)

-----------------------------------------------------------------------------
(* Properties. *)

Records == (1..MaxPackets) \X (1..MaxRecords)

(* The types of the variables. *)
TypeOK ==
    /\ pc \in {"top", "wait", "falling", "asleep", "connect", "pop", "write"}
              \cup Finished
    /\ link \in {"null", "closed", "open"}
    /\ attempt \in 0..ReconnectAttempts
    /\ failures \in 0..MaxWriteFailures
    /\ \A i \in DOMAIN batch : batch[i].id \in Records
    /\ keepRunning \in BOOLEAN
    /\ terminate \in BOOLEAN
    /\ stopper \in {"away", "stored", "flagged", "returned"}
    /\ offered \in 0..MaxPackets
    /\ Len(queue) <= MaxQueue
    /\ {written, failed, invalid} \subseteq Nat
    /\ reason \in {"none", "connection", "writes"}

Before(r, s) == r[1] < s[1] \/ (r[1] = s[1] /\ r[2] < s[2])

(* Records go out in the order of the packets and, within one, of its      *)
(* records, and none goes out twice: a failed write is not retried and no  *)
(* packet returns to the queue, whatever happens to the connection in      *)
(* between.                                                                *)
SentInOrder ==
    \A i, j \in 1..Len(sent) : i < j => Before(sent[i], sent[j])

(* A packet is popped only over an open connection, for a popped packet    *)
(* that cannot be written is lost; and dl_write never gets a client that   *)
(* connect() has freed.                                                    *)
ConnectedWhenPopping ==
    /\ pc = "pop" => link = "open"
    /\ pc = "write" => link # "null"

LastWritesFailed ==
    /\ Len(attempted) >= MaxWriteFailures
    /\ \A i \in (Len(attempted) - MaxWriteFailures + 1)..Len(attempted) :
           attempted[i] \notin ToSet(sent)

(* "Too many consecutive write failures": the thread gives up exactly when *)
(* the last MaxWriteFailures records given to dl_write all failed, and the *)
(* count survives a reconnection and the records of different packets.     *)
GivesUpExactly == (reason = "writes") <=> LastWritesFailed

(* The exported counters: every record given to dl_write is counted once,  *)
(* as written or as failed, and the former are those it accepted.          *)
WritesCounted ==
    /\ written = Len(sent)
    /\ written + failed = Len(attempted)

(* After stop(): the writer starts at most one more packet, sleeps through *)
(* at most one full timeout (the lost wake-up), and tries to connect at    *)
(* most as often as the reconnection in progress still allows.             *)
StopIsPrompt ==
    /\ late.pops <= 1
    /\ late.timeouts <= 1
    /\ late.connects <= ReconnectAttempts

(* A writer that is told to stop ends, connected or not. *)
StopEnds == stopper # "away" ~> pc \in Finished

(* A stored packet does not stay for ever: it is popped or evicted, unless *)
(* the thread ends, which no write failure or empty record prevents.       *)
PacketsLeave ==
    \A p \in 1..MaxPackets :
        p \in ToSet(queue) ~> (p \notin ToSet(queue) \/ pc \in Finished)

=============================================================================
