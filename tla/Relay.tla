--------------------------------- MODULE Relay ---------------------------------
(***************************************************************************)
(* The whole program, as class Process puts it together: the main thread   *)
(* (start, handleMainThread, stop, destructor), the SEEDLink thread, the   *)
(* propagator thread of tabulateMetrics, one writer thread per DataLink    *)
(* client, the signal handler, and the queues between them.                *)
(*                                                                         *)
(* The parts stand here for what their own modules establish: a queue is   *)
(* the LossyFifo that DropOldestQueue implements; a writer pops, delivers  *)
(* or loses the packet, may throw at any time and ends once stopped        *)
(* (DataLinkWriter!StopEnds); so does the SEEDLink thread                  *)
(* (SEEDLinkClient!StopEnds), which throws instead of returning when it    *)
(* sees the terminate request first.                                       *)
(***************************************************************************)
EXTENDS Integers, Sequences, SequencesExt

CONSTANTS NumWriters,   \* mDataLinkClients.size()
          ImportSize,   \* mImportQueueMaximumSize
          ExportSize,   \* mMaximumInternalQueueSize of every client
          MaxPackets    \* bound: packets SEEDLink sends

ASSUME RelayAssumption ==
    /\ NumWriters \in Nat \ {0}
    /\ ImportSize \in Nat \ {0}
    /\ ExportSize \in Nat \ {0}
    /\ MaxPackets \in Nat

Writers == 1..NumWriters

VARIABLES main,          \* where the main thread is
          client,        \* the client its loops over the clients are at
          stops,         \* how often stop() was entered
          interrupted,   \* mInterrupted
          keepRunning,   \* mKeepRunning of the process
          destroyed,     \* the clients are null
          propagator,    \* where the propagator thread is
          packet,        \* the packet it propagates
          target,        \* the client it gives the packet to next
          importer,      \* the SEEDLink thread
          importerStop,  \* stop() of the SEEDLink client was called
          importFuture,  \* mSEEDLinkClientFuture: none, valid or spent
          writer,        \* the writer threads
          writerStop,    \* stop() of the DataLink client was called
          writerFuture,  \* mDataLinkClientFutures
          imported,      \* packets 1..imported came from SEEDLink
          importQueue,   \* mImportQueue
          exportQueue,   \* the mQueue of every client
          popped,        \* history: how many packets the propagator popped
          given,         \* history: how many of them each client was given
          delivered      \* history: packets each RingServer received

flagVars == <<stops, interrupted, keepRunning, destroyed>>
mainVars == <<main, client, flagVars>>
propagatorVars == <<propagator, packet, target>>
importerVars == <<importer, importerStop, importFuture, imported>>
writerVars == <<writer, writerStop, writerFuture>>
queueVars == <<importQueue, exportQueue, popped, given, delivered>>
vars == <<mainVars, propagatorVars, importerVars, writerVars, queueVars>>

Ended == {"returned", "threw"}

Init ==
    /\ main = "construct"
    /\ client = 1
    /\ stops = 0
    /\ interrupted = FALSE
    /\ keepRunning = TRUE
    /\ destroyed = FALSE
    /\ propagator = "unborn"
    /\ packet = 0
    /\ target = 1
    /\ importer = "unborn"
    /\ importerStop = FALSE
    /\ importFuture = "none"
    /\ writer = [w \in Writers |-> "unborn"]
    /\ writerStop = [w \in Writers |-> FALSE]
    /\ writerFuture = [w \in Writers |-> "none"]
    /\ imported = 0
    /\ importQueue = <<>>
    /\ exportQueue = [w \in Writers |-> <<>>]
    /\ popped = 0
    /\ given = [w \in Writers |-> 0]
    /\ delivered = [w \in Writers |-> <<>>]

(* What offering packet p makes of a queue q of at most n packets: the     *)
(* oldest makes room for p, or not (and it may although the consumer has   *)
(* just made room itself); then p enters, or is refused.                   *)
Offered(q, n, p) ==
    (IF Len(q) < n THEN {Append(q, p)} ELSE {})
        \cup (IF q = <<>> THEN {} ELSE {Append(Tail(q), p), Tail(q)}) \cup {q}

-----------------------------------------------------------------------------
(* The SEEDLink thread and its callback. *)

Import ==
    /\ importer = "running"
    /\ imported < MaxPackets
    /\ imported' = imported + 1
    /\ importQueue' \in Offered(importQueue, ImportSize, imported + 1)
    /\ UNCHANGED <<mainVars, propagatorVars, importer, importerStop, importFuture,
                   writerVars, exportQueue, popped, given, delivered>>

ImporterEnds(how) ==
    /\ importer = "running"
    /\ importer' = how
    /\ UNCHANGED <<mainVars, propagatorVars, importerStop, importFuture,
                   imported, writerVars, queueVars>>

ImporterThrows == ImporterEnds("threw")

(* Mutant: the thread returns when the library gives up. *)
ImporterReturnsEarly == ImporterEnds("returned")

(* The thread returns only when it was stopped. *)
ImporterReturns == importerStop /\ ImporterEnds("returned")

-----------------------------------------------------------------------------
(* The propagator thread. *)

TestRunning ==
    /\ propagator = "test"
    /\ propagator' = IF keepRunning THEN "pop" ELSE "returned"
    /\ UNCHANGED <<mainVars, packet, target, importerVars, writerVars, queueVars>>

PopNothing ==
    /\ propagator = "pop"
    /\ importQueue = <<>>
    /\ propagator' = "test"
    /\ UNCHANGED <<mainVars, packet, target, importerVars, writerVars, queueVars>>

(* The metrics of the packet are updated here as well. *)
PopImport ==
    /\ propagator = "pop"
    /\ importQueue # <<>>
    /\ propagator' = "propagate"
    /\ packet' = Head(importQueue)
    /\ target' = 1
    /\ importQueue' = Tail(importQueue)
    /\ popped' = popped + 1
    /\ UNCHANGED <<mainVars, importerVars, writerVars, exportQueue, given, delivered>>

PropagateUntil(last) ==
    /\ propagator = "propagate"
    /\ \E q \in Offered(exportQueue[target], ExportSize, packet) :
           exportQueue' = [exportQueue EXCEPT ![target] = q]
    /\ given' = [given EXCEPT ![target] = @ + 1]
    /\ propagator' = IF last THEN "test" ELSE "propagate"
    /\ target' = IF last THEN 1 ELSE target + 1
    /\ UNCHANGED <<mainVars, packet, importerVars, writerVars, importQueue,
                   popped, delivered>>

(* Mutant: the loop over the clients ends when the process is stopped. *)
PropagateWhileRunning == PropagateUntil(target = NumWriters \/ ~keepRunning)

(* Every client is given the packet, whether or not its writer still runs. *)
Propagate == PropagateUntil(target = NumWriters)

Propagator == TestRunning \/ PopNothing \/ PopImport \/ Propagate

-----------------------------------------------------------------------------
(* The writer threads. *)

(* Mutant: a packet stays queued until its write is reported as done, and  *)
(* one that got through is written again.                                  *)
WriteAtLeastOnce(w) ==
    /\ writer[w] = "running"
    /\ exportQueue[w] # <<>>
    /\ delivered' = [delivered EXCEPT ![w] = Append(@, Head(exportQueue[w]))]
    /\ exportQueue' \in {exportQueue, [exportQueue EXCEPT ![w] = Tail(@)]}
    /\ UNCHANGED <<mainVars, propagatorVars, importerVars, writerVars,
                   importQueue, popped, given>>

(* The packet reaches the RingServer, or it is invalid or its write fails. *)
Write(w) ==
    /\ writer[w] = "running"
    /\ exportQueue[w] # <<>>
    /\ exportQueue' = [exportQueue EXCEPT ![w] = Tail(@)]
    /\ delivered' \in
           {delivered, [delivered EXCEPT ![w] = Append(@, Head(exportQueue[w]))]}
    /\ UNCHANGED <<mainVars, propagatorVars, importerVars, writerVars,
                   importQueue, popped, given>>

WriterEnds(w, how) ==
    /\ writer[w] = "running"
    /\ writer' = [writer EXCEPT ![w] = how]
    /\ UNCHANGED <<mainVars, propagatorVars, importerVars, writerStop,
                   writerFuture, queueVars>>

WriterThrows(w) == WriterEnds(w, "threw")

WriterReturns(w) == writerStop[w] /\ WriterEnds(w, "returned")

-----------------------------------------------------------------------------
(* The main thread: construction and start(). *)

Step(from, to) ==
    /\ main = from
    /\ main' = to
    /\ UNCHANGED <<client, flagVars, propagatorVars, importerVars, writerVars,
                   queueVars>>

(* A client that cannot connect, or a failed ping: the program gives up.   *)
Construct == Step("construct", "startPropagator") \/ Step("construct", "exit")

StartPropagator ==
    /\ main = "startPropagator"
    /\ keepRunning' = TRUE
    /\ propagator' = "test"
    /\ client' = 1
    /\ main' = "startWriters"
    /\ UNCHANGED <<stops, interrupted, destroyed, packet, target, importerVars,
                   writerVars, queueVars>>

(* The main thread is done with this client, or with all of them. *)
NextClient(again, done) ==
    /\ main' = IF client = NumWriters THEN done ELSE again
    /\ client' = IF client = NumWriters THEN 1 ELSE client + 1

StartWriter ==
    /\ main = "startWriters"
    /\ writer' = [writer EXCEPT ![client] = "running"]
    /\ writerFuture' = [writerFuture EXCEPT ![client] = "valid"]
    /\ NextClient("startWriters", "startImporter")
    /\ UNCHANGED <<flagVars, propagatorVars, importerVars, writerStop, queueVars>>

StartImporter ==
    /\ main = "startImporter"
    /\ importer' = "running"
    /\ importFuture' = "valid"
    /\ main' = "catch"
    /\ UNCHANGED <<client, flagVars, propagatorVars, importerStop, imported,
                   writerVars, queueVars>>

-----------------------------------------------------------------------------
(* handleMainThread. *)

CatchSignals == Step("catch", "loop")

TestInterrupted ==
    \/ interrupted /\ Step("loop", "stopFlag")
    \/ ~interrupted /\ Step("loop", "checkImporter")

(* The future of a thread that ended is spent by get(); it rethrows.       *)
CheckImporter ==
    /\ main = "checkImporter"
    /\ main' = IF importer = "threw" THEN "checkWritersAndStop" ELSE "checkWriters"
    /\ client' = 1
    /\ importFuture' = IF importer \in Ended THEN "spent" ELSE importFuture
    /\ UNCHANGED <<flagVars, propagatorVars, importer, importerStop, imported,
                   writerVars, queueVars>>

CheckFuture(failed) ==
    /\ main \in {"checkWriters", "checkWritersAndStop"}
    /\ writerFuture' = [writerFuture EXCEPT ![client] =
                            IF writer[client] \in Ended THEN "spent" ELSE @]
    /\ IF failed
       THEN main' = "stopFlag" /\ client' = 1
       ELSE NextClient(main, IF main = "checkWriters" THEN "loop" ELSE "stopFlag")
    /\ UNCHANGED <<flagVars, propagatorVars, importerVars, writer, writerStop,
                   queueVars>>

(* Mutant: the exception of a writer is only logged. *)
CheckWriterAndLog == CheckFuture(FALSE)

(* The first writer that threw ends the loop over the futures.             *)
CheckWriter == CheckFuture(writer[client] = "threw")

-----------------------------------------------------------------------------
(* stop(), called by handleMainThread and again by the destructor. *)

StopFlag ==
    /\ main = "stopFlag"
    /\ keepRunning' = FALSE
    /\ stops' = stops + 1
    /\ main' = "joinPropagator"
    /\ UNCHANGED <<client, interrupted, destroyed, propagatorVars, importerVars,
                   writerVars, queueVars>>

(* Mutant: the propagator is not joined. *)
JoinNothing == Step("joinPropagator", "stopImporter")

(* A thread that was joined, or never started, is not joinable. *)
JoinPropagator ==
    propagator \in {"unborn", "returned"} /\ Step("joinPropagator", "stopImporter")

TellImporter(stop) ==
    /\ main = "stopImporter"
    /\ importerStop' = (importerStop \/ stop)
    /\ client' = 1
    /\ main' = "stopWriters"
    /\ UNCHANGED <<flagVars, propagatorVars, importer, importFuture, imported,
                   writerVars, queueVars>>

(* Mutant: the SEEDLink client is not stopped. *)
StopImporterForgotten == TellImporter(FALSE)

(* A client that was destroyed is not stopped again. *)
StopImporter == TellImporter(~destroyed)

StopWriter ==
    /\ main = "stopWriters"
    /\ writerStop' = [writerStop EXCEPT ![client] = @ \/ ~destroyed]
    /\ NextClient("stopWriters", "getImporter")
    /\ UNCHANGED <<flagVars, propagatorVars, importerVars, writer, writerFuture,
                   queueVars>>

Got(future) == IF future = "valid" THEN "spent" ELSE future

(* get() blocks until the thread has ended; an exception is only logged.   *)
GetImporter ==
    /\ main = "getImporter"
    /\ importFuture = "valid" => importer \in Ended
    /\ importFuture' = Got(importFuture)
    /\ client' = 1
    /\ main' = "getWriters"
    /\ UNCHANGED <<flagVars, propagatorVars, importer, importerStop, imported,
                   writerVars, queueVars>>

(* Mutant: the writers are not waited for. *)
GetNoWriter ==
    /\ main = "getWriters"
    /\ writerFuture' = [writerFuture EXCEPT ![client] = Got(@)]
    /\ NextClient("getWriters", "destroy")
    /\ UNCHANGED <<flagVars, propagatorVars, importerVars, writer, writerStop,
                   queueVars>>

(* The same for every writer. *)
GetWriter ==
    /\ main = "getWriters"
    /\ writerFuture[client] = "valid" => writer[client] \in Ended
    /\ writerFuture' = [writerFuture EXCEPT ![client] = Got(@)]
    /\ NextClient("getWriters", "destroy")
    /\ UNCHANGED <<flagVars, propagatorVars, importerVars, writer, writerStop,
                   queueVars>>

(* The clients are destroyed; after the first stop() the destructor of the *)
(* process calls it again.                                                 *)
Destroy ==
    /\ main = "destroy"
    /\ destroyed' = TRUE
    /\ main' = IF stops = 1 THEN "stopFlag" ELSE "exit"
    /\ UNCHANGED <<client, stops, interrupted, keepRunning, propagatorVars,
                   importerVars, writerVars, queueVars>>

Starting == Construct \/ StartPropagator \/ StartWriter \/ StartImporter

Watching == CatchSignals \/ TestInterrupted \/ CheckImporter \/ CheckWriter

Stopping ==
    \/ StopFlag \/ JoinPropagator \/ StopImporter \/ StopWriter
    \/ GetImporter \/ GetWriter \/ Destroy

Main == Starting \/ Watching \/ Stopping

-----------------------------------------------------------------------------
(* SIGINT or SIGTERM: until catchSignals the process just dies. *)

Signal ==
    /\ ~interrupted
    /\ main \notin {"construct", "startPropagator", "startWriters",
                    "startImporter", "catch", "exit"}
    /\ interrupted' = TRUE
    /\ UNCHANGED <<main, client, stops, keepRunning, destroyed, propagatorVars,
                   importerVars, writerVars, queueVars>>

Workers ==
    \/ Import
    \/ ImporterThrows
    \/ ImporterReturns
    \/ Propagator
    \/ \E w \in Writers : Write(w) \/ WriterThrows(w) \/ WriterReturns(w)

Next == Main \/ Signal \/ Workers

(* The main and the propagator thread are scheduled; a stopped worker ends *)
(* (StopEnds of its module), by returning or by throwing.  Nobody need     *)
(* interrupt the program or send it packets, and a writer that is stuck in *)
(* a reconnection need not pop.                                            *)
Fairness ==
    /\ WF_vars(Main)
    /\ WF_vars(Propagator)
    /\ WF_vars(ImporterReturns)
    /\ \A w \in Writers : WF_vars(WriterReturns(w))

Spec == Init /\ [][Next]_vars /\ Fairness

-----------------------------------------------------------------------------
(* Properties. *)

(* Every RingServer receives packets in the order SEEDLink sent them, and  *)
(* none twice, through two lossy queues and three threads.                 *)
DeliveredInOrder ==
    \A w \in Writers : \A i, j \in 1..Len(delivered[w]) :
        i < j => delivered[w][i] < delivered[w][j]

(* Between two rounds of the propagator every client has been given every  *)
(* packet it popped: the packet in flight is not dropped when the program  *)
(* is told to stop, nor when a writer has died.                            *)
FanOutComplete ==
    propagator # "propagate" => \A w \in Writers : given[w] = popped

(* No thread is left that could touch a client, or the process through the *)
(* callback, when the clients are destroyed.                               *)
NoUseAfterDestroy ==
    destroyed => /\ propagator \in {"unborn", "returned"}
                 /\ importer # "running"
                 /\ \A w \in Writers : writer[w] # "running"

(* The main loop never waits on a future whose get() was called: a worker  *)
(* ends without an exception only after stop(), so a spent future always   *)
(* means that the loop is left.                                            *)
FuturesStayValid ==
    /\ main = "checkImporter" => importFuture = "valid"
    /\ main \in {"loop", "checkImporter"} =>
           \A w \in Writers : writerFuture[w] = "valid"

(* Once the propagator is joined the export queues only shrink: what the   *)
(* writers still clear is bounded.                                         *)
Draining == main \in {"stopImporter", "stopWriters", "getImporter", "getWriters"}

OnlyDrainsAfterJoin ==
    [][Draining => \A w \in Writers :
           Len(exportQueue'[w]) <= Len(exportQueue[w])]_vars

(* A signal stops the program, whatever its threads are doing. *)
InterruptEnds == interrupted ~> main = "exit"

(* So does the death of any worker: the others do not run on without it.   *)
FailureEnds ==
    (importer = "threw" \/ \E w \in Writers : writer[w] = "threw")
        ~> main = "exit"

=============================================================================
