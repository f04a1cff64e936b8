----------------------------- MODULE StreamMetrics -----------------------------
(***************************************************************************)
(* The packet counters of every stream: the propagator thread classifies   *)
(* each packet (StreamMetrics::update), from time to time publishes the    *)
(* running counts (tabulateAndResetAllMetrics), and the main thread sums   *)
(* what is published (printSummary) while it is being published, and the   *)
(* exporter thread observes it.  The four observers are alike and each has *)
(* a map of its own, so one of them is followed.                           *)
(*                                                                         *)
(* A time is a small number; ExpireAge stands for six months.  The clock   *)
(* is external.  The averages of counts and latency are not modelled.      *)
(***************************************************************************)
EXTENDS Integers, Sequences, FiniteSets, FiniteSetsExt

CONSTANTS NumStreams,    \* streams, in the order of their identifiers
          ExpireAge,     \* months {6}
          Watched,       \* the kind of count whose observer is followed
          PrintSummaryInterval,  \* minutes {15}: no reports unless positive
          MaxTime,       \* bound: the clock
          MaxUpdates     \* bound: packets

Kinds == {"good", "future", "expired", "total"}

ASSUME MetricsAssumption ==
    /\ Watched \in Kinds
    /\ NumStreams \in Nat \ {0}
    /\ ExpireAge \in Nat \ {0}
    /\ PrintSummaryInterval \in Int
    /\ MaxTime \in Nat
    /\ MaxUpdates \in Nat

Streams == 1..NumStreams
Times == 1..(MaxTime + 1)

(* The order in which tabulateAndResetMetrics publishes the counts. *)
PublishOrder == <<"good", "future", "expired", "total">>

VARIABLES now,         \* the clock
          newest,      \* mMostRecentSample of every stream
          known,       \* the streams in mMetrics
          running,     \* the running counters of every stream
          shown,       \* the ObservableMaps: for each kind, stream to count
          pc,          \* where the propagator is
          todo,        \* the streams it still has to tabulate
          snapshot,    \* the counts it publishes
          stage,       \* which of them is next
          summary,     \* printSummary: keys still to read, sum so far
          lastReport,  \* mReceivedLastReport
          looping,     \* is the main thread in its loop?
          unobserved,  \* the keys the observer still has to look up
          exported,    \* what it last observed of every stream
          updates,     \* history: the number of packets
          arrived,     \* history: the packets of every stream, in their order
          counted      \* history: packets of each kind, as classified

propagatorVars == <<newest, known, running, shown, pc, todo, snapshot, stage,
                    updates, arrived, counted>>
summaryVars == <<summary, lastReport, looping>>
exporterVars == <<unobserved, exported>>
vars == <<now, propagatorVars, summaryVars, exporterVars>>

Zero == [k \in Kinds |-> 0]
Asleep == [keys |-> {}, sum |-> 0, reading |-> FALSE]

Init ==
    /\ now = 1
    /\ newest = [s \in Streams |-> 0]
    /\ known = {}
    /\ running = [s \in Streams |-> Zero]
    /\ shown = [k \in Kinds |-> [s \in {} |-> 0]]
    /\ pc = "idle"
    /\ todo = {}
    /\ snapshot = Zero
    /\ stage = 1
    /\ summary = Asleep
    /\ lastReport = 0
    /\ looping = TRUE
    /\ unobserved = {}
    /\ exported = [s \in Streams |-> 0]
    /\ updates = 0
    /\ arrived = [s \in Streams |-> <<>>]
    /\ counted = [s \in Streams |-> Zero]

Tick ==
    /\ now < MaxTime
    /\ now' = now + 1
    /\ UNCHANGED <<propagatorVars, summaryVars>>

-----------------------------------------------------------------------------
(* The propagator: a packet. *)

(* Mutant: a late packet counts as good. *)
ClassByClock(s, e) ==
    IF e <= now THEN {"good", "total"}
    ELSE {"future", "total"}

(* Mutant: whatever is too old is expired, good or not. *)
ClassExpiredToo(s, e) ==
    {"total"}
        \cup (IF e > newest[s] /\ e <= now THEN {"good"} ELSE {})
        \cup (IF e > now THEN {"future"} ELSE {})
        \cup (IF e < now - ExpireAge THEN {"expired"} ELSE {})

(* What a packet that ends at time e is counted as, in the order of the    *)
(* tests; a packet that is neither new, nor of the future, nor expired is  *)
(* only part of the total.                                                 *)
Class(s, e) ==
    IF e > newest[s] /\ e <= now THEN {"good", "total"}
    ELSE IF e > now THEN {"future", "total"}
    ELSE IF e < now - ExpireAge THEN {"expired", "total"}
    ELSE {"total"}

(* The first packet of a stream makes its metrics.  When the statistics of *)
(* a good packet cannot be computed, it is remembered but not counted.     *)
Update(s, e) ==
    /\ pc = "idle"
    /\ updates < MaxUpdates
    /\ known' = known \cup {s}
    /\ updates' = updates + 1
    /\ LET good == "good" \in Class(s, e)
       IN \E success \in (IF good THEN BOOLEAN ELSE {TRUE}) :
              LET add(c) == [k \in Kinds |->
                      c[k] + (IF success /\ k \in Class(s, e) THEN 1 ELSE 0)]
              IN /\ running' = [running EXCEPT ![s] = add(@)]
                 /\ counted' = [counted EXCEPT ![s] = add(@)]
                 /\ newest' = [newest EXCEPT ![s] = IF good THEN e ELSE @]
                 /\ arrived' = [arrived EXCEPT ![s] =
                        Append(@, [end |-> e, future |-> e > now,
                                   good |-> good /\ success])]
    /\ UNCHANGED <<now, shown, pc, todo, snapshot, stage, summaryVars>>

-----------------------------------------------------------------------------
(* The propagator: the counts are due. *)

(* Every stream there are metrics of, each in its turn. *)
BeginTabulate ==
    /\ pc = "idle"
    /\ known # {}
    /\ todo' = known
    /\ pc' = "snapshot"
    /\ UNCHANGED <<now, newest, known, running, shown, snapshot, stage, updates,
                   arrived, counted, summaryVars>>

TakeCounts(rest) ==
    /\ pc = "snapshot"
    /\ snapshot' = running[Min(todo)]
    /\ running' = [running EXCEPT ![Min(todo)] = rest]
    /\ stage' = 1
    /\ pc' = "publish"
    /\ UNCHANGED <<now, newest, known, shown, todo, updates, arrived, counted,
                   summaryVars>>

(* Mutant: the running counts go on. *)
SnapshotWithoutReset == TakeCounts(running[Min(todo)])

(* Under the lock of the stream: take the counts and start over. *)
Snapshot == TakeCounts(Zero)

(* Mutant: insert_or_assign. *)
Assign(f, s, n) == [t \in DOMAIN f \cup {s} |-> IF t = s THEN n ELSE f[t]]

(* add_or_assign, under the lock of the map. *)
AddOrAssign(f, s, n) ==
    [t \in DOMAIN f \cup {s} |->
        (IF t \in DOMAIN f THEN f[t] ELSE 0) + (IF t = s THEN n ELSE 0)]

(* The counts of a stream are published one after the other. *)
Publish ==
    /\ pc = "publish"
    /\ LET k == PublishOrder[stage]
       IN shown' = [shown EXCEPT ![k] = AddOrAssign(@, Min(todo), snapshot[k])]
    /\ IF stage < Len(PublishOrder)
       THEN /\ stage' = stage + 1
            /\ UNCHANGED <<pc, todo>>
       ELSE /\ stage' = 1
            /\ todo' = todo \ {Min(todo)}
            /\ pc' = IF todo' = {} THEN "idle" ELSE "snapshot"
    /\ UNCHANGED <<now, newest, known, running, snapshot, updates, arrived,
                   counted, summaryVars>>

Propagator ==
    \/ \E s \in Streams, e \in Times : Update(s, e)
    \/ BeginTabulate
    \/ Snapshot
    \/ Publish

-----------------------------------------------------------------------------
(* The main thread: sumTotalPacketsReceived and the report. *)

(* In the loop, when a report is due; without an interval none ever is.    *)
ReadKeys ==
    /\ looping
    /\ PrintSummaryInterval > 0
    /\ ~summary.reading
    /\ summary' = [keys |-> DOMAIN shown["total"], sum |-> 0, reading |-> TRUE]
    /\ UNCHANGED <<now, propagatorVars, lastReport, looping>>

Read(sum) ==
    /\ summary.reading
    /\ summary.keys # {}
    /\ summary' = [summary EXCEPT !.keys = @ \ {Min(@)}, !.sum = sum]
    /\ UNCHANGED <<now, propagatorVars, lastReport, looping>>

NextValue == shown["total"][Min(summary.keys)]

(* Mutant: the sum is overwritten. *)
ReadLastValue == Read(NextValue)

(* Every value is read under a lock of its own. *)
ReadValue == Read(summary.sum + NextValue)

Report ==
    /\ summary.reading
    /\ summary.keys = {}
    /\ lastReport' = summary.sum
    /\ summary' = Asleep
    /\ UNCHANGED <<now, propagatorVars, looping>>

(* A signal or a dead thread ends the loop, between two reports; nothing   *)
(* is reported any more.                                                   *)
LeaveLoop ==
    /\ looping
    /\ ~summary.reading
    /\ looping' = FALSE
    /\ UNCHANGED <<now, propagatorVars, summary, lastReport>>

Main == ReadKeys \/ ReadValue \/ Report

-----------------------------------------------------------------------------
(* The exporter's thread: an observer, called from time to time. *)

ObserveKeys ==
    /\ unobserved = {}
    /\ unobserved' = DOMAIN shown[Watched]
    /\ UNCHANGED <<now, propagatorVars, summaryVars, exported>>

(* Every value is looked up under a lock of its own. *)
ObserveValue ==
    /\ unobserved # {}
    /\ unobserved' = unobserved \ {Min(unobserved)}
    /\ exported' = [exported EXCEPT ![Min(unobserved)] = shown[Watched][Min(unobserved)]]
    /\ UNCHANGED <<now, propagatorVars, summaryVars>>

Exporter == ObserveKeys \/ ObserveValue

Next ==
    \/ (Tick \/ Propagator \/ Main \/ LeaveLoop) /\ UNCHANGED exporterVars
    \/ Exporter

(* A publication that has begun is completed, and the main thread goes     *)
(* round its loop, as long as it is in it; nothing obliges a packet to     *)
(* come or the loop to end.                                                *)
Spec ==
    /\ Init /\ [][Next]_vars
    /\ WF_propagatorVars(Snapshot \/ Publish)
    /\ WF_summaryVars(Main)

-----------------------------------------------------------------------------
(* Properties. *)

Shown(k, s) == IF s \in DOMAIN shown[k] THEN shown[k][s] ELSE 0

(* The count of kind k that was taken from stream s and not yet published. *)
InFlight(k, s) ==
    IF pc = "publish" /\ s = Min(todo)
          /\ \E i \in stage..Len(PublishOrder) : PublishOrder[i] = k
    THEN snapshot[k] ELSE 0

(* No packet is counted twice or forgotten, at any point of the            *)
(* publication: what was classified is running, in flight or published.    *)
CountsConserved ==
    \A s \in Streams, k \in Kinds :
        counted[s][k] = running[s][k] + InFlight(k, s) + Shown(k, s)

(* Between two publications the parts never exceed the total, although     *)
(* each count is published under a lock of its own.                        *)
PartsWithinTotal ==
    pc = "idle" => \A s \in Streams :
        Shown("good", s) + Shown("future", s) + Shown("expired", s)
            <= Shown("total", s)

(* A stream's good packets are in time order: one that is good was not in  *)
(* the future when it came, and ends later than every packet of the stream *)
(* before it, good or not, that was not in the future either.  A packet    *)
(* that is late or sent again is not good.                                 *)
GoodPacketsAreNew ==
    \A s \in Streams : \A j \in DOMAIN arrived[s] :
        arrived[s][j].good =>
            /\ ~arrived[s][j].future
            /\ \A i \in 1..(j - 1) :
                   arrived[s][i].future \/ arrived[s][i].end < arrived[s][j].end

(* Whoever reads while the counts are published, key by key, never sees    *)
(* them go back: the packets received since the last report are not        *)
(* negative, and the counters that are exported, which have to be          *)
(* monotonic, are.                                                         *)
ReportsNeverDecrease ==
    [][/\ lastReport' >= lastReport
       /\ \A s \in Streams : exported'[s] >= exported[s]]_<<lastReport, exported>>

(* What has been published is reported in the end, if reports are asked    *)
(* for and the main loop goes on: the sum the main thread forms key by key *)
(* catches up with the maps.                                               *)
CountsReported ==
    \A n \in 1..MaxUpdates :
        /\ PrintSummaryInterval > 0
        /\ MapThenSumSet(LAMBDA s : shown["total"][s], DOMAIN shown["total"]) >= n
            ~> lastReport >= n \/ ~looping

-----------------------------------------------------------------------------
(* A claim of the documentation that the code does not meet. *)

(* "The total number of packets received (this would be `good', future,    *)
(* and expired packets)" (README.md): between two publications the total   *)
(* is their sum.                                                           *)
TotalIsSumOfParts ==
    pc = "idle" => \A s \in Streams :
        Shown("total", s) =
            Shown("good", s) + Shown("future", s) + Shown("expired", s)

=============================================================================
