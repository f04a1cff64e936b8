# A formal model of uSEEDLinkToRingServer

uSEEDLinkToRingServer reads seismic packets from a SEEDLink server, keeps
metrics on them, and forwards them to one or more RingServers over DataLink.
It is a small program with many threads: losing a packet is allowed, but only
in the places and for the reasons the code intends. This directory holds TLA+
models of its threads and of what they do with a packet and a configuration, the
TLC runs that check them, and TLAPS proofs of all their safety properties.
Paths below are relative to `src/`, the repository.

    tlc -config ImportQueue.cfg DropOldestQueue     # one run
    tlapm DropOldestQueueProofs.tla                 # the proofs of one module

`PROJECT.json` lists the runs, the source lines every definition stands for,
the mutations that show every property can fail, the hazards and the findings.

## 1. The system

Thread structure, queues and control flow:

    SEEDLink server                                   RingServer 1 .. n
         |  libslink                                       ^  libdali
    SEEDLink thread --import queue--> propagator --export queue--> writer thread
    packetToCallback  addPacketCallback  tabulateMetrics  enqueue   runWriter
         ^                                   |                        ^
         |                              StreamMetrics                 |
         +------- futures, stop(), destruction: main thread ----------+

| Component | State | Operations | What is hard | What makes it correct |
|---|---|---|---|---|
| `Process`, `main` (`src/seedLinkToRingServer.cpp`) | `mKeepRunning`, `mInterrupted`, `mStopRequested`, the thread, the futures, the clients | constructor, `start`, `handleMainThread`, `checkFuturesOkay`, `stop`, destructor, signal handler | the order of the shutdown; `stop()` runs twice; a future may be got once only; any worker may die at any time | the program ends when it is told to or when a worker dies; nothing is used after it is destroyed |
| import queue (same file) | the queue, two counters | `addPacketCallback`; `try_dequeue` by the propagator | the producer evicts while the consumer pops, without a lock | order; only the oldest are lost, only when full; losses are counted |
| export queues (`src/dataLinkClient.cpp`) | the queue, a counter | `enqueue`; `try_dequeue` by the writer | the same, and a failed pop does not leave the loop | the same, and `enqueue` comes back |
| `DataLinkClient` (`src/dataLinkClient.cpp`) | connection, consecutive failures, `mKeepRunning`, `mTerminateRequested` | `start`, `stop`, `runWriter`, `connect` | a link lost in the middle of a packet; reconnection with timed waits; a `stop()` that does not hold the mutex | order; no packet is popped without a link; it gives up exactly when it says so; it stops |
| `SEEDLinkClient` (`src/seedLinkClient.cpp`) | connection and its sequence number, `mKeepRunning`, state file, update counter | `start`, `stop`, `packetToCallback`, `disconnect` | crashes between a packet and the save; saves that fail, which nobody looks at; the thread and the destructor both write the file | no gap, no duplicate while every run ends with its save, a bounded repetition otherwise |
| `StreamMetrics` (`src/streamMetrics.hpp`) | running counters of every stream, published maps | `update`, `tabulateAndResetAllMetrics`, `sumTotalPacketsReceived`, observers | counters are taken under one lock, published under others, and read key by key | nothing counted twice or forgotten |
| writer metrics (`src/writerMetrics*.{hpp,cpp}`) | atomic counters | increments, observers | several writers | every write is counted once |
| `main`, `.ini` file (`src/seedLinkToRingServer.cpp`, `src/programOptions.hpp`, `src/*ClientOptions.cpp`) | the options, the telemetry providers, the clients while they are made | `parseCommandLineOptions`, `parseIniFile`, the constructor of `Process`, `SEEDLinkClientImpl::initialize`, the returns of `main` | sections that hide each other, defaults, refusals; a dozen early returns, each with its own cleanup, and two ways to die in between | what runs is what the file says; no provider is left behind |
| `Packet`, packing (`src/packet.cpp`) | stream, rate, start, samples, and the end time kept beside them | setters, `clear`, `toDataLinkPackets` | a cached end time; a first pass whose records must be undone before the second | the end time is current; the records hold the samples once, in order |
| unpacking (`src/seedLinkClient.cpp`) | the packets made so far | `miniSEEDToDataPackets`, the loop over its result | a record in the middle of a buffer that cannot be read | all of a buffer or nothing, as it was |
| `StreamIdentifier` (`src/streamIdentifier.cpp`) | four codes, a flag, a cached string | setters, `clear` | the flag survives `clear`, the string must not | the string is current |
| `StreamSelector` (`src/streamSelector.cpp`) | codes, pattern, type | `fromString`, setters, `getSelector` | optional fields told apart by their length | the request sent is the one written |
| exporter, logging (`src/metricsExporter.hpp`, `src/logger.hpp`, `src/otelSpdlogSink.*`) | the providers | initialise, reset, observe | used after they are reset | see `main` and `StreamMetrics` |
| clock, version, test programs | none of their own | output | none | not modelled |

The code's interactions are calls (main to clients), callbacks (SEEDLink thread
into `Process`), the two kinds of queue, atomics (`mKeepRunning`), one condition
variable per writer, and futures through which a dead thread's exception reaches
the main thread. Only the SEEDLink state file survives the process.

## 2. The modules

| Module | Models | Extends / uses |
|---|---|---|
| `LossyFifo` | what a packet queue promises: stored, refused, or dropped as the oldest; delivered in order | |
| `DropOldestQueue` | `addPacketCallback` and `enqueue`, step by step, against a polling consumer | refines `LossyFifo` |
| `DropOldestQueueProofs` | the theorems about it | extends `DropOldestQueue`, `TLAPS` |
| `DataLinkWriter` | `DataLinkClientImpl`: `runWriter`, `connect`, `stop` | its queue is a `LossyFifo` in one step |
| `DataLinkWriterProofs` | the theorems about it | extends `DataLinkWriter`, `TLAPS` |
| `SEEDLinkClient` | `SEEDLinkClientImpl`: `packetToCallback`, `stop`, destructor, state file, failing saves, crashes | |
| `SEEDLinkClientProofs` | the theorems about it | extends `SEEDLinkClient`, `TLAPS` |
| `Relay` | `Process` with all its threads | each part reduced to what its own module establishes |
| `RelayProofs` | the theorems about it | extends `Relay`, `TLAPS` |
| `StreamMetrics` | classification, tabulation, publication, the summary and the exporter's thread | |
| `StreamMetricsProofs` | the theorems about it | extends `StreamMetrics`, `TLAPS` |
| `StreamIdentifier` | the setters of the class, as operators on a record | |
| `Packet` | the setters of the class and `toDataLinkPackets`, likewise | extends `StreamIdentifier` |
| `Conversion` | a buffer unpacked, handed on and packed; or the classes used in any order of calls | extends `Packet` |
| `StreamSelector` | `fromString` and the pattern, as operators | |
| `Startup` | `main`, the `.ini` file, the construction of `Process`, the ways out | extends `StreamSelector` |
| `Program` | `main` running the conversion with the writers it configured; the constants of its run | composes `Startup` and `Conversion` |
| `ProgramProofs` | the theorems about derived data, buffers and the exit | extends `Program`, `TLAPS` |
| `StartupProofs` | the theorem about the configuration | extends `Program`, `TLAPS` |
| `RecordProofs` | the theorem about the records | extends `ProgramProofs`, `StartupProofs` |

### DropOldestQueue

`pc` walks the producer through the function: `CheckSize` (the first `if`),
`TestLoop` (the `while`, and the counter incremented before the pop),
`PopOldest` / `PopFails`, `EnqueueAccepts` / `EnqueueRefuses`. `Claim` and
`Take` are the consumer's `try_dequeue`. `BreakOnFailedPop` is the one difference
between the two queues: `addPacketCallback` leaves its loop when a pop fails,
`enqueue` reads the size again.

The container is external. In the default build it is moodycamel's
`ConcurrentQueue` (`Optimistic = TRUE`): a dequeue first announces itself, which
makes another dequeue of the last element fail, and then advances the head,
which is when the size drops; hence `claimed`. `try_enqueue` does not allocate
and may refuse whenever its blocks are not free yet, so a refusal is always
possible. With `USE_TBB` (`Optimistic = FALSE`) the queue refuses exactly at its
capacity. Each queue has a single producer, so it is FIFO. Reads of the size are
taken to be current; a size that is stale beyond the claimed element is not
modelled.

### DataLinkWriter

`pc` is the place in `runWriter`: `top` (the loop condition and `isConnected`),
`wait` / `falling` / `asleep` (`wait_for`, split where `stop()` can slip in),
`connect`, `pop`, `write`. `link` is `null` (freed by a failed `connect`),
`closed` (`link == -1`) or `open`. A packet becomes any sequence of at most
`MaxRecords` records, any of them empty. A write may fail and keep the link, or
lose it; the next record is tried all the same, as in the code. `stop()` is its
three statements. No acknowledgement is asked for, so "sent" means accepted by
`dl_write`: the server has those records except what a broken link loses. `enqueue` is one
step with the outcomes `DropOldestQueue` has: stored, refused, the oldest gone for
the newest, or the oldest gone and the newest refused all the same.

### SEEDLinkClient

One stream. The server numbers its packets; the library resumes after the
stream's sequence number or, without one, from the next packet to come.
`sl_savestate` is two steps (truncated, written), so a crash leaves a torn file,
which the next start may reject or read as empty. It may also fail, and its
result is ignored at both places (`src/seedLinkClient.cpp:206`, `504`): the file
cannot be opened and stays as it was (`CountUnsaved`, `ExitUnsaved`), or cannot be
written and stays torn (`SaveFails`, `ExitUnsaved`). The loop resets its count
either way. So the properties do not assume that saves succeed; two of them say
what follows as long as the one that matters did. `unsaved` records that a run
ended without its last save, by a crash or a failure: `NoDuplicateWhenSaved` and
`NothingSkipped` speak of runs that all had it, whatever the saves before it did.
`missed` counts the packets of saves that could not begin: they come on top of
`Interval + 1` in `RedeliveryBound`. A torn file has no number, and
`RedeliveryBound` says nothing of it: the next start rejects it, or begins
with the packets to come. `stopper` is the thread that
calls `stop()` (test, terminate, store), waits, and runs the destructor. `Crash`
can happen at any point of a live process. The state-file options are chosen in
`Init` and kept over the runs. Whether a packet is too large for the buffer, and
whether it can be decoded, is found out when it first comes and stays so: the
server sends the same bytes again. The sets `tooLarge` and `undecodable` hold
what was found out. That matters for `RedeliveryBound`: packets that are too
large are not counted towards the next save, so any number of them may lie
between two saves, and the bound holds only because they are not decoded when
they come again either.

### Relay

`main` follows `Process`: construction, `start()`, `handleMainThread`, `stop()`,
and `stop()` again from the destructor. The worker threads are reduced to what
their modules show: a queue accepts, evicts or refuses (`Offered` allows an
eviction also when the queue is not full, which is what the race of
`DropOldestQueue` amounts to when several steps are seen as one, and a refusal
after it); a writer pops
and delivers or loses, throws at any time, and returns once stopped. Signals
count from `catchSignals()` on; before it the default action kills the process,
which is a crash as far as the SEEDLink state is concerned.

### StreamMetrics

`Class` is the `if` chain of `update` in its order. Tabulation takes the running
counters of one stream (`Snapshot`), then adds them to four maps one by one
(`Publish`), while the main thread reads the keys and then value after value.
Note the order of the tests: the first packet of a stream is good however old it
is, because `mMostRecentSample` starts at 0 and is tested first. The exporter's
thread is an observer of one of the four maps (`Watched`): it takes the keys, then
looks up value after value, each under a lock of its own. The main thread prints
summaries only when `printSummaryInterval` is positive and only while it is in its
loop, which it leaves at any time (`LeaveLoop`); after that nothing is reported,
and `CountsReported` says so. `arrived` is the history of a stream's packets: when
each ended, whether it was of the future when it came, and whether it was counted
as good.

### StreamIdentifier, Packet, Conversion

Codes, locations, rates and start times are small sets. Strings are what the
code makes of them: `convertString` trims and capitalises, which leaves a code, a
blank one or the two dashes; `string` is the sequence of codes that are joined.
Samples are their number and type. `EndTime` is computed as the code does it,
with the rounding of `std::round`, in units where a second is `Second` ticks and
libmseed's microsecond is `Microsecond` of them, so that the rounding of the
nanoseconds to what a record can hold is there. `msr3_pack` is external: it fills
records of `Capacity` samples, and without `MSF_FLUSHDATA` leaves the rest.
`toDataLinkPackets` makes its first pass, tests the records, and when they will
not do clears them and packs again. A call that throws changes nothing and is no
step, except in the program, where the buffer is given up (`UnpackThrows`).
`unpacking`, `unpacked` and `handed` follow `miniSEEDToDataPackets` record by
record and the loop over its result packet by packet; `Pack` is what a writer
does with the packet that was handed on last. The records have different codes in
different places, so that a code in the wrong one shows; the texts of
`LibraryCodes` are those the setters are called with when the classes are used
directly.

### StreamSelector, Startup

An `.ini` file is a record of the keys something depends on. A section is absent,
has an empty host, or has a host; these three are what the code tells apart, and
it tells them apart differently for each section. `parseIniFile` and its parts
are operators that yield the set of possible results, empty when they throw.
`phase` walks `main` through the command line, the file, the logger, the metrics,
the constructor of `Process` (writers one by one, then `initialize` with its
selectors, uni-station mode and ping), the start, the run and the ways out. Each
action that fails does the cleanup of its own handler. `phase` ends in `exited`, or
in `died`, which has two ways in. A log exporter that cannot be made throws outside
any `try` (`InitializeLoggerFails`). And after a failed start the logger's provider
is gone when the process is destroyed (`Orphaned`): `stop()` says at the level of
information that it terminates the SEEDLink client, the sink dereferences the null
provider (`src/otelSpdlogSink.cpp:24-25`), and the program dies before its clients
are destroyed (`ReturnDies`). Below that verbosity it survives unless one of the
threads has something to say, so both outcomes are possible. `CleanedUpAtExit`
says that neither happens to a program that ran to its end.

### Program

The two above side by side. In the phase `running`, buffers are unpacked and
packed with the record lengths and the flushing that the `.ini` file gave the
writers; in the phase `library`, which a behaviour starts in or never enters, the
setters of `StreamIdentifier` and `Packet` are called in any order, as the test
programs call them.

## 3. The runs

Deadlock checking is off everywhere: the packets are bounded, and every thread
of this program is meant to end.

| Run | Bounds | Shows |
|---|---|---|
| `ImportQueue` | size 2, 7 packets | `TypeOK`; `FifoOrder`; `LossAfterFull`; `ImplementsLossyFifo`, safety and liveness |
| `ExportQueue` | size 1, 6 packets, 2 failed pops | `Accounting`; `LossReported`; `SizeBound`; `OfferEnds` |
| `BoundedQueue` | size 3, 8 packets, TBB | `NewestAdmitted`; `ImplementsLossyFifoSafely` |
| `DataLinkWriter` | queue 2, 3 packets of at most 2 records, 3 failures, 2 attempts | order, connection before pop, giving up, counters, prompt stop, termination, progress |
| `SEEDLinkClient` | interval 1, 4 packets of which 2 may be lost, 2 process runs | no gap, no duplicate while every run ends with its save, bounded repetition, nothing skipped, termination |
| `Relay` | 2 writers, 3 packets, both queues of size 1 | order end to end, fan-out, no use after destruction, valid futures, draining, termination |
| `StreamMetrics` | 2 streams, 2 packets, 3 clock values, a positive summary interval; the exporter watches the total | conservation, classification, reports and exported counters that never go back, eventual reports |
| `Program` | some 150 `.ini` files, buffers of at most 2 of 8 kinds of record, at most 3 samples, records of 1 to 6 units of which 1 is the header, 20 ticks to a second and 4 to a microsecond | `DerivedCurrent`, `UnpackedIntact`, `RecordsFaithful`, `RunsAsConfigured`, `CleanedUpAtExit` |
| `DeletedOnStop`, `AskedMeansOrderly`, `UpdatedOnTime`, `TotalIsSumOfParts` | smaller | the code contradicts a statement of the repository (section 5) |

Why these bounds are enough to be interesting:

* The queue properties speak of at most three positions (consumer, queue,
  producer's hand). Six to eight packets over a queue of one to three overflow
  it several times with the consumer at every point of its dequeue. The safety
  part is proved for every size.
* In `DataLinkWriter` 3 failures stand for 32 and 2 attempts for 4: a run of
  failures can span records, packets and a reconnection, and both limits are hit
  and just missed.
* Two process runs are what a gap or a duplicate needs: one that saves, one that
  recovers. `Interval = 1` separates "each packet saved" from "every second".
* Two writers are what fan-out and "the first that threw ends the loop" need;
  three packets through queues of size 1 overflow both.
* In `StreamMetrics` a clock of three values with `ExpireAge = 1` lets a packet
  be good, late, expired and of the future; two streams are what makes the keys
  a reader took differ from the values it reads.
* In `SEEDLinkClient` an interval of 1 makes a save due after two packets, so four
  packets let a run crash before, in and after a save, or have it fail, and the
  next run repeat what came since. `MaxLost` bounds the packets that are too large
  or cannot be decoded; two of them can come together, one of each kind or apart.
* In `Program` the `.ini` files are those that differ in one group of keys (the
  writers' sections, telemetry, state file, selectors), since the groups do not
  depend on each other; every selector of one to five fields, and pairs with a
  duplicate, are among them. Three samples and records of up to five samples let
  a packet fit exactly, leave a rest, or need several records; rate 3 does not
  divide a second, rate 8 divides it in halves of a tick, so that both roundings
  happen.

Fairness. The scheduler runs every thread, and the libraries' calls return
(they have I/O timeouts), so each thread has weak fairness on its own steps; a
started dequeue ends. Nothing obliges SEEDLink to send, an operator to
interrupt, a caller to call `stop()` or a process to be started, so those have
none. The consumer of an export queue may be waiting to reconnect, so `OfferEnds`
is checked without assuming that it polls; the propagator polls without pause,
and only `ImplementsLossyFifo` assumes that (`PollingSpec`). In `Relay` a stopped
worker ends, which is `StopEnds` of its own module; a writer need not pop.
In `StreamMetrics` the publication goes on once it began and the main thread reads
its summaries on for as long as it is in its loop, which it may leave at any time;
`CountsReported` promises a report only to those whose loop goes on. The exporter
may never call. `Program` has safety properties only and states
no fairness. In `SEEDLinkClient` a stop that began goes on.
`std::async` without a policy is taken to start a thread, as the standard
libraries the project builds with do.

## 4. The proofs

`DropOldestQueueProofs` proves, for every queue size, both rules for a failed
pop, both containers and any number of packets, from `QueueAssumption` alone:

| Theorem | Property |
|---|---|
| `TypeCorrect` | `TypeOK` |
| `OrderKept` | `FifoOrder` |
| `PacketsAccounted` | `Accounting` |
| `NoEarlyLoss` | `LossAfterFull` |
| `LossIsReported` | `LossReported` |
| `SizeBounded` | `SizeBound` |
| `NewestGetsIn` | `NewestAdmitted` |
| `Refinement` | `ImplementsLossyFifoSafely` |

The properties are not inductive. `IInv` adds three facts:

* `ClaimInv`: a claimed element is still stored, so that `Take` finds it.
* `RoomInv`: what the producer may rely on when it is about to push. Only the
  producer adds elements, so once it has read a size below the limit, the size
  can only have dropped. The exception is an import queue of size 1 whose pop
  failed on the element the consumer has claimed.
* `CountInv`: the counter runs ahead of the evictions by the pop in progress and
  the pops that failed, never behind.

`StepInv` goes through the actions one by one; two lemmas carry the order of the
sequences (`PopKeepsOrder` for a step that removes the head, `IdleKeepsOrder`
for one that leaves the sequences alone), and these rest on facts about `Tail`
and `Append` of an increasing sequence. `Refinement` maps an offer to the moment
the producer is done with it (`offered - NumInHand`); an eviction maps to
`DropOldest`, whose guard is the second conjunct of `LossAfterFull`.

`DataLinkWriterProofs` proves every safety property of `DataLinkWriter`, for
every queue size, limit on write failures, number of reconnection waits, packets
and records, from `WriterAssumption` alone:

| Theorem | Property |
|---|---|
| `TypeCorrect` | `TypeOK` |
| `WritesInOrder` | `SentInOrder` |
| `PopsConnected` | `ConnectedWhenPopping` |
| `GivesUpOnTime` | `GivesUpExactly` |
| `CountersAgree` | `WritesCounted` |
| `HeedsStop` | `StopIsPrompt` |

Its invariant has three parts, each proved over the ones before it:

* `IInv`, the control. `PlaceInv` says what a place in `runWriter` implies (a
  record to write, a failure count below the limit, a first wait behind it).
  `LateInv` is why a stopped writer cannot do a thing twice: after the pop that
  `stop()` raced with, it never comes back to a place that pops; once the flag is
  seen no wait begins; and the attempts made late are among those of the
  reconnection in progress.
* `OrderInv`, the order. What was sent precedes the records in hand, and both
  precede every packet in the queue, so an eviction, a skipped packet or a failed
  record leaves a gap and never a swap. `offered` bounds them all, which is what
  an append to an empty queue needs.
* `RunInv`, the count. `consecutiveWriteFailures` is the length of the last run
  of failures: that many records at the end of `attempted` were not sent, and the
  one before them was. `GivesUpExactly` follows (`RunExplains`). It needs
  `OrderInv`: a failed record must differ from those sent (`HeadIsNew`).

`SEEDLinkClientProofs` proves the four safety properties of `SEEDLinkClient`, for
every update interval and any number of packets, runs, crashes, reconnections,
failing saves and torn files, from `SEEDLinkAssumption` alone:

| Theorem | Property |
|---|---|
| `NeverAGap` | `NoGap` |
| `NeverADuplicate` | `NoDuplicateWhenSaved` |
| `RedeliveryBounded` | `RedeliveryBound` |
| `NeverASkip` | `NothingSkipped` |

Each speaks of the history, and is inductive only together with where the client
is and where the file would put it:

* `GapInv`: everything up to the sequence number, up to the number in the file,
  and up to the place a start without a number resumes from, is accounted for;
  while a packet is in hand, all but that one.
* `OrderInv`: a start without a number comes after all that was handed on. As
  long as every run ended with its save, so do the client's number and, between
  two runs, the number in the file. A save that fails while the thread runs does
  not matter to this, since the one of the destructor comes after it.
* `RedeliveryInv`: `updateCount` bounds the packets since the last save that was
  due and were not too large (`Sent`), `missed` those before it since the last one
  that began, and every decoded packet is one of the first `Reach`, which is
  `Interval + 1 + missed`, after the number in the file, and after the client's
  own number (`Near`), which a packet sent again keeps. `RedeliveryBounded` takes
  the newest of the packets beyond the file and counts what was sent up to it.
* `SkipInv`: while the state file is kept and every run ends with its save, a
  client without a number has handed on nothing yet, neither has one whose file
  has none, and whatever was passed over is before the place it is at or would
  resume from.

Most steps neither move the client nor settle the fate of a packet; they share
one proof (`Quiet`). The others, from `Start` to `Exit`, have a lemma each.

`RelayProofs` proves the five safety properties of `Relay`, for any number of
writers and packets and any sizes of the queues, from `RelayAssumption` alone:

| Theorem | Property |
|---|---|
| `DeliveredAlwaysInOrder` | `DeliveredInOrder` |
| `FanOutAlwaysComplete` | `FanOutComplete` |
| `NeverUsedAfterDestroy` | `NoUseAfterDestroy` |
| `FuturesAlwaysValid` | `FuturesStayValid` |
| `OnlyEverDrains` | `OnlyDrainsAfterJoin` (an action property) |

* `ControlInv` says, for each place of `main`, how often `stop()` was called (at
  most twice: by `run()` and by the destructor), which threads were told to
  stop, which futures are valid or spent, and who may still run: the
  propagator is born once and gone when it was joined, a spent future belongs
  to a thread that ended, and a worker returned only because it was stopped.
  It carries the last three properties: the clients go after the joins, and
  the loop of `main` runs only before anything was stopped.
* `FanOutInv`: the packet in the propagator's hand was given to the clients
  before `target` and to no other; any other packet popped, to every client.
* `OrderInv`: for each writer, what it delivered, then its queue, then the packet
  it is to be offered, then the import queue, is increasing and below the next
  packet. An eviction takes one out of that line and a step moves one along it,
  so it stays increasing; `DeliveredInOrder` alone says nothing of what is
  delivered next.

`StreamMetricsProofs` proves the four safety properties of `StreamMetrics`, for
any number of streams and packets and any ages, from the assumption on its
constants: `AlwaysConserved` (`CountsConserved`), `AlwaysWithinTotal`
(`PartsWithinTotal`), `GoodAlwaysNew` (`GoodPacketsAreNew`) and `NeverDecrease`
(the action property `ReportsNeverDecrease`). `Out` is what is in flight and what
is published; no step of the publication changes the sum, and the parts stay
within the total in the running counters and in `Out` at every step, although the
maps alone are between two publications only. For `GoodPacketsAreNew` the
invariant adds that no packet that was not of the future ends after the stream's
newest sample (`NewestInv`); a good one ends after that (`NewArrival`).
`NeverDecrease` needs the sum over the streams that the main thread forms key by
key. The invariant (`ReportInv`) says that there are running sums (`IsSum`: they
start with nothing, and grow at each stream by no more than is published of it)
that end in the last report and in the sum being formed, and that up to the first
key still to be read the latter is not behind (`Catches`). So the sums are
witnesses of the invariant and no operator computes them; what is left of the
induction over the streams is the least stream where one would fall behind
(`StaysBehind`).

`ProgramProofs` proves `DerivedStaysCurrent` (`DerivedCurrent`),
`AlwaysUnpackedIntact` (`UnpackedIntact`) and `AlwaysCleanedUpAtExit`
(`CleanedUpAtExit`) for every set of codes, rates, sizes, buffers and `.ini`
files. The first needs that what was unpacked was made from readable records,
since a packet handed on becomes the packet; the second that the packets are
those of the first records and that what is left once the unpacking has returned
is a tail too short to be a record; the third (`CleanInv`) what may exist at each
phase, and that a client is left when main returns only after a failure.

`StartupProofs` proves `AlwaysRunsAsConfigured` (`RunsAsConfigured`) for every set
of `.ini` files with any number of sections and lines of selectors, whatever the
server refuses and whichever step fails. Its invariant `ConfiguredInv` follows the
configuration from the file to what runs: the options are those of the file or the
defaults (`OptionsInv`), the providers those of the options (`ProvidersInv`), the
writers connected so far the first of the options' (`ConnectedInv`), and the
selectors tried so far those taken and those refused (`SelectorsInv`). The rest is
about the options themselves: the state file and its deletion are those of the
reader's section (`StateFileOptionsConfigured`), the numbered sections that are
read are those before the first gap (`SectionsBeforeGap`), the record length is in
range (`DataLinkOptions`), and no request is made twice, so that there are as many as
lines (`RequestsCounted`). The assumption says of a file that its record size is a
number when it is there, its flags Booleans, and that its selectors are lists of
lists of words. That
`FlattenSeq` makes a list of the lines is an induction over the fold it is defined
with; it is done by hand, from the least length that would be a counterexample
(`FlattenExists`, `FlattenSeqType`).

`RecordProofs` proves `RecordsAlwaysFaithful` (`RecordsFaithful`) for all packets,
rates, record lengths and clocks. `PieceOf` divides the samples: every record but
the last is full, and the last holds what is left or is full too. `PackMakes`
turns that into the records of one call of `msr3_pack`, `OneCall` finds the call
that decides in `toDataLinkPackets`, and the invariant adds what the packet and
the writer must satisfy: a current end time (`DerivedInv`), a rate that is one of
`Rates`, a record length that was checked (`ConfiguredInv`). The times are sums
of rounded quotients, rounded again to microseconds. `RoundedSum` bounds the first
rounding: two stretches of samples take what they take in one, to a tick, and end
before the next sample starts. That last fact needs `ClockAssumption`, that no
rate has more samples in a second than the second has nanoseconds. The code does
not test it. Without it the property is false: with ten samples to a tick and
records of six, the last sample of a record and the time of the record are both
rounded up, and the first sample of the next one is rounded down.

Every safety property of the runs is proved. Only model-checked are the liveness
properties (`OfferEnds`, the `WF` of `LossyFifo` in `ImplementsLossyFifo`,
`StopEnds`, `PacketsLeave`, `InterruptEnds`, `FailureEnds`, `CountsReported`),
since the prover does not handle liveness under fairness.

## 5. Where the code and its documentation disagree

* `DeletedOnStop`: the thread deletes the state file on shutdown, then the
  destructor's `disconnect()` saves it again (`src/seedLinkClient.cpp:199`).
* `AskedMeansOrderly`: `setRunning(false)` terminates the connection before it
  stores `mKeepRunning`, so the thread can answer the request and still report a
  "Premature end" (`src/seedLinkClient.cpp:247`, `554`).
* `UpdatedOnTime`: the state file is written every `interval + 1` packets
  (`src/seedLinkClient.cpp:502`).
* `TotalIsSumOfParts`: a late packet counts in the total only
  (`src/streamMetrics.hpp:645`), while the README describes the total as the sum
  of the good, future and expired packets.

Smaller disagreements, met on the way and read off the code:

* `stateFileUpdateInterval` of the `.ini` file is read and dropped
  (`src/seedLinkToRingServer.cpp:768-779`); the interval is always the default.
  The variable is the getter's unsigned one of 16 bits, so its test for a negative
  value never holds and such a file runs as well. `RunsAsConfigured` says both.
* `StreamSelector::setStation` is documented to take a blank as all stations and
  throws; `StreamIdentifier::setLocationCode` is documented to throw on an empty
  code and accepts it; a selector of a network alone is refused although the
  other fields are optional.
* The network time-out of the SEEDLink client is documented as zero by default
  and is 600 seconds.
* Any record size from 1 to 512 is accepted, also one that leaves no room for a
  miniSEED header.
* A record that was parsed is not freed when a setter throws after it
  (`src/seedLinkClient.cpp:78-98`).
* After a failed start the logger's provider is reset before the process is
  destroyed, which logs and so dies (`ReturnDies`, above).
* The results of `sl_savestate` are ignored, and the count towards the next save
  starts again when a save failed (`src/seedLinkClient.cpp:206`, `504-508`).

## 6. Not modelled

* Averages, standard deviation and latency, and the maps of the averages, which
  are written by the propagator and iterated by the exporter without a lock: a
  data race on a `std::map` has no outcomes to choose from.
* The position of Bessel's correction in the standard deviation
  (`src/streamMetrics.hpp:703`): a formula, better read than checked.
* The gauges of the exporter and the export of the writers' counters: the fetcher
  of `src/writerMetrics.hpp` is never registered.
* Hosts, ports, names, certificates and time-outs in the options, and the
  selectors' types that `fromString` never sets.
* Compression and the bytes of a miniSEED record; the values of samples.
* What a RingServer does with the records, and a signal that arrives before
  `catchSignals()`.
* The clock, the version and the test programs.
* libslink, libdali, libmseed, moodycamel, TBB, boost and OpenTelemetry: external,
  modelled by how the code uses them.

## 7. What could come next

1. An abstract specification of a worker that both `DataLinkWriter` and
   `SEEDLinkClient` refine, and that `Relay` uses.
2. Several streams in `SEEDLinkClient`, whose state file then holds a list.
