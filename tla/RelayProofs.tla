------------------------------ MODULE RelayProofs ------------------------------
(***************************************************************************)
(* The safety properties of Relay for any number of DataLink clients, any  *)
(* sizes of the queues and any number of packets: what the program may     *)
(* rely on when it starts, watches and stops its threads, and the order of *)
(* the packets that come out.                                              *)
(***************************************************************************)
EXTENDS Relay, TLAPS

-----------------------------------------------------------------------------
(* The inductive invariant. *)

(* Where main is before stop(), and in it. *)
BeforeStart == {"construct", "startPropagator", "startWriters", "startImporter"}
Watched == {"catch", "loop", "checkImporter", "checkWriters"}
Working == BeforeStart \cup Watched \cup {"checkWritersAndStop"}
Joined == {"stopImporter", "stopWriters", "getImporter", "getWriters", "destroy"}
Places == Working \cup Joined \cup {"stopFlag", "joinPropagator", "exit"}

ThreadStates == {"unborn", "running", "returned", "threw"}
FutureStates == {"none", "valid", "spent"}

TypeInv ==
    /\ main \in Places
    /\ client \in Writers
    /\ stops \in Nat
    /\ destroyed \in BOOLEAN
    /\ propagator \in {"unborn", "test", "pop", "propagate", "returned"}
    /\ packet \in Nat
    /\ target \in Writers
    /\ importer \in ThreadStates
    /\ importerStop \in BOOLEAN
    /\ importFuture \in FutureStates
    /\ writer \in [Writers -> ThreadStates]
    /\ writerStop \in [Writers -> BOOLEAN]
    /\ writerFuture \in [Writers -> FutureStates]
    /\ imported \in Nat
    /\ importQueue \in Seq(Nat)
    /\ exportQueue \in [Writers -> Seq(Nat)]
    /\ popped \in Nat
    /\ given \in [Writers -> Nat]
    /\ delivered \in [Writers -> Seq(Nat)]

(* stop() runs at most twice, the second time on clients that are gone.    *)
StopsInv ==
    /\ main \in Working => stops = 0 /\ ~destroyed
    /\ main = "stopFlag" => stops = IF destroyed THEN 1 ELSE 0
    /\ main \in Joined \cup {"joinPropagator"} => stops = IF destroyed THEN 2 ELSE 1

(* The propagator is born once, and gone when it was joined.               *)
PropagatorInv ==
    /\ main \in {"construct", "startPropagator"} => propagator = "unborn"
    /\ main \in Joined \/ destroyed => propagator \in {"unborn", "returned"}

(* A thread and its future, which is spent when the thread has ended; and  *)
(* why a thread returned.                                                  *)
ThreadInv(thread, future, stopped) ==
    /\ future = "none" <=> thread = "unborn"
    /\ future = "spent" => thread \in Ended
    /\ thread = "returned" => stopped

(* The SEEDLink thread is stopped in stop(), and watched until then.       *)
ImporterInv ==
    /\ ThreadInv(importer, importFuture, importerStop)
    /\ main \in Working => ~importerStop
    /\ main \in BeforeStart => importer = "unborn"
    /\ main \in Watched => importFuture = "valid"
    /\ main \in {"getWriters", "destroy"} \/ destroyed => importer # "running"

(* So are the writers, which the loops of main go through one by one.      *)
WritersInv ==
    \A w \in Writers :
        /\ ThreadInv(writer[w], writerFuture[w], writerStop[w])
        /\ main \in Working => ~writerStop[w]
        /\ main \in {"construct", "startPropagator"} => writer[w] = "unborn"
        /\ main \in Watched \cup {"startImporter"} => writerFuture[w] = "valid"
        /\ main = "startWriters" /\ w < client => writerFuture[w] = "valid"
        /\ main = "getWriters" /\ w < client => writer[w] # "running"
        /\ main = "destroy" \/ destroyed => writer[w] # "running"

ControlInv == TypeInv /\ StopsInv /\ PropagatorInv /\ ImporterInv /\ WritersInv

(* The clients before the target have the packet in hand, the others not.  *)
FanOutInv ==
    \A w \in Writers :
        popped = given[w]
            + (IF propagator = "propagate" /\ target <= w THEN 1 ELSE 0)

Increasing(s) == \A i, j \in 1..Len(s) : i < j => s[i] < s[j]
AllBelow(s, n) == \A i \in 1..Len(s) : s[i] < n
AllAbove(s, n) == \A i \in 1..Len(s) : n < s[i]

(* Packets are in order from the RingServer back to SEEDLink: delivered,   *)
(* in the queue of the writer, in the hand of the propagator, in the       *)
(* import queue, and to come.                                              *)
Lined(d, q, n) ==
    /\ Increasing(d) /\ AllBelow(d, n)
    /\ Increasing(q) /\ AllBelow(q, n)
    /\ \A i \in 1..Len(d) : AllAbove(q, d[i])

(* The least number this client may still be given.                        *)
NextFor(w) == IF propagator = "propagate" /\ target <= w THEN packet ELSE packet + 1

OrderInv ==
    /\ Increasing(importQueue)
    /\ AllAbove(importQueue, packet)
    /\ AllBelow(importQueue, imported + 1)
    /\ packet <= imported
    /\ \A w \in Writers : Lined(delivered[w], exportQueue[w], NextFor(w))

IInv == ControlInv /\ FanOutInv /\ OrderInv

-----------------------------------------------------------------------------
(* Sequences of increasing numbers, and the queues that hold them. *)

(* What is left when the first of a sequence is taken.                     *)
LEMMA TailOf ==
    ASSUME NEW q \in Seq(Nat), q # <<>>
    PROVE  /\ Tail(q) \in Seq(Nat)
           /\ Len(Tail(q)) = Len(q) - 1
           /\ \A i \in 1..Len(Tail(q)) : i + 1 \in 1..Len(q) /\ Tail(q)[i] = q[i + 1]
           /\ 1 \in 1..Len(q)
           /\ Head(q) = q[1] /\ Head(q) \in Nat
OBVIOUS

(* What a sequence is with one more at its end.                            *)
LEMMA AppendOf ==
    ASSUME NEW q \in Seq(Nat), NEW p \in Nat
    PROVE  /\ Append(q, p) \in Seq(Nat)
           /\ Len(Append(q, p)) = Len(q) + 1
           /\ \A i \in 1..Len(Append(q, p)) :
                  \/ i \in 1..Len(q) /\ Append(q, p)[i] = q[i]
                  \/ i = Len(q) + 1 /\ Append(q, p)[i] = p
OBVIOUS

(* The rest of an increasing sequence lies between its head and its bound. *)
LEMMA TailInOrder ==
    ASSUME NEW q \in Seq(Nat), q # <<>>, Increasing(q)
    PROVE  /\ Tail(q) \in Seq(Nat) /\ Head(q) \in Nat
           /\ Increasing(Tail(q))
           /\ AllAbove(Tail(q), Head(q))
           /\ \A m \in Nat : AllAbove(q, m) => AllAbove(Tail(q), m) /\ m < Head(q)
           /\ \A m \in Nat : AllBelow(q, m) => AllBelow(Tail(q), m) /\ Head(q) < m
<1> DEFINE t == Tail(q)
<1>1. /\ t \in Seq(Nat)
      /\ \A i \in 1..Len(t) : i \in Nat /\ i + 1 \in 1..Len(q) /\ 1 < i + 1 /\ t[i] = q[i + 1]
      /\ 1 \in 1..Len(q)
      /\ Head(q) = q[1] /\ Head(q) \in Nat
  BY TailOf
<1> HIDE DEF t
<1>2. Increasing(t) /\ AllAbove(t, Head(q))
  BY <1>1 DEF Increasing, AllAbove
<1>3. ASSUME NEW m \in Nat
      PROVE  /\ AllAbove(q, m) => AllAbove(t, m) /\ m < Head(q)
             /\ AllBelow(q, m) => AllBelow(t, m) /\ Head(q) < m
  BY <1>1 DEF AllAbove, AllBelow
<1>4. QED
  BY <1>1, <1>2, <1>3 DEF t

(* A number above all others may be put at the end.                        *)
LEMMA AppendInOrder ==
    ASSUME NEW q \in Seq(Nat), NEW p \in Nat, Increasing(q), AllBelow(q, p)
    PROVE  /\ Append(q, p) \in Seq(Nat)
           /\ Increasing(Append(q, p))
           /\ \A m \in Nat : p < m => AllBelow(Append(q, p), m)
           /\ \A m \in Nat : AllAbove(q, m) /\ m < p => AllAbove(Append(q, p), m)
<1> DEFINE a == Append(q, p)
<1>1. /\ a \in Seq(Nat)
      /\ Len(a) = Len(q) + 1 /\ Len(q) \in Nat
      /\ \A i \in 1..Len(a) :
             /\ i \in Nat
             /\ i < Len(a) => i \in 1..Len(q) /\ a[i] = q[i] /\ q[i] \in Nat
             /\ i = Len(a) => a[i] = p
  BY AppendOf
<1> HIDE DEF a
<1>2. \A i \in 1..Len(a) : i < Len(a) => a[i] < p
  BY <1>1 DEF AllBelow
<1>3. Increasing(a)
  <2> SUFFICES ASSUME NEW i \in 1..Len(a), NEW j \in 1..Len(a), i < j
               PROVE  a[i] < a[j]
    BY DEF Increasing
  <2>0. Len(a) \in Nat
    BY <1>1
  <2>1. i < Len(a) /\ (j < Len(a) \/ j = Len(a))
    BY <2>0
  <2>2. i \in 1..Len(q) /\ a[i] = q[i]
    BY <1>1, <2>1
  <2>3. CASE j < Len(a)
    BY <1>1, <2>2, <2>3 DEF Increasing
  <2>4. CASE j = Len(a)
    BY <1>1, <1>2, <2>1, <2>4
  <2>5. QED
    BY <2>1, <2>3, <2>4
<1>4. ASSUME NEW m \in Nat, p < m
      PROVE  AllBelow(a, m)
  <2> SUFFICES ASSUME NEW i \in 1..Len(a) PROVE a[i] < m
    BY DEF AllBelow
  <2>1. a[i] \in Nat /\ a[i] <= p
    BY <1>1, <1>2
  <2>2. QED
    BY <1>4, <2>1
<1>5. ASSUME NEW m \in Nat, AllAbove(q, m), m < p
      PROVE  AllAbove(a, m)
  <2> SUFFICES ASSUME NEW i \in 1..Len(a) PROVE m < a[i]
    BY DEF AllAbove
  <2>1. i < Len(a) \/ i = Len(a)
    BY <1>1
  <2>2. QED
    BY <1>1, <1>5, <2>1 DEF AllAbove
<1>6. QED
  BY <1>1, <1>3, <1>4, <1>5 DEF a

(* A queue that is offered a number above all it holds stays in order.     *)
LEMMA OfferedInOrder ==
    ASSUME NEW q \in Seq(Nat), NEW n, NEW p \in Nat, NEW r \in Offered(q, n, p),
           Increasing(q), AllBelow(q, p)
    PROVE  /\ r \in Seq(Nat)
           /\ Increasing(r)
           /\ AllBelow(r, p + 1)
           /\ \A m \in Nat : AllAbove(q, m) /\ m < p => AllAbove(r, m)
<1>1. \/ r = q
      \/ r = Append(q, p)
      \/ q # <<>> /\ r = Append(Tail(q), p)
      \/ q # <<>> /\ r = Tail(q)
  BY DEF Offered
<1>2. CASE r = q
  <2>1. \A i \in 1..Len(q) : q[i] \in Nat
    OBVIOUS
  <2>2. QED
    BY <1>2, <2>1 DEF AllBelow
<1>3. CASE r = Append(q, p)
  BY <1>3, AppendInOrder
<1>4. CASE q # <<>> /\ r = Append(Tail(q), p)
  <2> DEFINE t == Tail(q)
  <2>1. /\ t \in Seq(Nat) /\ Increasing(t) /\ AllBelow(t, p)
        /\ \A m \in Nat : AllAbove(q, m) => AllAbove(t, m)
        /\ r = Append(t, p)
    BY <1>4, TailInOrder
  <2> HIDE DEF t
  <2>2. QED
    BY <2>1, AppendInOrder
<1>5. CASE q # <<>> /\ r = Tail(q)
  <2>1. /\ r \in Seq(Nat) /\ Increasing(r) /\ AllBelow(r, p)
        /\ \A m \in Nat : AllAbove(q, m) => AllAbove(r, m)
    BY <1>5, TailInOrder
  <2>2. \A i \in 1..Len(r) : r[i] \in Nat
    BY <2>1
  <2>3. QED
    BY <2>1, <2>2 DEF AllBelow
<1>6. QED
  BY <1>1, <1>2, <1>3, <1>4, <1>5

LEMMA OfferedType ==
    ASSUME NEW q \in Seq(Nat), NEW n, NEW p \in Nat, NEW r \in Offered(q, n, p)
    PROVE  r \in Seq(Nat)
<1>1. Append(q, p) \in Seq(Nat)
  BY AppendOf
<1>2. q # <<>> => Tail(q) \in Seq(Nat) /\ Append(Tail(q), p) \in Seq(Nat)
  BY TailOf, AppendOf
<1>3. QED
  BY <1>1, <1>2 DEF Offered

(* The way to one RingServer stays in order when its bound rises,          *)
LEMMA LinedLater ==
    ASSUME NEW d \in Seq(Nat), NEW q \in Seq(Nat), NEW m \in Nat, NEW n \in Nat,
           m <= n, Lined(d, q, m)
    PROVE  Lined(d, q, n)
<1>1. /\ \A i \in 1..Len(d) : d[i] \in Nat
      /\ \A i \in 1..Len(q) : q[i] \in Nat
  OBVIOUS
<1>2. QED
  BY <1>1 DEF Lined, AllBelow

(* when the queue of its writer is offered the packet in hand,             *)
LEMMA LinedOffered ==
    ASSUME NEW d \in Seq(Nat), NEW q \in Seq(Nat), NEW n, NEW p \in Nat,
           NEW r \in Offered(q, n, p), Lined(d, q, p)
    PROVE  r \in Seq(Nat) /\ Lined(d, r, p + 1)
<1>1. \A i \in 1..Len(d) : d[i] \in Nat /\ d[i] < p /\ AllAbove(q, d[i])
  BY DEF Lined, AllBelow
<1>2. /\ r \in Seq(Nat) /\ Increasing(r) /\ AllBelow(r, p + 1)
      /\ \A m \in Nat : AllAbove(q, m) /\ m < p => AllAbove(r, m)
  BY OfferedInOrder DEF Lined
<1>3. Increasing(d) /\ AllBelow(d, p + 1)
  BY <1>1 DEF Lined, AllBelow
<1>4. QED
  BY <1>1, <1>2, <1>3 DEF Lined

(* and when the writer writes or loses the first of its queue.             *)
LEMMA LinedWritten ==
    ASSUME NEW d \in Seq(Nat), NEW q \in Seq(Nat), NEW n \in Nat,
           q # <<>>, Lined(d, q, n)
    PROVE  /\ Tail(q) \in Seq(Nat) /\ Append(d, Head(q)) \in Seq(Nat)
           /\ Lined(d, Tail(q), n)
           /\ Lined(Append(d, Head(q)), Tail(q), n)
<1>1. /\ Tail(q) \in Seq(Nat) /\ Head(q) \in Nat
      /\ Increasing(Tail(q)) /\ AllAbove(Tail(q), Head(q))
      /\ AllBelow(Tail(q), n) /\ Head(q) < n
      /\ \A m \in Nat : AllAbove(q, m) => AllAbove(Tail(q), m) /\ m < Head(q)
  BY TailInOrder DEF Lined
<1>2. \A i \in 1..Len(d) : d[i] \in Nat /\ AllAbove(Tail(q), d[i]) /\ d[i] < Head(q)
  BY <1>1 DEF Lined
<1>3. Lined(d, Tail(q), n)
  BY <1>1, <1>2 DEF Lined
<1>4. Increasing(d) /\ AllBelow(d, Head(q))
  BY <1>2 DEF Lined, AllBelow
<1>5. /\ Append(d, Head(q)) \in Seq(Nat)
      /\ Increasing(Append(d, Head(q))) /\ AllBelow(Append(d, Head(q)), n)
  BY <1>1, <1>4, AppendInOrder
<1>6. \A i \in 1..Len(Append(d, Head(q))) : AllAbove(Tail(q), Append(d, Head(q))[i])
  BY <1>1, <1>2, AppendOf
<1>7. QED
  BY <1>1, <1>3, <1>5, <1>6 DEF Lined

-----------------------------------------------------------------------------
(* Control: what main, the threads and their futures do. *)

(* Nothing has been started.                                               *)
LEMMA ControlInitially == Init => ControlInv
<1> SUFFICES ASSUME Init PROVE ControlInv
  OBVIOUS
<1> USE RelayAssumption DEF Init
<1>1. TypeInv
  <2>1. /\ 1 \in Writers
        /\ <<>> \in Seq(Nat)
        /\ main \in Places /\ importer \in ThreadStates /\ importFuture \in FutureStates
    BY DEF Places, Working, BeforeStart, ThreadStates, FutureStates, Writers
  <2>2. /\ writer \in [Writers -> ThreadStates]
        /\ writerFuture \in [Writers -> FutureStates]
        /\ exportQueue \in [Writers -> Seq(Nat)]
        /\ delivered \in [Writers -> Seq(Nat)]
    BY <2>1 DEF ThreadStates, FutureStates
  <2>3. QED
    BY <2>1, <2>2 DEF TypeInv
<1>2. StopsInv
  BY DEF StopsInv, Working, BeforeStart, Joined
<1>3. PropagatorInv
  BY DEF PropagatorInv, Joined
<1>4. ImporterInv
  BY DEF ImporterInv, ThreadInv, Watched, Ended
<1>5. WritersInv
  BY DEF WritersInv, ThreadInv, Watched, Ended
<1>6. QED
  BY <1>1, <1>2, <1>3, <1>4, <1>5 DEF ControlInv

(* What a step of main leaves of the data, and of the propagator's place.  *)
DataUnchanged ==
    /\ UNCHANGED <<packet, target, imported, queueVars>>
    /\ propagator' = propagator \/ (propagator' = "test" /\ main = "startPropagator")

(* The main thread moves no packet.                                        *)
LEMMA MainMovesNothing == Main => DataUnchanged
<1> USE DEF DataUnchanged, propagatorVars, importerVars, queueVars
<1>1. Starting => DataUnchanged
  BY DEF Starting, Construct, StartPropagator, StartWriter, StartImporter, Step
<1>2. Watching => DataUnchanged
  BY DEF Watching, CatchSignals, TestInterrupted, CheckImporter, CheckWriter,
         CheckFuture, Step
<1>3. Stopping => DataUnchanged
  BY DEF Stopping, StopFlag, JoinPropagator, StopImporter, TellImporter, StopWriter,
         GetImporter, GetWriter, Destroy, Step
<1>4. QED
  BY <1>1, <1>2, <1>3 DEF Main

(* The loops of main stay among the clients.                               *)
LEMMA ClientType ==
    ASSUME TypeInv, NEW again, NEW done, NextClient(again, done)
    PROVE  /\ client' \in Writers
           /\ client = NumWriters => main' = done /\ client' = 1
           /\ client # NumWriters => main' = again /\ client' = client + 1
           /\ \A w \in Writers : w < client' /\ client # NumWriters => w < client \/ w = client
           /\ \A w \in Writers : client = NumWriters => w < client \/ w = client
BY RelayAssumption DEF TypeInv, Writers, NextClient

(* main before the run: the threads are started one after the other.       *)
LEMMA StartingControl ==
    ASSUME ControlInv, Starting
    PROVE  ControlInv'
<1> USE DEF flagVars, propagatorVars, importerVars, writerVars, queueVars, Places,
            Working, BeforeStart, Watched, Joined
<1>0. TypeInv /\ StopsInv /\ PropagatorInv /\ ImporterInv /\ WritersInv /\ 1 \in Writers
  BY RelayAssumption DEF ControlInv, Writers
<1>1. CASE Construct
  <2>1. TypeInv'
    BY <1>0, <1>1 DEF Construct, Step, TypeInv
  <2>2. StopsInv' /\ PropagatorInv' /\ ImporterInv' /\ WritersInv'
    BY <1>0, <1>1 DEF Construct, Step, StopsInv, PropagatorInv, ImporterInv,
                      WritersInv, ThreadInv
  <2>3. QED
    BY <2>1, <2>2 DEF ControlInv
<1>2. CASE StartPropagator
  <2>1. TypeInv'
    BY <1>0, <1>2 DEF StartPropagator, TypeInv
  <2>2. StopsInv' /\ PropagatorInv' /\ ImporterInv'
    BY <1>0, <1>2 DEF StartPropagator, StopsInv, PropagatorInv, ImporterInv, ThreadInv
  <2>3. WritersInv'
    BY <1>0, <1>2 DEF StartPropagator, StopsInv, WritersInv, ThreadInv, Writers
  <2>4. QED
    BY <2>1, <2>2, <2>3 DEF ControlInv
<1>3. CASE StartWriter
  <2>1. /\ main = "startWriters"
        /\ main' \in {"startWriters", "startImporter"}
        /\ client' \in Writers
        /\ main' = "startWriters" => \A w \in Writers : w < client' => w < client \/ w = client
        /\ main' = "startImporter" => \A w \in Writers : w < client \/ w = client
    BY <1>0, <1>3, ClientType DEF StartWriter
  <2>2. TypeInv'
    BY <1>0, <1>3, <2>1 DEF StartWriter, TypeInv, ThreadStates, FutureStates
  <2>3. StopsInv' /\ PropagatorInv' /\ ImporterInv'
    BY <1>0, <1>3, <2>1 DEF StartWriter, StopsInv, PropagatorInv, ImporterInv, ThreadInv
  <2>4. WritersInv'
    <3> SUFFICES ASSUME NEW w \in Writers
                 PROVE  /\ ThreadInv(writer'[w], writerFuture'[w], writerStop'[w])
                        /\ ~writerStop'[w]
                        /\ main' = "startImporter" => writerFuture'[w] = "valid"
                        /\ main' = "startWriters" /\ w < client' => writerFuture'[w] = "valid"
                        /\ ~destroyed'
      BY <2>1 DEF WritersInv
    <3>1. /\ writer'[w] = IF w = client THEN "running" ELSE writer[w]
          /\ writerFuture'[w] = IF w = client THEN "valid" ELSE writerFuture[w]
          /\ writerStop' = writerStop
          /\ destroyed' = destroyed
      BY <1>0, <1>3 DEF StartWriter, TypeInv
    <3>2. QED
      BY <1>0, <2>1, <3>1 DEF WritersInv, StopsInv, ThreadInv, Ended
  <2>5. QED
    BY <2>2, <2>3, <2>4 DEF ControlInv
<1>4. CASE StartImporter
  <2>1. TypeInv'
    BY <1>0, <1>4 DEF StartImporter, TypeInv, ThreadStates, FutureStates
  <2>2. StopsInv' /\ PropagatorInv' /\ WritersInv'
    BY <1>0, <1>4 DEF StartImporter, StopsInv, PropagatorInv, WritersInv
  <2>3. ImporterInv'
    BY <1>0, <1>4 DEF StartImporter, StopsInv, ImporterInv, ThreadInv, Ended
  <2>4. QED
    BY <2>1, <2>2, <2>3 DEF ControlInv
<1>5. QED
  BY <1>1, <1>2, <1>3, <1>4 DEF Starting

(* The main loop: a future is spent only when the loop is left.            *)
LEMMA WatchingControl ==
    ASSUME ControlInv, Watching
    PROVE  ControlInv'
<1> USE DEF flagVars, propagatorVars, importerVars, writerVars, queueVars, Places,
            Working, BeforeStart, Watched, Joined
<1>0. TypeInv /\ StopsInv /\ PropagatorInv /\ ImporterInv /\ WritersInv /\ 1 \in Writers
  BY RelayAssumption DEF ControlInv, Writers
<1>1. CASE CatchSignals \/ TestInterrupted
  <2>1. /\ main \in {"catch", "loop"}
        /\ main' \in {"loop", "stopFlag", "checkImporter"}
        /\ UNCHANGED <<client, flagVars, propagatorVars, importerVars, writerVars, queueVars>>
    BY <1>1 DEF CatchSignals, TestInterrupted, Step
  <2>2. TypeInv'
    BY <1>0, <2>1 DEF TypeInv
  <2>3. StopsInv' /\ PropagatorInv' /\ ImporterInv' /\ WritersInv'
    BY <1>0, <2>1 DEF StopsInv, PropagatorInv, ImporterInv, WritersInv
  <2>4. QED
    BY <2>2, <2>3 DEF ControlInv
<1>2. CASE CheckImporter
  <2>1. TypeInv'
    BY <1>0, <1>2 DEF CheckImporter, TypeInv, FutureStates
  <2>2. StopsInv' /\ PropagatorInv' /\ WritersInv'
    BY <1>0, <1>2 DEF CheckImporter, StopsInv, PropagatorInv, WritersInv
  <2>3. ImporterInv'
    BY <1>0, <1>2 DEF CheckImporter, StopsInv, ImporterInv, ThreadInv, Ended
  <2>4. QED
    BY <2>1, <2>2, <2>3 DEF ControlInv
<1>3. CASE CheckWriter
  <2>1. /\ main \in {"checkWriters", "checkWritersAndStop"}
        /\ main' \in {main, "stopFlag"} \/ (main' = "loop" /\ main = "checkWriters")
        /\ client' \in Writers
        /\ writer[client] = "threw" => main' = "stopFlag"
    BY <1>0, <1>3, ClientType DEF CheckWriter, CheckFuture
  <2>2. /\ writerFuture' = [writerFuture EXCEPT ![client] =
                              IF writer[client] \in Ended THEN "spent" ELSE @]
        /\ UNCHANGED <<flagVars, propagatorVars, importerVars, writer, writerStop, queueVars>>
    BY <1>3 DEF CheckWriter, CheckFuture
  <2>3. TypeInv'
    BY <1>0, <2>1, <2>2 DEF TypeInv, FutureStates
  <2>4. StopsInv' /\ PropagatorInv' /\ ImporterInv'
    BY <1>0, <2>1, <2>2 DEF StopsInv, PropagatorInv, ImporterInv
  <2>5. WritersInv'
    <3> SUFFICES ASSUME NEW w \in Writers
                 PROVE  /\ ThreadInv(writer[w], writerFuture'[w], writerStop[w])
                        /\ ~writerStop[w]
                        /\ main' \in {"checkWriters", "loop"} => writerFuture'[w] = "valid"
                        /\ ~destroyed
      BY <2>1, <2>2 DEF WritersInv
    <3>1. writerFuture'[w] = IF w = client /\ writer[w] \in Ended THEN "spent"
                             ELSE writerFuture[w]
      BY <1>0, <2>2 DEF TypeInv
    <3>2. QED
      BY <1>0, <2>1, <3>1 DEF WritersInv, StopsInv, ThreadInv, Ended
  <2>6. QED
    BY <2>3, <2>4, <2>5 DEF ControlInv
<1>4. QED
  BY <1>1, <1>2, <1>3 DEF Watching

(* stop(): every thread has ended when the clients are destroyed.          *)
LEMMA StoppingControl ==
    ASSUME ControlInv, Stopping
    PROVE  ControlInv'
<1> USE DEF flagVars, propagatorVars, importerVars, writerVars, queueVars, Places,
            Working, BeforeStart, Watched, Joined
<1>0. TypeInv /\ StopsInv /\ PropagatorInv /\ ImporterInv /\ WritersInv /\ 1 \in Writers
  BY RelayAssumption DEF ControlInv, Writers
<1>1. CASE StopFlag
  <2>1. TypeInv' /\ StopsInv'
    BY <1>0, <1>1 DEF StopFlag, TypeInv, StopsInv
  <2>2. PropagatorInv' /\ ImporterInv' /\ WritersInv'
    BY <1>0, <1>1 DEF StopFlag, PropagatorInv, ImporterInv, WritersInv
  <2>3. QED
    BY <2>1, <2>2 DEF ControlInv
<1>2. CASE JoinPropagator
  <2>1. TypeInv' /\ StopsInv'
    BY <1>0, <1>2 DEF JoinPropagator, Step, TypeInv, StopsInv
  <2>2. PropagatorInv' /\ ImporterInv' /\ WritersInv'
    BY <1>0, <1>2 DEF JoinPropagator, Step, PropagatorInv, ImporterInv, WritersInv
  <2>3. QED
    BY <2>1, <2>2 DEF ControlInv
<1>3. CASE StopImporter
  <2>1. TypeInv' /\ StopsInv'
    BY <1>0, <1>3 DEF StopImporter, TellImporter, TypeInv, StopsInv
  <2>2. PropagatorInv' /\ ImporterInv' /\ WritersInv'
    BY <1>0, <1>3 DEF StopImporter, TellImporter, TypeInv, PropagatorInv, ImporterInv,
                      WritersInv, ThreadInv
  <2>3. QED
    BY <2>1, <2>2 DEF ControlInv
<1>4. CASE StopWriter
  <2>1. /\ main = "stopWriters"
        /\ main' = "stopWriters" \/ main' = "getImporter"
        /\ main' = "getImporter" => client' = 1
        /\ client' \in Writers
        /\ writerStop' = [writerStop EXCEPT ![client] = @ \/ ~destroyed]
        /\ UNCHANGED <<flagVars, propagatorVars, importerVars, writer, writerFuture, queueVars>>
    BY <1>0, <1>4, ClientType DEF StopWriter
  <2>2. TypeInv' /\ StopsInv'
    BY <1>0, <2>1 DEF TypeInv, StopsInv
  <2>3. PropagatorInv' /\ ImporterInv'
    BY <1>0, <2>1 DEF PropagatorInv, ImporterInv
  <2>4. WritersInv'
    <3>1. \A w \in Writers : writerStop[w] => writerStop'[w]
      BY <1>0, <2>1 DEF TypeInv
    <3>2. QED
      BY <1>0, <2>1, <3>1 DEF WritersInv, ThreadInv
  <2>5. QED
    BY <2>2, <2>3, <2>4 DEF ControlInv
<1>5. CASE GetImporter
  <2>1. /\ main = "getImporter" /\ main' = "getWriters" /\ client' = 1
        /\ importFuture' = IF importFuture = "valid" THEN "spent" ELSE importFuture
        /\ importFuture = "valid" => importer \in Ended
        /\ UNCHANGED <<flagVars, propagatorVars, importer, importerStop, imported,
                       writerVars, queueVars>>
    BY <1>5 DEF GetImporter, Got
  <2>2. TypeInv' /\ StopsInv'
    BY <1>0, <2>1 DEF TypeInv, StopsInv, FutureStates
  <2>3. PropagatorInv' /\ ImporterInv'
    BY <1>0, <2>1 DEF TypeInv, PropagatorInv, ImporterInv, ThreadInv, Ended, FutureStates
  <2>4. WritersInv'
    BY <1>0, <2>1 DEF WritersInv, Writers
  <2>5. QED
    BY <2>2, <2>3, <2>4 DEF ControlInv
<1>6. CASE GetWriter
  <2>1. /\ main = "getWriters"
        /\ main' \in {"getWriters", "destroy"}
        /\ client' \in Writers
        /\ main' = "getWriters" => \A w \in Writers : w < client' => w < client \/ w = client
        /\ main' = "destroy" => \A w \in Writers : w < client \/ w = client
    BY <1>0, <1>6, ClientType DEF GetWriter
  <2>2. /\ writerFuture[client] = "valid" => writer[client] \in Ended
        /\ writerFuture' = [writerFuture EXCEPT ![client] =
                                IF @ = "valid" THEN "spent" ELSE @]
        /\ UNCHANGED <<flagVars, propagatorVars, importerVars, writer, writerStop, queueVars>>
    BY <1>6 DEF GetWriter, Got
  <2>3. TypeInv' /\ StopsInv'
    BY <1>0, <2>1, <2>2 DEF TypeInv, StopsInv, FutureStates
  <2>4. PropagatorInv' /\ ImporterInv'
    BY <1>0, <2>1, <2>2 DEF PropagatorInv, ImporterInv
  <2>5. WritersInv'
    <3> SUFFICES ASSUME NEW w \in Writers
                 PROVE  /\ ThreadInv(writer[w], writerFuture'[w], writerStop[w])
                        /\ main' = "getWriters" /\ w < client' => writer[w] # "running"
                        /\ main' = "destroy" \/ destroyed => writer[w] # "running"
      BY <2>1, <2>2 DEF WritersInv
    <3>1. writerFuture'[w] = IF w = client /\ writerFuture[w] = "valid" THEN "spent"
                             ELSE writerFuture[w]
      BY <1>0, <2>2 DEF TypeInv
    <3>2. ThreadInv(writer[w], writerFuture[w], writerStop[w]) /\ writerFuture[w] \in FutureStates
      BY <1>0 DEF WritersInv, TypeInv
    <3>3. w = client => writer[w] # "running"
      BY <2>2, <3>2 DEF ThreadInv, Ended, FutureStates
    <3>4. QED
      BY <1>0, <2>1, <2>2, <3>1, <3>2, <3>3 DEF WritersInv, ThreadInv, Ended
  <2>6. QED
    BY <2>3, <2>4, <2>5 DEF ControlInv
<1>7. CASE Destroy
  <2>1. TypeInv' /\ StopsInv'
    BY <1>0, <1>7 DEF Destroy, TypeInv, StopsInv
  <2>2. PropagatorInv' /\ ImporterInv' /\ WritersInv'
    BY <1>0, <1>7 DEF Destroy, PropagatorInv, ImporterInv, WritersInv
  <2>3. QED
    BY <2>1, <2>2 DEF ControlInv
<1>8. QED
  BY <1>1, <1>2, <1>3, <1>4, <1>5, <1>6, <1>7 DEF Stopping

(* The workers and the signal handler: a worker that returns was stopped.  *)
LEMMA WorkersControl ==
    ASSUME ControlInv, Signal \/ Workers
    PROVE  ControlInv'
<1> USE DEF flagVars, mainVars, propagatorVars, importerVars, writerVars, queueVars
<1>0. TypeInv /\ StopsInv /\ PropagatorInv /\ ImporterInv /\ WritersInv
  BY DEF ControlInv
<1>1. CASE Signal
  <2>1. TypeInv' /\ StopsInv'
    BY <1>0, <1>1 DEF Signal, TypeInv, StopsInv
  <2>2. PropagatorInv' /\ ImporterInv' /\ WritersInv'
    BY <1>0, <1>1 DEF Signal, PropagatorInv, ImporterInv, WritersInv
  <2>3. QED
    BY <2>1, <2>2 DEF ControlInv
<1>2. CASE Import
  <2>1. imported' \in Nat /\ importQueue' \in Seq(Nat)
    <3>1. \E p \in Nat : importQueue' \in Offered(importQueue, ImportSize, p)
      BY <1>0, <1>2 DEF Import, TypeInv
    <3>2. imported' \in Nat
      BY <1>0, <1>2 DEF Import, TypeInv
    <3>3. QED
      BY <1>0, <3>1, <3>2, OfferedType DEF TypeInv
  <2>2. TypeInv' /\ StopsInv'
    BY <1>0, <1>2, <2>1 DEF Import, TypeInv, StopsInv
  <2>3. PropagatorInv' /\ ImporterInv' /\ WritersInv'
    BY <1>0, <1>2 DEF Import, PropagatorInv, ImporterInv, WritersInv
  <2>4. QED
    BY <2>2, <2>3 DEF ControlInv
<1>3. CASE ImporterThrows \/ ImporterReturns
  <2>1. /\ importer = "running" /\ importer' \in Ended
        /\ importer' = "returned" => importerStop
        /\ UNCHANGED <<mainVars, propagatorVars, importerStop, importFuture,
                       imported, writerVars, queueVars>>
    BY <1>3 DEF ImporterThrows, ImporterReturns, ImporterEnds, Ended
  <2>2. TypeInv' /\ StopsInv'
    BY <1>0, <2>1 DEF TypeInv, StopsInv, ThreadStates, Ended
  <2>3. PropagatorInv' /\ WritersInv'
    BY <1>0, <2>1 DEF PropagatorInv, WritersInv
  <2>4. ImporterInv'
    BY <1>0, <2>1 DEF ImporterInv, ThreadInv, Ended
  <2>5. QED
    BY <2>2, <2>3, <2>4 DEF ControlInv
<1>4. CASE Propagator
  <2>1. /\ propagator \notin {"unborn", "returned"}
        /\ propagator' \in {"test", "pop", "propagate", "returned"}
        /\ UNCHANGED <<mainVars, importerVars, writerVars, delivered>>
    BY <1>4 DEF Propagator, TestRunning, PopNothing, PopImport, Propagate, PropagateUntil
  <2>2. /\ packet' \in Nat /\ target' \in Writers
        /\ importQueue' \in Seq(Nat) /\ exportQueue' \in [Writers -> Seq(Nat)]
        /\ popped' \in Nat /\ given' \in [Writers -> Nat]
    <3>1. CASE TestRunning \/ PopNothing
      BY <1>0, <3>1 DEF TestRunning, PopNothing, TypeInv
    <3>2. CASE PopImport
      <4>1. Tail(importQueue) \in Seq(Nat) /\ Head(importQueue) \in Nat
        BY <1>0, <3>2, TailOf DEF PopImport, TypeInv
      <4>2. QED
        BY <1>0, <3>2, <4>1, RelayAssumption DEF PopImport, TypeInv, Writers
    <3>3. CASE Propagate
      <4>1. /\ given' = [given EXCEPT ![target] = @ + 1]
            /\ UNCHANGED <<packet, importQueue, popped>>
        BY <3>3 DEF Propagate, PropagateUntil
      <4>2. exportQueue' \in [Writers -> Seq(Nat)]
        <5>1. PICK q \in Offered(exportQueue[target], ExportSize, packet) :
                 exportQueue' = [exportQueue EXCEPT ![target] = q]
          BY <3>3 DEF Propagate, PropagateUntil
        <5>2. q \in Seq(Nat)
          BY <1>0, OfferedType DEF TypeInv
        <5>3. QED
          BY <1>0, <5>1, <5>2 DEF TypeInv
      <4>3. target' \in Writers
        <5>1. target' = IF target = NumWriters THEN 1 ELSE target + 1
          BY <3>3 DEF Propagate, PropagateUntil
        <5>2. QED
          BY <1>0, <5>1, RelayAssumption DEF TypeInv, Writers
      <4>4. given' \in [Writers -> Nat]
        BY <1>0, <4>1 DEF TypeInv
      <4>5. QED
        BY <1>0, <4>1, <4>2, <4>3, <4>4 DEF TypeInv
    <3>4. QED
      BY <1>4, <3>1, <3>2, <3>3 DEF Propagator
  <2>3. TypeInv' /\ StopsInv'
    BY <1>0, <2>1, <2>2 DEF TypeInv, StopsInv
  <2>4. PropagatorInv'
    BY <1>0, <2>1 DEF PropagatorInv
  <2>5. ImporterInv' /\ WritersInv'
    BY <1>0, <2>1 DEF ImporterInv, WritersInv
  <2>6. QED
    BY <2>3, <2>4, <2>5 DEF ControlInv
<1>5. ASSUME NEW w \in Writers, Write(w)
      PROVE  ControlInv'
  <2>1. Tail(exportQueue[w]) \in Seq(Nat) /\ Head(exportQueue[w]) \in Nat
    BY <1>0, <1>5, TailOf DEF Write, TypeInv
  <2>2. exportQueue' \in [Writers -> Seq(Nat)] /\ delivered' \in [Writers -> Seq(Nat)]
    <3>1. Append(delivered[w], Head(exportQueue[w])) \in Seq(Nat)
      BY <1>0, <2>1, AppendOf DEF TypeInv
    <3>2. QED
      BY <1>0, <1>5, <2>1, <3>1 DEF Write, TypeInv
  <2>3. TypeInv' /\ StopsInv'
    BY <1>0, <1>5, <2>2 DEF Write, TypeInv, StopsInv
  <2>4. PropagatorInv' /\ ImporterInv' /\ WritersInv'
    BY <1>0, <1>5 DEF Write, PropagatorInv, ImporterInv, WritersInv
  <2>5. QED
    BY <2>3, <2>4 DEF ControlInv
<1>6. ASSUME NEW v \in Writers, WriterThrows(v) \/ WriterReturns(v)
      PROVE  ControlInv'
  <2>1. /\ writer[v] = "running"
        /\ \E how \in Ended : writer' = [writer EXCEPT ![v] = how]
                             /\ (how = "returned" => writerStop[v])
        /\ UNCHANGED <<mainVars, propagatorVars, importerVars, writerStop,
                       writerFuture, queueVars>>
    BY <1>6 DEF WriterThrows, WriterReturns, WriterEnds, Ended
  <2>2. TypeInv' /\ StopsInv'
    BY <1>0, <2>1 DEF TypeInv, StopsInv, ThreadStates, Ended
  <2>3. PropagatorInv' /\ ImporterInv'
    BY <1>0, <2>1 DEF PropagatorInv, ImporterInv
  <2>4. WritersInv'
    <3> SUFFICES ASSUME NEW w \in Writers
                 PROVE  /\ ThreadInv(writer'[w], writerFuture[w], writerStop[w])
                        /\ writer[w] # "running" => writer'[w] = writer[w]
                        /\ writer[w] = "unborn" => writer'[w] = "unborn"
      BY <1>0, <2>1 DEF WritersInv
    <3>1. \/ writer'[w] = writer[w]
          \/ /\ writer[w] = "running" /\ writer'[w] \in Ended
             /\ writer'[w] = "returned" => writerStop[w]
      BY <1>0, <2>1 DEF TypeInv
    <3>2. QED
      BY <1>0, <3>1 DEF WritersInv, ThreadInv, Ended
  <2>5. QED
    BY <2>2, <2>3, <2>4 DEF ControlInv
<1>7. QED
  BY <1>1, <1>2, <1>3, <1>4, <1>5, <1>6 DEF Workers

(* No step of any thread takes the program out of control.                 *)
LEMMA ControlStep ==
    ASSUME ControlInv, [Next]_vars
    PROVE  ControlInv'
<1>1. CASE Next
  BY <1>1, StartingControl, WatchingControl, StoppingControl, WorkersControl DEF Next, Main
<1>2. CASE UNCHANGED vars
  BY <1>2 DEF vars, mainVars, flagVars, propagatorVars, importerVars, writerVars, queueVars,
              ControlInv, TypeInv, StopsInv, PropagatorInv, ImporterInv, WritersInv
<1>3. QED
  BY <1>1, <1>2

-----------------------------------------------------------------------------
(* Data: which packets each client was given, and their order. *)

(* What one step of the propagator's loop over the clients does.           *)
LEMMA PropagateStep ==
    ASSUME TypeInv, Propagate
    PROVE  /\ propagator = "propagate"
           /\ \E q \in Offered(exportQueue[target], ExportSize, packet) :
                  exportQueue' = [exportQueue EXCEPT ![target] = q]
           /\ given' = [given EXCEPT ![target] = @ + 1]
           /\ \/ /\ \A w \in Writers : w <= target
                 /\ propagator' = "test"
              \/ /\ propagator' = "propagate"
                 /\ target' = target + 1
           /\ UNCHANGED <<packet, imported, importQueue, popped, delivered>>
<1>1. target = NumWriters => \A w \in Writers : w <= target
  BY RelayAssumption DEF Writers
<1>2. /\ propagator = "propagate"
      /\ \E q \in Offered(exportQueue[target], ExportSize, packet) :
             exportQueue' = [exportQueue EXCEPT ![target] = q]
      /\ given' = [given EXCEPT ![target] = @ + 1]
      /\ UNCHANGED <<packet, importerVars, importQueue, popped, delivered>>
      /\ target = NumWriters => propagator' = "test"
      /\ target # NumWriters => propagator' = "propagate" /\ target' = target + 1
  BY DEF Propagate, PropagateUntil
<1>3. QED
  BY <1>1, <1>2 DEF importerVars

(* The propagator gives every packet to every client.                      *)
LEMMA FanOutStep ==
    ASSUME ControlInv, FanOutInv, Next
    PROVE  FanOutInv'
<1> USE DEF mainVars, propagatorVars, importerVars, writerVars, queueVars
<1>0. /\ TypeInv
      /\ main = "startPropagator" => propagator = "unborn"
      /\ \A w \in Writers : w \in Nat /\ 1 <= w
  BY DEF ControlInv, PropagatorInv, Writers
<1>1. CASE Main
  <2>1. DataUnchanged
    BY <1>1, MainMovesNothing
  <2>2. propagator' = "propagate" <=> propagator = "propagate"
    BY <1>0, <2>1 DEF DataUnchanged
  <2>3. QED
    BY <2>1, <2>2 DEF DataUnchanged, FanOutInv
<1>2. CASE Signal \/ Import \/ ImporterThrows \/ ImporterReturns
  BY <1>2 DEF Signal, Import, ImporterThrows, ImporterReturns, ImporterEnds, FanOutInv
<1>3. CASE TestRunning \/ PopNothing
  BY <1>3 DEF TestRunning, PopNothing, FanOutInv
<1>4. CASE PopImport
  <2>1. propagator = "pop" /\ propagator' = "propagate" /\ target' = 1
        /\ popped' = popped + 1 /\ given' = given
    BY <1>4 DEF PopImport
  <2>2. QED
    BY <1>0, <2>1 DEF FanOutInv, TypeInv
<1>5. CASE Propagate
  <2> SUFFICES ASSUME NEW w \in Writers
               PROVE  popped' = given'[w]
                          + (IF propagator' = "propagate" /\ target' <= w THEN 1 ELSE 0)
    BY DEF FanOutInv
  <2>1. /\ popped = given[w] + (IF target <= w THEN 1 ELSE 0)
        /\ popped' = popped
        /\ given'[w] = IF w = target THEN given[w] + 1 ELSE given[w]
    BY <1>0, <1>5, PropagateStep DEF FanOutInv, TypeInv
  <2>2. /\ given[w] \in Nat /\ w \in Nat /\ target \in Nat
        /\ \/ w <= target /\ propagator' = "test"
           \/ propagator' = "propagate" /\ target' = target + 1
    BY <1>0, <1>5, PropagateStep DEF TypeInv
  <2>3. QED
    BY <2>1, <2>2
<1>6. CASE \E w \in Writers : Write(w) \/ WriterThrows(w) \/ WriterReturns(w)
  BY <1>6 DEF Write, WriterThrows, WriterReturns, WriterEnds, FanOutInv
<1>7. QED
  BY <1>1, <1>2, <1>3, <1>4, <1>5, <1>6 DEF Next, Workers, Propagator

(* Packets overtake each other nowhere on their way.                       *)
LEMMA OrderStep ==
    ASSUME ControlInv, OrderInv, Next
    PROVE  OrderInv'
<1> USE DEF mainVars, propagatorVars, importerVars, writerVars, queueVars
<1>0. /\ TypeInv
      /\ main = "startPropagator" => propagator = "unborn"
      /\ \A w \in Writers : w \in Nat /\ 1 <= w
      /\ packet \in Nat /\ imported \in Nat /\ packet <= imported
      /\ \A w \in Writers :
             /\ delivered[w] \in Seq(Nat) /\ exportQueue[w] \in Seq(Nat)
             /\ NextFor(w) \in Nat
             /\ Lined(delivered[w], exportQueue[w], NextFor(w))
  <2>1. TypeInv /\ (main = "startPropagator" => propagator = "unborn")
    BY DEF ControlInv, PropagatorInv
  <2>2. packet \in Nat /\ imported \in Nat /\ packet <= imported
    BY <2>1 DEF TypeInv, OrderInv
  <2>3. ASSUME NEW w \in Writers
        PROVE  /\ w \in Nat /\ 1 <= w
               /\ delivered[w] \in Seq(Nat) /\ exportQueue[w] \in Seq(Nat)
               /\ NextFor(w) \in Nat
               /\ Lined(delivered[w], exportQueue[w], NextFor(w))
    <3>1. w \in Nat /\ 1 <= w
      BY DEF Writers
    <3>2. delivered[w] \in Seq(Nat) /\ exportQueue[w] \in Seq(Nat)
      BY <2>1 DEF TypeInv
    <3>3. NextFor(w) \in Nat
      BY <2>2 DEF NextFor
    <3>4. QED
      BY <3>1, <3>2, <3>3 DEF OrderInv
  <2>4. QED
    BY <2>1, <2>2, <2>3
<1>1. CASE Main
  <2>1. DataUnchanged
    BY <1>1, MainMovesNothing
  <2>2. propagator' = "propagate" <=> propagator = "propagate"
    BY <1>0, <2>1 DEF DataUnchanged
  <2>3. QED
    BY <2>1, <2>2 DEF DataUnchanged, OrderInv, NextFor
<1>2. CASE Signal \/ ImporterThrows \/ ImporterReturns
  BY <1>2 DEF Signal, ImporterThrows, ImporterReturns, ImporterEnds, OrderInv, NextFor
<1>3. CASE Import
  <2>1. /\ imported' = imported + 1
        /\ importQueue' \in Offered(importQueue, ImportSize, imported + 1)
        /\ UNCHANGED <<propagator, packet, target, exportQueue, delivered>>
    BY <1>3 DEF Import
  <2>2. /\ importQueue \in Seq(Nat)
        /\ Increasing(importQueue) /\ AllBelow(importQueue, imported + 1)
        /\ AllAbove(importQueue, packet)
    BY <1>0 DEF TypeInv, OrderInv
  <2>3. Increasing(importQueue') /\ AllBelow(importQueue', imported' + 1)
        /\ AllAbove(importQueue', packet)
    BY <1>0, <2>1, <2>2, OfferedInOrder
  <2>4. QED
    BY <1>0, <2>1, <2>3 DEF OrderInv, NextFor
<1>4. CASE TestRunning \/ PopNothing
  BY <1>4 DEF TestRunning, PopNothing, OrderInv, NextFor
<1>5. CASE PopImport
  <2>1. /\ propagator = "pop" /\ propagator' = "propagate" /\ target' = 1
        /\ importQueue # <<>> /\ packet' = Head(importQueue)
        /\ importQueue' = Tail(importQueue)
        /\ UNCHANGED <<imported, exportQueue, delivered>>
    BY <1>5 DEF PopImport
  <2>2. /\ importQueue' \in Seq(Nat) /\ packet' \in Nat
        /\ Increasing(importQueue') /\ AllAbove(importQueue', packet')
        /\ packet < packet' /\ packet' < imported + 1
        /\ AllBelow(importQueue', imported + 1)
    BY <1>0, <2>1, TailInOrder DEF TypeInv, OrderInv
  <2>3. ASSUME NEW w \in Writers
        PROVE  Lined(delivered'[w], exportQueue'[w], NextFor(w)')
    <3>1. NextFor(w) = packet + 1 /\ NextFor(w)' = packet'
      BY <1>0, <2>1 DEF NextFor
    <3>2. NextFor(w)' \in Nat /\ NextFor(w) <= NextFor(w)'
      BY <1>0, <2>2, <3>1
    <3>3. QED
      BY <1>0, <2>1, <3>2, LinedLater
  <2>4. packet' <= imported'
    BY <1>0, <2>1, <2>2
  <2>5. QED
    BY <2>1, <2>2, <2>3, <2>4 DEF OrderInv
<1>6. CASE Propagate
  <2>1. UNCHANGED <<packet, imported, importQueue, delivered>>
    BY <1>0, <1>6, PropagateStep
  <2>2. ASSUME NEW w \in Writers
        PROVE  Lined(delivered'[w], exportQueue'[w], NextFor(w)')
    <3>1. PICK q \in Offered(exportQueue[target], ExportSize, packet) :
             exportQueue' = [exportQueue EXCEPT ![target] = q]
      BY <1>0, <1>6, PropagateStep
    <3>2. /\ propagator = "propagate"
          /\ w \in Nat /\ target \in Nat /\ target \in Writers
          /\ \/ w <= target /\ propagator' = "test"
             \/ propagator' = "propagate" /\ target' = target + 1
      BY <1>0, <1>6, PropagateStep DEF TypeInv
    <3>3. CASE w = target
      <4>1. NextFor(w) = packet /\ NextFor(w)' = packet + 1
        BY <2>1, <3>2, <3>3 DEF NextFor
      <4>2. exportQueue'[w] = q
        BY <1>0, <3>1, <3>3 DEF TypeInv
      <4>3. QED
        BY <1>0, <2>1, <3>1, <3>3, <4>1, <4>2, LinedOffered
    <3>4. CASE w # target
      <4>1. NextFor(w)' = NextFor(w)
        BY <2>1, <3>2, <3>4 DEF NextFor
      <4>2. exportQueue'[w] = exportQueue[w]
        BY <1>0, <3>1, <3>4 DEF TypeInv
      <4>3. QED
        BY <1>0, <2>1, <4>1, <4>2
    <3>5. QED
      BY <3>3, <3>4
  <2>3. QED
    BY <2>1, <2>2 DEF OrderInv
<1>7. ASSUME NEW v \in Writers, Write(v)
      PROVE  OrderInv'
  <2>1. /\ exportQueue[v] # <<>>
        /\ exportQueue' = [exportQueue EXCEPT ![v] = Tail(@)]
        /\ delivered' \in
               {delivered, [delivered EXCEPT ![v] = Append(@, Head(exportQueue[v]))]}
        /\ UNCHANGED <<propagator, packet, target, imported, importQueue>>
    BY <1>7 DEF Write
  <2>2. ASSUME NEW w \in Writers
        PROVE  Lined(delivered'[w], exportQueue'[w], NextFor(w)')
    <3>1. NextFor(w)' = NextFor(w)
      BY <2>1 DEF NextFor
    <3>2. CASE w = v
      <4>1. /\ exportQueue'[w] = Tail(exportQueue[w])
            /\ \/ delivered'[w] = delivered[w]
               \/ delivered'[w] = Append(delivered[w], Head(exportQueue[w]))
        BY <1>0, <2>1, <3>2 DEF TypeInv
      <4>2. /\ Lined(delivered[w], Tail(exportQueue[w]), NextFor(w))
            /\ Lined(Append(delivered[w], Head(exportQueue[w])),
                     Tail(exportQueue[w]), NextFor(w))
        BY <1>0, <2>1, <3>2, LinedWritten
      <4>3. QED
        BY <3>1, <4>1, <4>2
    <3>3. CASE w # v
      <4>1. exportQueue'[w] = exportQueue[w] /\ delivered'[w] = delivered[w]
        BY <1>0, <2>1, <3>3 DEF TypeInv
      <4>2. QED
        BY <1>0, <3>1, <4>1
    <3>4. QED
      BY <3>2, <3>3
  <2>3. QED
    BY <2>1, <2>2 DEF OrderInv
<1>8. CASE \E w \in Writers : WriterThrows(w) \/ WriterReturns(w)
  BY <1>8 DEF WriterThrows, WriterReturns, WriterEnds, OrderInv, NextFor
<1>9. QED
  BY <1>1, <1>2, <1>3, <1>4, <1>5, <1>6, <1>7, <1>8 DEF Next, Workers, Propagator

-----------------------------------------------------------------------------
(* The theorems. *)

LEMMA Initially == Init => IInv
<1> SUFFICES ASSUME Init PROVE IInv
  OBVIOUS
<1>1. ControlInv
  BY ControlInitially
<1>2. FanOutInv
  BY DEF Init, FanOutInv
<1>3. OrderInv
  BY DEF Init, OrderInv, Lined, Increasing, AllAbove, AllBelow
<1>4. QED
  BY <1>1, <1>2, <1>3 DEF IInv

LEMMA EveryStep == IInv /\ [Next]_vars => IInv'
<1> SUFFICES ASSUME IInv, [Next]_vars PROVE IInv'
  OBVIOUS
<1>1. ControlInv'
  BY ControlStep DEF IInv
<1>2. FanOutInv' /\ OrderInv'
  <2>1. CASE Next
    BY <2>1, FanOutStep, OrderStep DEF IInv
  <2>2. CASE UNCHANGED vars
    BY <2>2 DEF vars, propagatorVars, importerVars, queueVars, IInv, FanOutInv,
                OrderInv, NextFor
  <2>3. QED
    BY <2>1, <2>2
<1>3. QED
  BY <1>1, <1>2 DEF IInv

(* The control, the fan-out and the order hold in every state of the       *)
(* program, for any number of clients and packets and any queue sizes.     *)
THEOREM Invariance == Spec => []IInv
<1>1. QED
  BY Initially, EveryStep, PTL DEF Spec

(* Every RingServer receives its packets in the order SEEDLink sent them,  *)
(* none twice: through propagatePackets, both queues and the writer.       *)
THEOREM DeliveredAlwaysInOrder == Spec => []DeliveredInOrder
<1>1. IInv => DeliveredInOrder
  BY DEF IInv, OrderInv, Lined, Increasing, DeliveredInOrder
<1>2. QED
  BY <1>1, Invariance, PTL

(* No client misses a packet that the propagator popped, whatever stops.   *)
THEOREM FanOutAlwaysComplete == Spec => []FanOutComplete
<1>1. IInv => FanOutComplete
  BY DEF IInv, ControlInv, TypeInv, FanOutInv, FanOutComplete
<1>2. QED
  BY <1>1, Invariance, PTL

(* stop() leaves no thread that could touch a destroyed client.            *)
THEOREM NeverUsedAfterDestroy == Spec => []NoUseAfterDestroy
<1>1. IInv => NoUseAfterDestroy
  BY DEF IInv, ControlInv, PropagatorInv, ImporterInv, WritersInv, NoUseAfterDestroy
<1>2. QED
  BY <1>1, Invariance, PTL

(* handleMainThread never calls wait_for on a future that it spent.        *)
THEOREM FuturesAlwaysValid == Spec => []FuturesStayValid
<1>1. IInv => FuturesStayValid
  BY DEF IInv, ControlInv, ImporterInv, WritersInv, Watched, FuturesStayValid
<1>2. QED
  BY <1>1, Invariance, PTL

(* From the join of the propagator on, the writers only have to clear what *)
(* their queues hold.                                                      *)
THEOREM OnlyEverDrains == Spec => OnlyDrainsAfterJoin
<1>1. ASSUME IInv, [Next]_vars, Draining, NEW w \in Writers
      PROVE  Len(exportQueue'[w]) <= Len(exportQueue[w])
  <2> USE DEF mainVars, propagatorVars, importerVars, writerVars, queueVars
  <2>0. /\ exportQueue \in [Writers -> Seq(Nat)]
        /\ propagator \in {"unborn", "returned"}
    BY <1>1 DEF IInv, ControlInv, TypeInv, PropagatorInv, Joined, Draining
  <2>1. ~Propagator
    BY <2>0 DEF Propagator, TestRunning, PopNothing, PopImport, Propagate, PropagateUntil
  <2>2. \/ exportQueue' = exportQueue
        \/ \E v \in Writers : exportQueue[v] # <<>>
                             /\ exportQueue' = [exportQueue EXCEPT ![v] = Tail(@)]
    <3>1. CASE Main
      BY <3>1, MainMovesNothing DEF DataUnchanged
    <3>2. CASE Signal \/ Import \/ ImporterThrows \/ ImporterReturns
      BY <3>2 DEF Signal, Import, ImporterThrows, ImporterReturns, ImporterEnds
    <3>3. CASE \E v \in Writers : Write(v) \/ WriterThrows(v) \/ WriterReturns(v)
      BY <3>3 DEF Write, WriterThrows, WriterReturns, WriterEnds
    <3>4. CASE UNCHANGED vars
      BY <3>4 DEF vars
    <3>5. QED
      BY <1>1, <2>1, <3>1, <3>2, <3>3, <3>4 DEF Next, Workers
  <2>3. exportQueue[w] # <<>> => Len(Tail(exportQueue[w])) = Len(exportQueue[w]) - 1
    BY <2>0, TailOf
  <2>4. QED
    BY <2>0, <2>2, <2>3
<1>2. IInv /\ [Next]_vars
          => [Draining => \A w \in Writers :
                 Len(exportQueue'[w]) <= Len(exportQueue[w])]_vars
  BY <1>1
<1>3. QED
  BY <1>2, Invariance, PTL DEF Spec, OnlyDrainsAfterJoin

=============================================================================
