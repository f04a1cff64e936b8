-------------------------- MODULE StreamMetricsProofs --------------------------
(***************************************************************************)
(* The invariants of StreamMetrics for every value of the constants.  What *)
(* has left the running counts of a stream is in flight or published, and  *)
(* no step of the publication changes the sum of the two.                  *)
(***************************************************************************)
EXTENDS StreamMetrics, FiniteSetTheorems, WellFoundedInduction, TLAPS

Counts == [Kinds -> Nat]
Maps == UNION {[D -> Nat] : D \in SUBSET Streams}
Arrivals == [end : Nat, future : BOOLEAN, good : BOOLEAN]

TypeInv ==
    /\ now \in Nat
    /\ newest \in [Streams -> Nat]
    /\ known \in SUBSET Streams
    /\ running \in [Streams -> Counts]
    /\ counted \in [Streams -> Counts]
    /\ snapshot \in Counts
    /\ shown \in [Kinds -> Maps]
    /\ arrived \in [Streams -> Seq(Arrivals)]
    /\ pc \in {"idle", "snapshot", "publish"}
    /\ stage \in 1..4
    /\ todo \in SUBSET Streams
    /\ pc # "idle" => todo # {}

(* What was taken from the running counts. *)
Out(k, s) == InFlight(k, s) + Shown(k, s)

(* The parts of these counts do not exceed their total. *)
PartsBounded(good, future, expired, total) == good + future + expired <= total

(* No packet that was not in the future ends after the newest sample.      *)
NewestInv ==
    \A s \in Streams : \A i \in 1..Len(arrived[s]) :
        ~arrived[s][i].future => arrived[s][i].end <= newest[s]

(* What GoodPacketsAreNew says. *)
GoodInv ==
    \A s \in Streams : \A j \in 1..Len(arrived[s]) :
        arrived[s][j].good =>
            /\ ~arrived[s][j].future
            /\ \A i \in 1..(j - 1) :
                   arrived[s][i].future \/ arrived[s][i].end < arrived[s][j].end

PartsInv ==
    \A s \in Streams :
        /\ PartsBounded(running[s]["good"], running[s]["future"],
                        running[s]["expired"], running[s]["total"])
        /\ PartsBounded(Out("good", s), Out("future", s), Out("expired", s),
                        Out("total", s))

ConservedInv ==
    \A s \in Streams, k \in Kinds : counted[s][k] = running[s][k] + Out(k, s)

MetricsInv ==
    /\ TypeInv
    /\ ConservedInv
    /\ PartsInv
    /\ NewestInv
    /\ GoodInv

-----------------------------------------------------------------------------
(* Facts about the data. *)

(* A set of natural numbers that is not empty has a least one.             *)
LEMMA LeastNumber ==
    ASSUME NEW T, T \subseteq Nat, T # {}
    PROVE  \E x \in T : \A y \in T : x <= y
<1> DEFINE R == OpToRel(<, Nat)
<1>1. IsWellFoundedOn(R, Nat)
  BY NatLessThanWellFounded
<1>2. PICK x \in T : \A y \in T : ~(<<y, x>> \in R)
  <2> HIDE DEF R
  <2>1. QED
    BY <1>1, WFMin
<1>3. \A y \in T : y < x => <<y, x>> \in R
  BY DEF OpToRel
<1>4. \A y \in T : ~(y < x)
  <2> HIDE DEF R
  <2>1. QED
    BY <1>2, <1>3, Zenon
<1>5. \A y \in T : x <= y
  BY <1>4
<1>6. QED
  BY <1>5

(* The stream that is next is the first of those there are.                *)
LEMMA NextStream ==
    ASSUME NEW T \in SUBSET Streams, T # {}
    PROVE  Min(T) \in T /\ \A y \in T : Min(T) <= y
<1>1. T \subseteq Nat
  BY DEF Streams
<1>2. PICK x \in T : \A y \in T : x <= y
  BY <1>1, LeastNumber
<1>3. QED
  BY <1>2 DEF Min

(* The count of a stream in a map, and add_or_assign: it adds to this      *)
(* stream and to no other.                                                 *)
Value(f, s) == IF s \in DOMAIN f THEN f[s] ELSE 0

LEMMA ValueAdded ==
    ASSUME NEW f \in Maps, NEW s \in Streams, NEW n \in Nat
    PROVE  /\ AddOrAssign(f, s, n) \in Maps
           /\ \A t \in Streams : Value(f, t) \in Nat
           /\ \A t \in Streams :
                  Value(AddOrAssign(f, s, n), t) = Value(f, t) + (IF t = s THEN n ELSE 0)
<1>1. PICK D \in SUBSET Streams : f \in [D -> Nat]
  BY DEF Maps
<1>2. AddOrAssign(f, s, n) \in [D \cup {s} -> Nat]
  BY <1>1 DEF AddOrAssign
<1>3. AddOrAssign(f, s, n) \in Maps
  BY <1>2 DEF Maps
<1>4. ASSUME NEW t \in Streams
      PROVE  /\ Value(f, t) \in Nat
             /\ Value(AddOrAssign(f, s, n), t) = Value(f, t) + (IF t = s THEN n ELSE 0)
  <2>1. DOMAIN f = D /\ DOMAIN AddOrAssign(f, s, n) = D \cup {s}
    BY <1>1 DEF AddOrAssign
  <2>2. t \in D => f[t] \in Nat
    BY <1>1
  <2>3. t \in D \cup {s} => AddOrAssign(f, s, n)[t] =
            (IF t \in D THEN f[t] ELSE 0) + (IF t = s THEN n ELSE 0)
    BY <2>1 DEF AddOrAssign
  <2>4. QED
    BY <2>1, <2>2, <2>3 DEF Value
<1>5. QED
  BY <1>3, <1>4

(* Is a count of kind k still to publish?                                  *)
Left(i, k) == \E j \in i..Len(PublishOrder) : PublishOrder[j] = k

(* The kinds are published one after the other, each once.                 *)
LEMMA LeftToPublish ==
    /\ Len(PublishOrder) = 4
    /\ \A i \in 1..4 : PublishOrder[i] \in Kinds
    /\ \A k \in Kinds : Left(1, k)
    /\ \A k \in Kinds : Left(4, k) => k = PublishOrder[4]
    /\ \A i \in 1..4 : Left(i, PublishOrder[i])
    /\ \A i \in 1..3 : ~Left(i + 1, PublishOrder[i])
    /\ \A i \in 1..3, k \in Kinds : k # PublishOrder[i] => (Left(i, k) <=> Left(i + 1, k))
<1>1. /\ Len(PublishOrder) = 4
      /\ PublishOrder[1] = "good"
      /\ PublishOrder[2] = "future"
      /\ PublishOrder[3] = "expired"
      /\ PublishOrder[4] = "total"
  BY DEF PublishOrder
<1>2. \A i, j \in 1..4 : PublishOrder[i] = PublishOrder[j] => i = j
  BY <1>1
<1>3. \A i \in 1..4 : PublishOrder[i] \in Kinds
  BY <1>1 DEF Kinds
<1>4. \A k \in Kinds : \E i \in 1..4 : PublishOrder[i] = k
  BY <1>1 DEF Kinds
<1>5. \A k \in Kinds : Left(1, k)
  BY <1>1, <1>4 DEF Left
<1>6. \A k \in Kinds : Left(4, k) => k = PublishOrder[4]
  BY <1>1 DEF Left
<1>7. \A i \in 1..4 : Left(i, PublishOrder[i])
  BY <1>1 DEF Left
<1>8. \A i \in 1..3 : ~Left(i + 1, PublishOrder[i])
  BY <1>1, <1>2 DEF Left
<1>9. \A i \in 1..3, k \in Kinds : k # PublishOrder[i] => (Left(i, k) <=> Left(i + 1, k))
  BY <1>1 DEF Left
<1>10. QED
  BY <1>1, <1>3, <1>5, <1>6, <1>7, <1>8, <1>9

-----------------------------------------------------------------------------
(* What has left the running counts. *)

(* InFlight and Shown in the terms of the lemmas, and that they are numbers.*)
LEMMA OutType ==
    ASSUME TypeInv, NEW k \in Kinds, NEW s \in Streams
    PROVE  /\ Shown(k, s) = Value(shown[k], s)
           /\ InFlight(k, s) = IF pc = "publish" /\ s = Min(todo) /\ Left(stage, k)
                               THEN snapshot[k] ELSE 0
           /\ Shown(k, s) \in Nat
           /\ InFlight(k, s) \in Nat
           /\ Out(k, s) \in Nat
<1>1. Shown(k, s) = Value(shown[k], s)
  BY DEF Shown, Value
<1>2. InFlight(k, s) = IF pc = "publish" /\ s = Min(todo) /\ Left(stage, k)
                      THEN snapshot[k] ELSE 0
  BY DEF InFlight, Left
<1>3. shown[k] \in Maps /\ snapshot[k] \in Nat
  BY DEF TypeInv, Counts
<1>4. Value(shown[k], s) \in Nat
  <2>1. 0 \in Nat
    OBVIOUS
  <2>2. QED
    BY <1>3, <2>1, ValueAdded
<1>5. QED
  BY <1>1, <1>2, <1>3, <1>4 DEF Out

(* Publishing a count moves it from the one to the other.                  *)
LEMMA PublishMoves ==
    ASSUME TypeInv, TypeInv', Publish, NEW k \in Kinds, NEW s \in Streams
    PROVE  Out(k, s)' = Out(k, s)
<1> DEFINE m == Min(todo)
           p == PublishOrder[stage]
<1>1. /\ pc = "publish"
      /\ shown' = [shown EXCEPT ![p] = AddOrAssign(@, m, snapshot[p])]
      /\ snapshot' = snapshot
      /\ stage < 4 => stage' = stage + 1 /\ pc' = pc /\ todo' = todo
      /\ ~(stage < 4) => pc' \in {"idle", "snapshot"}
  BY LeftToPublish DEF Publish
<1>2. stage \in 1..4 /\ p \in Kinds /\ m \in Streams
  <2>1. todo # {} /\ todo \in SUBSET Streams
    BY <1>1 DEF TypeInv
  <2>2. QED
    BY <2>1, LeftToPublish, NextStream DEF TypeInv
<1>3. shown[p] \in Maps /\ snapshot[p] \in Nat /\ snapshot[k] \in Nat
  BY <1>2 DEF TypeInv, Counts
<1>4. shown'[k] = IF k = p THEN AddOrAssign(shown[p], m, snapshot[p]) ELSE shown[k]
  BY <1>1, <1>2 DEF TypeInv
<1>5. Value(shown'[k], s) =
          Value(shown[k], s) + (IF k = p /\ s = m THEN snapshot[k] ELSE 0)
  <2>1. CASE k = p
    <3>1. Value(AddOrAssign(shown[p], m, snapshot[p]), s) =
              Value(shown[p], s) + (IF s = m THEN snapshot[p] ELSE 0)
      BY <1>2, <1>3, ValueAdded
    <3>2. QED
      BY <1>4, <2>1, <3>1
  <2>2. CASE k # p
    <3>1. Value(shown[k], s) \in Nat
      BY OutType
    <3>2. QED
      BY <1>4, <2>2, <3>1
  <2>3. QED
    BY <2>1, <2>2
<1>6. /\ Shown(k, s) = Value(shown[k], s)
      /\ Shown(k, s)' = Value(shown'[k], s)
      /\ Shown(k, s) \in Nat
  <2>1. Shown(k, s)' = Value(shown'[k], s)
    BY DEF Shown, Value
  <2>2. QED
    BY <2>1, OutType
<1>7. InFlight(k, s) = IF s = m /\ Left(stage, k) THEN snapshot[k] ELSE 0
  BY <1>1, OutType
<1>8. InFlight(k, s)' = IF stage < 4 /\ s = m /\ Left(stage + 1, k)
                       THEN snapshot[k] ELSE 0
  <2>1. InFlight(k, s)' = IF pc' = "publish" /\ s = Min(todo') /\ Left(stage', k)
                         THEN snapshot'[k] ELSE 0
    BY DEF InFlight, Left
  <2>2. QED
    BY <1>1, <1>2, <2>1
<1>9. Left(stage, k) <=> k = p \/ (stage < 4 /\ Left(stage + 1, k))
  BY <1>2, LeftToPublish
<1>10. k = p => ~(stage < 4 /\ Left(stage + 1, k))
  BY <1>2, LeftToPublish
<1>11. QED
  <2> HIDE DEF m, p
  <2>1. QED
    BY <1>3, <1>5, <1>6, <1>7, <1>8, <1>9, <1>10 DEF Out

(* Taking the counts of a stream puts all of them in flight.               *)
LEMMA SnapshotTakes ==
    ASSUME TypeInv, TypeInv', Snapshot, NEW k \in Kinds, NEW s \in Streams
    PROVE  /\ running'[s][k] = IF s = Min(todo) THEN 0 ELSE running[s][k]
           /\ Out(k, s)' = Out(k, s) + (IF s = Min(todo) THEN running[s][k] ELSE 0)
<1> DEFINE m == Min(todo)
<1>1. /\ pc = "snapshot"
      /\ pc' = "publish"
      /\ snapshot' = running[m]
      /\ running' = [running EXCEPT ![m] = Zero]
      /\ stage' = 1
      /\ UNCHANGED <<shown, todo>>
  BY DEF Snapshot, TakeCounts
<1>2. m \in Streams
  BY <1>1, NextStream DEF TypeInv
<1>3. running'[s][k] = IF s = m THEN 0 ELSE running[s][k]
  BY <1>1, <1>2 DEF TypeInv, Zero
<1>4. InFlight(k, s) = 0 /\ Shown(k, s) \in Nat
  BY <1>1, OutType
<1>5. Shown(k, s)' = Shown(k, s)
  BY <1>1 DEF Shown
<1>6. InFlight(k, s)' = IF s = m THEN running[m][k] ELSE 0
  <2>1. InFlight(k, s)' = IF pc' = "publish" /\ s = Min(todo') /\ Left(stage', k)
                         THEN snapshot'[k] ELSE 0
    BY DEF InFlight, Left
  <2>2. QED
    BY <1>1, <2>1, LeftToPublish
<1>7. running[s][k] \in Nat
  BY DEF TypeInv, Counts
<1>8. QED
  BY <1>3, <1>4, <1>5, <1>6, <1>7 DEF Out

(* Any other step leaves what has left the running counts alone.           *)
LEMMA OutUnchanged ==
    ASSUME TypeInv, NEW k \in Kinds, NEW s \in Streams,
           UNCHANGED <<shown, snapshot, todo, stage>>,
           pc # "publish", pc' # "publish"
    PROVE  Out(k, s)' = Out(k, s)
BY DEF Out, InFlight, Shown

-----------------------------------------------------------------------------
(* The steps. *)

(* Nothing has been counted to start with.                                 *)
LEMMA MetricsInitially == Init => MetricsInv
<1> SUFFICES ASSUME Init PROVE MetricsInv
  OBVIOUS
<1>1. Zero \in Counts /\ \A k \in Kinds : Zero[k] = 0
  BY DEF Zero, Counts
<1>2. [t \in {} |-> 0] \in Maps
  <2>1. [t \in {} |-> 0] \in [{} -> Nat]
    OBVIOUS
  <2>2. QED
    BY <2>1 DEF Maps
<1>3. TypeInv
  BY <1>1, <1>2 DEF TypeInv, Init
<1>4. \A k \in Kinds, s \in Streams :
          Out(k, s) = 0 /\ running[s][k] = 0 /\ counted[s][k] = 0
  BY <1>1 DEF Init, Out, InFlight, Shown
<1>5. ConservedInv
  BY <1>4 DEF ConservedInv
<1>6. PartsInv
  BY <1>4 DEF PartsInv, PartsBounded, Kinds
<1>7. NewestInv /\ GoodInv
  <2>1. \A s \in Streams : Len(arrived[s]) = 0
    BY DEF Init
  <2>2. QED
    BY <2>1 DEF NewestInv, GoodInv
<1>8. QED
  BY <1>3, <1>5, <1>6, <1>7 DEF MetricsInv

(* A packet is the last one of its stream.                                 *)
LEMMA Arrives ==
    ASSUME TypeInv, NEW s \in Streams, NEW e \in Nat, Update(s, e)
    PROVE  \E a \in Arrivals :
               /\ a.end = e /\ (a.future <=> e > now) /\ (a.good => "good" \in Class(s, e))
               /\ arrived' = [arrived EXCEPT ![s] = Append(@, a)]
               /\ arrived' \in [Streams -> Seq(Arrivals)]
<1> DEFINE good == "good" \in Class(s, e)
<1>1. PICK success \in (IF good THEN BOOLEAN ELSE {TRUE}) :
          arrived' = [arrived EXCEPT ![s] =
              Append(@, [end |-> e, future |-> e > now, good |-> good /\ success])]
  BY DEF Update
<1> DEFINE a == [end |-> e, future |-> e > now, good |-> good /\ success]
<1>2. a \in Arrivals
  <2>1. (e > now) \in BOOLEAN /\ (good /\ success) \in BOOLEAN
    OBVIOUS
  <2>2. QED
    BY <2>1 DEF Arrivals
<1>3. a.end = e /\ (a.future <=> e > now) /\ (a.good => good)
  OBVIOUS
<1>4. arrived' = [arrived EXCEPT ![s] = Append(@, a)]
  BY <1>1
<1> HIDE DEF a, good
<1>5. arrived[s] \in Seq(Arrivals)
  BY DEF TypeInv
<1>6. Append(arrived[s], a) \in Seq(Arrivals)
  BY <1>2, <1>5
<1>7. arrived' \in [Streams -> Seq(Arrivals)]
  BY <1>4, <1>6 DEF TypeInv
<1>8. QED
  BY <1>2, <1>3, <1>4, <1>7 DEF good

(* The types of the steps.                                                 *)
LEMMA TypeStep == TypeInv /\ [Next]_vars => TypeInv'
<1> SUFFICES ASSUME TypeInv, [Next]_vars PROVE TypeInv'
  OBVIOUS
<1>1. ASSUME NEW s \in Streams, NEW e \in Times, Update(s, e)
      PROVE  TypeInv'
  <2>1. Times \subseteq Nat
    BY DEF Times
  <2>2. PICK success \in BOOLEAN :
            LET add(c) == [k \in Kinds |->
                    c[k] + (IF success /\ k \in Class(s, e) THEN 1 ELSE 0)]
            IN /\ running' = [running EXCEPT ![s] = add(@)]
               /\ counted' = [counted EXCEPT ![s] = add(@)]
    BY <1>1 DEF Update
  <2> DEFINE Add(c) == [k \in Kinds |->
                 c[k] + (IF success /\ k \in Class(s, e) THEN 1 ELSE 0)]
  <2>3. \A c \in Counts : Add(c) \in Counts
    BY DEF Counts
  <2>4. /\ running' = [running EXCEPT ![s] = Add(running[s])]
        /\ counted' = [counted EXCEPT ![s] = Add(counted[s])]
    BY <2>2
  <2> HIDE DEF Add
  <2>5. running' \in [Streams -> Counts] /\ counted' \in [Streams -> Counts]
    BY <2>3, <2>4 DEF TypeInv
  <2>6. newest' \in [Streams -> Nat]
    BY <1>1, <2>1 DEF Update, TypeInv
  <2>7. known' \in SUBSET Streams
    BY <1>1 DEF Update, TypeInv
  <2>8. arrived' \in [Streams -> Seq(Arrivals)]
    BY <1>1, <2>1, Arrives DEF TypeInv
  <2>9. QED
    BY <1>1, <2>5, <2>6, <2>7, <2>8 DEF Update, TypeInv
<1>2. CASE BeginTabulate
  BY <1>2 DEF BeginTabulate, TypeInv
<1>3. CASE Snapshot
  <2>1. Min(todo) \in Streams
    BY <1>3, NextStream DEF Snapshot, TakeCounts, TypeInv
  <2>2. Zero \in Counts
    BY DEF Zero, Counts
  <2>3. QED
    BY <1>3, <2>1, <2>2 DEF Snapshot, TakeCounts, TypeInv
<1>4. CASE Publish
  <2>1. Min(todo) \in Streams /\ PublishOrder[stage] \in Kinds
    BY <1>4, NextStream, LeftToPublish DEF Publish, TypeInv
  <2>2. snapshot[PublishOrder[stage]] \in Nat
    BY <2>1 DEF TypeInv, Counts
  <2>3. shown' \in [Kinds -> Maps]
    BY <1>4, <2>1, <2>2, ValueAdded DEF Publish, TypeInv
  <2>4. stage' \in 1..4 /\ pc' \in {"idle", "snapshot", "publish"}
    BY <1>4, LeftToPublish DEF Publish, TypeInv
  <2>5. todo' \in SUBSET Streams /\ (pc' # "idle" => todo' # {})
    BY <1>4 DEF Publish, TypeInv
  <2>6. QED
    BY <1>4, <2>3, <2>4, <2>5 DEF Publish, TypeInv
<1>5. CASE UNCHANGED propagatorVars /\ now' \in {now, now + 1}
  BY <1>5 DEF propagatorVars, TypeInv
<1>6. QED
  BY <1>1, <1>2, <1>3, <1>4, <1>5 DEF Next, vars, Propagator, Main, Tick,
     LeaveLoop, Exporter, ReadKeys, ReadValue, Read, Report, ObserveKeys, ObserveValue

(* What a packet is counted as, in each of the ways there are.             *)
LEMMA ClassKinds ==
    ASSUME NEW s, NEW e, (e > now) <=> ~(e <= now)
    PROVE  /\ "total" \in Class(s, e)
           /\ ~("good" \in Class(s, e) /\ "future" \in Class(s, e))
           /\ ~("good" \in Class(s, e) /\ "expired" \in Class(s, e))
           /\ ~("future" \in Class(s, e) /\ "expired" \in Class(s, e))
           /\ "good" \in Class(s, e) => e > newest[s] /\ ~(e > now)
           /\ "good" \notin Class(s, e) /\ ~(e > now) => ~(e > newest[s])
BY DEF Class

(* The newest sample of its stream is not before a packet that arrives,    *)
(* unless that is in the future; and a good packet is after all of them.   *)
LEMMA NewArrival ==
    ASSUME MetricsInv, NEW s \in Streams, NEW e \in Times, Update(s, e)
    PROVE  NewestInv' /\ GoodInv'
<1>1. TypeInv /\ NewestInv /\ GoodInv /\ e \in Nat
  BY DEF MetricsInv, Times
<1>2. PICK a \in Arrivals :
          /\ a.end = e /\ (a.future <=> e > now) /\ (a.good => "good" \in Class(s, e))
          /\ arrived' = [arrived EXCEPT ![s] = Append(@, a)]
  BY <1>1, Arrives
<1>3. newest' = [newest EXCEPT ![s] = IF "good" \in Class(s, e) THEN e ELSE @]
  BY DEF Update
<1> DEFINE n == Len(arrived[s])
<1>4. n \in Nat /\ arrived[s] \in Seq(Arrivals) /\ newest[s] \in Nat
  BY <1>1 DEF TypeInv
<1>5. /\ Len(arrived'[s]) = n + 1
      /\ arrived'[s][n + 1] = a
      /\ \A i \in 1..n : arrived'[s][i] = arrived[s][i]
  <2>1. arrived'[s] = Append(arrived[s], a)
    BY <1>1, <1>2 DEF TypeInv
  <2>2. QED
    BY <1>4, <2>1
<1>6. \A t \in Streams : t # s => arrived'[t] = arrived[t] /\ newest'[t] = newest[t]
  BY <1>1, <1>2, <1>3 DEF TypeInv
<1>7. newest'[s] = IF "good" \in Class(s, e) THEN e ELSE newest[s]
  BY <1>1, <1>3 DEF TypeInv
<1>8. now \in Nat
  BY <1>1 DEF TypeInv
<1>9. /\ "good" \in Class(s, e) => newest[s] < e /\ ~(e > now)
      /\ "good" \notin Class(s, e) /\ ~(e > now) => e <= newest[s]
  BY <1>1, <1>4, <1>8, ClassKinds
<1>10. newest[s] <= newest'[s] /\ (~a.future => e <= newest'[s]) /\ newest'[s] \in Nat
  BY <1>1, <1>2, <1>4, <1>7, <1>9
<1>11. \A i \in 1..n : ~arrived[s][i].future =>
          arrived[s][i].end <= newest[s] /\ arrived[s][i].end \in Nat
  <2>1. \A i \in 1..n : arrived[s][i] \in Arrivals
    BY <1>4
  <2>2. QED
    BY <1>1, <2>1 DEF NewestInv, Arrivals
<1>12. NewestInv'
  <2> SUFFICES ASSUME NEW t \in Streams, NEW i \in 1..Len(arrived'[t]),
                      ~arrived'[t][i].future
               PROVE  arrived'[t][i].end <= newest'[t]
    BY DEF NewestInv
  <2>1. CASE t # s
    BY <1>1, <1>6, <2>1 DEF NewestInv
  <2>2. CASE t = s /\ i = n + 1
    BY <1>2, <1>5, <1>10, <2>2
  <2>3. CASE t = s /\ i # n + 1
    <3>1. i \in 1..n
      BY <1>4, <1>5, <2>3
    <3>2. QED
      BY <1>4, <1>5, <1>10, <1>11, <2>3, <3>1
  <2>4. QED
    BY <2>1, <2>2, <2>3
<1>13. GoodInv'
  <2> SUFFICES ASSUME NEW t \in Streams, NEW j \in 1..Len(arrived'[t]),
                      arrived'[t][j].good
               PROVE  /\ ~arrived'[t][j].future
                      /\ \A i \in 1..(j - 1) :
                             \/ arrived'[t][i].future
                             \/ arrived'[t][i].end < arrived'[t][j].end
    BY DEF GoodInv
  <2>1. CASE t # s
    BY <1>1, <1>6, <2>1 DEF GoodInv
  <2>2. CASE t = s /\ j = n + 1
    <3>1. "good" \in Class(s, e)
      BY <1>2, <1>5, <2>2
    <3>2. ~a.future /\ newest[s] < e
      BY <1>2, <1>9, <3>1
    <3>3. ASSUME NEW i \in 1..n, ~arrived'[s][i].future
          PROVE  arrived'[s][i].end < e
      <4>1. arrived'[s][i] = arrived[s][i]
        BY <1>5
      <4>2. arrived[s][i].end <= newest[s] /\ arrived[s][i].end \in Nat
        BY <1>11, <3>3, <4>1
      <4>3. QED
        BY <1>1, <1>4, <3>2, <4>1, <4>2
    <3>4. j - 1 = n
      BY <1>4, <2>2
    <3>5. QED
      BY <1>2, <1>5, <2>2, <3>2, <3>3, <3>4
  <2>3. CASE t = s /\ j # n + 1
    <3>1. j \in 1..n /\ 1..(j - 1) \subseteq 1..n
      BY <1>4, <1>5, <2>3
    <3>2. QED
      BY <1>1, <1>5, <2>3, <3>1 DEF GoodInv
  <2>4. QED
    BY <2>1, <2>2, <2>3
<1>14. QED
  BY <1>12, <1>13

(* A packet is counted and classified at once, and is not published.       *)
LEMMA UpdateKeeps ==
    ASSUME MetricsInv, TypeInv', NEW s \in Streams, NEW e \in Times, Update(s, e)
    PROVE  MetricsInv'
<1>1. PICK success \in (IF "good" \in Class(s, e) THEN BOOLEAN ELSE {TRUE}) :
          LET add(c) == [k \in Kinds |->
                  c[k] + (IF success /\ k \in Class(s, e) THEN 1 ELSE 0)]
          IN /\ running' = [running EXCEPT ![s] = add(@)]
             /\ counted' = [counted EXCEPT ![s] = add(@)]
             /\ newest' = [newest EXCEPT ![s] = IF "good" \in Class(s, e) THEN e ELSE @]
  BY DEF Update
<1> DEFINE n(k) == IF success /\ k \in Class(s, e) THEN 1 ELSE 0
<1>2. ASSUME NEW t \in Streams, NEW k \in Kinds
      PROVE  /\ running'[t][k] = running[t][k] + (IF t = s THEN n(k) ELSE 0)
             /\ counted'[t][k] = counted[t][k] + (IF t = s THEN n(k) ELSE 0)
             /\ running[t][k] \in Nat
             /\ counted[t][k] \in Nat
             /\ Out(k, t) \in Nat
             /\ Out(k, t)' = Out(k, t)
  <2>1. running[t][k] \in Nat /\ counted[t][k] \in Nat
    BY DEF MetricsInv, TypeInv, Counts
  <2>2. running'[t][k] = running[t][k] + (IF t = s THEN n(k) ELSE 0)
    BY <1>1, <2>1 DEF MetricsInv, TypeInv
  <2>3. counted'[t][k] = counted[t][k] + (IF t = s THEN n(k) ELSE 0)
    BY <1>1, <2>1 DEF MetricsInv, TypeInv
  <2>4. Out(k, t)' = Out(k, t)
    BY OutUnchanged DEF Update, MetricsInv
  <2>5. Out(k, t) \in Nat
    BY OutType DEF MetricsInv
  <2>6. QED
    BY <2>1, <2>2, <2>3, <2>4, <2>5
<1>3. \A k : n(k) \in {0, 1}
  OBVIOUS
<1>4. n("good") + n("future") + n("expired") <= n("total")
  <2>1. e \in Nat /\ now \in Nat
    BY DEF MetricsInv, TypeInv, Times
  <2>2. (e > now) <=> ~(e <= now)
    BY <2>1
  <2>3. QED
    BY <2>2, ClassKinds
<1>5. ConservedInv'
  <2> SUFFICES ASSUME NEW t \in Streams, NEW k \in Kinds
               PROVE  counted'[t][k] = running'[t][k] + Out(k, t)'
    BY DEF ConservedInv
  <2>1. counted[t][k] = running[t][k] + Out(k, t)
    BY DEF MetricsInv, ConservedInv
  <2> HIDE DEF n
  <2>2. QED
    BY <1>2, <1>3, <2>1
<1>6. PartsInv'
  <2> SUFFICES ASSUME NEW t \in Streams
               PROVE  /\ PartsBounded(running'[t]["good"], running'[t]["future"],
                                      running'[t]["expired"], running'[t]["total"])
                      /\ PartsBounded(Out("good", t)', Out("future", t)',
                                      Out("expired", t)', Out("total", t)')
    BY DEF PartsInv, PartsBounded
  <2>1. {"good", "future", "expired", "total"} \subseteq Kinds
    BY DEF Kinds
  <2>2. /\ PartsBounded(running[t]["good"], running[t]["future"],
                        running[t]["expired"], running[t]["total"])
        /\ PartsBounded(Out("good", t), Out("future", t), Out("expired", t),
                        Out("total", t))
    BY DEF MetricsInv, PartsInv
  <2> HIDE DEF n
  <2>3. PartsBounded(running'[t]["good"], running'[t]["future"],
                     running'[t]["expired"], running'[t]["total"])
    BY <1>2, <1>3, <1>4, <2>1, <2>2 DEF PartsBounded
  <2>4. PartsBounded(Out("good", t)', Out("future", t)', Out("expired", t)',
                     Out("total", t)')
    BY <1>2, <2>1, <2>2 DEF PartsBounded
  <2>5. QED
    BY <2>3, <2>4
<1>7. NewestInv' /\ GoodInv'
  BY NewArrival
<1>8. QED
  BY <1>5, <1>6, <1>7 DEF MetricsInv

(* The publication: what leaves the running counts arrives in Out, kind by *)
(* kind, so the parts stay within the total in both.                       *)
LEMMA PublicationKeeps ==
    ASSUME MetricsInv, TypeInv', BeginTabulate \/ Snapshot \/ Publish
    PROVE  MetricsInv'
<1>1. /\ UNCHANGED <<counted, arrived, newest>>
      /\ NewestInv' /\ GoodInv'
  BY DEF BeginTabulate, Snapshot, TakeCounts, Publish, MetricsInv, NewestInv, GoodInv
<1> DEFINE m == Min(todo)
           moved(t, k) == IF Snapshot /\ t = m THEN running[t][k] ELSE 0
<1>2. ASSUME NEW t \in Streams, NEW k \in Kinds
      PROVE  /\ running'[t][k] = running[t][k] - moved(t, k)
             /\ Out(k, t)' = Out(k, t) + moved(t, k)
             /\ running[t][k] \in Nat
             /\ Out(k, t) \in Nat
  <2>1. running[t][k] \in Nat /\ Out(k, t) \in Nat
    BY OutType DEF MetricsInv, TypeInv, Counts
  <2>2. CASE Snapshot
    BY <2>1, <2>2, SnapshotTakes DEF MetricsInv
  <2>3. CASE ~Snapshot /\ Publish
    <3>1. running'[t][k] = running[t][k]
      BY <2>3 DEF Publish
    <3>2. QED
      BY <2>1, <2>3, <3>1, PublishMoves DEF MetricsInv
  <2>4. CASE ~Snapshot /\ BeginTabulate
    <3>1. /\ running'[t][k] = running[t][k]
          /\ pc = "idle"
          /\ pc' = "snapshot"
          /\ UNCHANGED <<shown, snapshot, stage>>
      BY <2>4 DEF BeginTabulate
    <3>2. Out(k, t)' = Out(k, t)
      BY <3>1 DEF Out, InFlight, Shown
    <3>3. QED
      BY <2>1, <2>4, <3>1, <3>2
  <2>5. QED
    BY <2>2, <2>3, <2>4
<1>3. ConservedInv'
  <2> SUFFICES ASSUME NEW t \in Streams, NEW k \in Kinds
               PROVE  counted'[t][k] = running'[t][k] + Out(k, t)'
    BY DEF ConservedInv
  <2>1. counted[t][k] = running[t][k] + Out(k, t)
    BY DEF MetricsInv, ConservedInv
  <2>2. moved(t, k) \in Int
    BY <1>2
  <2> HIDE DEF moved
  <2>3. QED
    BY <1>1, <1>2, <2>1, <2>2
<1>4. PartsInv'
  <2> SUFFICES ASSUME NEW t \in Streams
               PROVE  /\ PartsBounded(running'[t]["good"], running'[t]["future"],
                                      running'[t]["expired"], running'[t]["total"])
                      /\ PartsBounded(Out("good", t)', Out("future", t)',
                                      Out("expired", t)', Out("total", t)')
    BY DEF PartsInv, PartsBounded
  <2>1. {"good", "future", "expired", "total"} \subseteq Kinds
    BY DEF Kinds
  <2>2. /\ PartsBounded(running[t]["good"], running[t]["future"],
                        running[t]["expired"], running[t]["total"])
        /\ PartsBounded(Out("good", t), Out("future", t), Out("expired", t),
                        Out("total", t))
    BY DEF MetricsInv, PartsInv
  <2>3. CASE Snapshot /\ t = m
    BY <1>2, <2>1, <2>2, <2>3 DEF PartsBounded
  <2>4. CASE ~(Snapshot /\ t = m)
    BY <1>2, <2>1, <2>2, <2>4 DEF PartsBounded
  <2>5. QED
    BY <2>3, <2>4
<1>5. QED
  BY <1>1, <1>3, <1>4 DEF MetricsInv

(* MetricsInv is preserved by every step; the other threads only read.     *)
LEMMA MetricsStep == MetricsInv /\ [Next]_vars => MetricsInv'
<1> SUFFICES ASSUME MetricsInv, [Next]_vars PROVE MetricsInv'
  OBVIOUS
<1>1. TypeInv'
  BY TypeStep DEF MetricsInv
<1>2. ASSUME NEW s \in Streams, NEW e \in Times, Update(s, e)
      PROVE  MetricsInv'
  BY <1>1, <1>2, UpdateKeeps
<1>3. CASE BeginTabulate \/ Snapshot \/ Publish
  BY <1>1, <1>3, PublicationKeeps
<1>4. CASE UNCHANGED propagatorVars
  <2>1. \A s \in Streams, k \in Kinds : Out(k, s)' = Out(k, s)
    BY <1>4 DEF propagatorVars, Out, InFlight, Shown
  <2>2. ConservedInv'
    BY <1>4, <2>1 DEF propagatorVars, MetricsInv, ConservedInv
  <2>3. PartsInv'
    BY <1>4 DEF propagatorVars, MetricsInv, PartsInv, Out, InFlight, Shown
  <2>4. NewestInv' /\ GoodInv'
    BY <1>4 DEF propagatorVars, MetricsInv, NewestInv, GoodInv
  <2>5. QED
    BY <1>1, <2>2, <2>3, <2>4 DEF MetricsInv
<1>5. QED
  BY <1>2, <1>3, <1>4 DEF Next, vars, Propagator, Main, Tick,
     LeaveLoop, Exporter, ReadKeys, ReadValue, Read, Report, ObserveKeys, ObserveValue

(* The invariant, from which the properties follow.                        *)
LEMMA MetricsInvariant == Spec => []MetricsInv
BY MetricsInitially, MetricsStep, PTL DEF Spec

(* No packet is counted twice or forgotten while its count moves from the  *)
(* running counters to the published maps, for any number of streams.      *)
THEOREM AlwaysConserved == Spec => []CountsConserved
<1>1. MetricsInv => CountsConserved
  <2> SUFFICES ASSUME MetricsInv, NEW s \in Streams, NEW k \in Kinds
               PROVE  counted[s][k] = running[s][k] + InFlight(k, s) + Shown(k, s)
    BY DEF CountsConserved
  <2>1. running[s][k] \in Nat /\ InFlight(k, s) \in Nat /\ Shown(k, s) \in Nat
    BY OutType DEF MetricsInv, TypeInv, Counts
  <2>2. counted[s][k] = running[s][k] + Out(k, s)
    BY DEF MetricsInv, ConservedInv
  <2>3. QED
    BY <2>1, <2>2 DEF Out
<1>2. QED
  BY <1>1, MetricsInvariant, PTL

(* Between two publications the published parts do not exceed the          *)
(* published total of any stream.                                          *)
THEOREM AlwaysWithinTotal == Spec => []PartsWithinTotal
<1>1. MetricsInv => PartsWithinTotal
  <2> SUFFICES ASSUME MetricsInv, pc = "idle", NEW s \in Streams
               PROVE  Shown("good", s) + Shown("future", s) + Shown("expired", s)
                          <= Shown("total", s)
    BY DEF PartsWithinTotal
  <2>1. {"good", "future", "expired", "total"} \subseteq Kinds
    BY DEF Kinds
  <2>2. \A k \in Kinds : Out(k, s) = Shown(k, s)
    <3>1. \A k \in Kinds : Shown(k, s) \in Nat
      BY OutType DEF MetricsInv
    <3>2. QED
      BY <3>1 DEF Out, InFlight
  <2>3. QED
    BY <2>1, <2>2 DEF MetricsInv, PartsInv, PartsBounded
<1>2. QED
  BY <1>1, MetricsInvariant, PTL

(* A good packet of a stream ends later than every packet of the stream    *)
(* that came before it and was not in the future: neither one that is late *)
(* nor one that is sent again is good.                                     *)
THEOREM GoodAlwaysNew == Spec => []GoodPacketsAreNew
<1>1. MetricsInv => GoodPacketsAreNew
  <2> SUFFICES ASSUME MetricsInv PROVE GoodPacketsAreNew
    OBVIOUS
  <2>1. \A s \in Streams : DOMAIN arrived[s] = 1..Len(arrived[s])
    BY DEF MetricsInv, TypeInv
  <2>2. QED
    BY <2>1 DEF MetricsInv, GoodInv, GoodPacketsAreNew
<1>2. QED
  BY <1>1, MetricsInvariant, PTL

-----------------------------------------------------------------------------
(* Those who read while the counts are published. *)

(* The sum of a count of every stream, in the order of the streams, with   *)
(* no stream counted for more than is published.                           *)
IsSum(f) ==
    /\ f \in [0..NumStreams -> Nat]
    /\ f[0] = 0
    /\ \A n \in Streams : f[n - 1] <= f[n] /\ f[n] <= f[n - 1] + Shown("total", n)

(* Up to the first stream that is still to be read, the sum being formed   *)
(* is not behind the last one; a stream after it that is not to be read    *)
(* had no count when the last one was formed.                              *)
Catches(old, new) ==
    /\ new[NumStreams] = summary.sum
    /\ summary.keys \subseteq DOMAIN shown["total"]
    /\ \A n \in Streams : (\E k \in summary.keys : k <= n) =>
           /\ new[n] = new[n - 1]
           /\ n \notin summary.keys => old[n] = old[n - 1]
    /\ \A n \in 0..NumStreams : (\A k \in summary.keys : n < k) => old[n] <= new[n]

(* The last report and the sum being formed.                               *)
ReportInv ==
    /\ summary \in [keys : SUBSET Streams, sum : Nat, reading : BOOLEAN]
    /\ lastReport \in Nat
    /\ summary.reading =>
           \E old, new : /\ IsSum(old) /\ IsSum(new)
                         /\ old[NumStreams] = lastReport
                         /\ Catches(old, new)
    /\ ~summary.reading => \E old : IsSum(old) /\ old[NumStreams] = lastReport

(* What was observed of a stream is not more than is published.            *)
ExportInv ==
    /\ exported \in [Streams -> Nat]
    /\ unobserved \subseteq DOMAIN shown[Watched]
    /\ \A s \in Streams : exported[s] <= Shown(Watched, s)

ReadersInv == MetricsInv /\ ReportInv /\ ExportInv

(* What is published never becomes less, and no key goes away.             *)
LEMMA ShownGrows ==
    ASSUME MetricsInv, [Next]_vars, NEW k \in Kinds
    PROVE  /\ DOMAIN shown[k] \subseteq Streams
           /\ DOMAIN shown[k] \subseteq DOMAIN shown'[k]
           /\ \A s \in Streams : /\ Shown(k, s) \in Nat
                                 /\ Shown(k, s)' \in Nat
                                 /\ Shown(k, s) <= Shown(k, s)'
<1>1. TypeInv /\ shown[k] \in Maps
  BY DEF MetricsInv, TypeInv
<1>2. \A s \in Streams : Shown(k, s) = Value(shown[k], s) /\ Shown(k, s)' = Value(shown'[k], s)
  BY DEF Shown, Value
<1>3. /\ DOMAIN shown[k] \subseteq Streams
      /\ \A s \in Streams : Shown(k, s) \in Nat
  <2>1. PICK D \in SUBSET Streams : shown[k] \in [D -> Nat]
    BY <1>1 DEF Maps
  <2>2. DOMAIN shown[k] = D
    BY <2>1
  <2>3. QED
    BY <2>1, <2>2 DEF Shown
<1>4. CASE Publish
  <2> DEFINE m == Min(todo)
             p == PublishOrder[stage]
             n == snapshot[p]
  <2>1. m \in Streams /\ p \in Kinds
    BY <1>1, <1>4, NextStream, LeftToPublish DEF Publish, TypeInv
  <2>2. n \in Nat
    BY <1>1, <2>1 DEF TypeInv, Counts
  <2>3. shown' = [shown EXCEPT ![p] = AddOrAssign(shown[p], m, n)]
    BY <1>4 DEF Publish
  <2> HIDE DEF m, p, n
  <2>4. CASE k = p
    <3>1. shown'[k] = AddOrAssign(shown[k], m, n)
      BY <1>1, <2>3, <2>4 DEF TypeInv
    <3>2. DOMAIN AddOrAssign(shown[k], m, n) = DOMAIN shown[k] \cup {m}
      BY DEF AddOrAssign
    <3>3. \A s \in Streams :
              /\ Value(shown[k], s) \in Nat
              /\ Value(shown'[k], s) = Value(shown[k], s) + (IF s = m THEN n ELSE 0)
      BY <1>1, <2>1, <2>2, <3>1, ValueAdded
    <3>4. \A s \in Streams : /\ Value(shown'[k], s) \in Nat
                             /\ Value(shown[k], s) <= Value(shown'[k], s)
      BY <2>2, <3>3
    <3>5. QED
      BY <1>2, <1>3, <3>1, <3>2, <3>4
  <2>5. CASE k # p
    <3>1. shown'[k] = shown[k]
      BY <1>1, <2>3, <2>5 DEF TypeInv
    <3>2. QED
      BY <1>2, <1>3, <3>1
  <2>6. QED
    BY <2>4, <2>5
<1>5. CASE UNCHANGED shown
  BY <1>2, <1>3, <1>5
<1>6. QED
  BY <1>4, <1>5 DEF Next, vars, propagatorVars, Propagator, Main, Tick, Exporter,
     Update, BeginTabulate, Snapshot, TakeCounts, ReadKeys, ReadValue, Read, Report, LeaveLoop,
     ObserveKeys, ObserveValue

(* A sum stays one while more is published.                                *)
LEMMA SumStays ==
    ASSUME MetricsInv, [Next]_vars, NEW f, IsSum(f)
    PROVE  IsSum(f)'
<1>1. ASSUME NEW n \in Streams
      PROVE  f[n] <= f[n - 1] + Shown("total", n)'
  <2>1. n \in 0..NumStreams /\ n - 1 \in 0..NumStreams
    BY <1>1, MetricsAssumption DEF Streams
  <2>2. f[n] \in Nat /\ f[n - 1] \in Nat /\ f[n] <= f[n - 1] + Shown("total", n)
    BY <1>1, <2>1 DEF IsSum
  <2>3. /\ Shown("total", n) \in Nat
        /\ Shown("total", n)' \in Nat
        /\ Shown("total", n) <= Shown("total", n)'
    BY <1>1, ShownGrows DEF Kinds
  <2>4. QED
    BY <2>2, <2>3
<1>2. QED
  BY <1>1 DEF IsSum

(* Where one function stands still and the other does not fall, the first  *)
(* stays behind.                                                           *)
LEMMA StaysBehind ==
    ASSUME NEW old \in [0..NumStreams -> Nat], NEW new \in [0..NumStreams -> Nat],
           NEW a \in 0..NumStreams, NEW b \in 0..NumStreams, old[a] <= new[a], a <= b,
           \A n \in Streams : a < n /\ n <= b => old[n] = old[n - 1] /\ new[n - 1] <= new[n]
    PROVE  old[b] <= new[b]
<1> DEFINE T == {n \in a..b : ~(old[n] <= new[n])}
<1>1. T \subseteq Nat
  BY MetricsAssumption
<1>2. CASE T # {}
  <2>1. PICK n \in T : \A y \in T : n <= y
    <3> HIDE DEF T
    <3>1. QED
      BY <1>1, <1>2, LeastNumber
  <2>2. n \in Int /\ a <= n /\ n <= b /\ n # a /\ n \in Streams /\ n - 1 \in 0..NumStreams
        /\ n \in 0..NumStreams
    BY <2>1, MetricsAssumption DEF Streams
  <2>3. n - 1 \notin T /\ n - 1 \in a..b
    BY <2>1, <2>2
  <2>4. old[n - 1] <= new[n - 1]
    BY <2>3
  <2>5. old[n] = old[n - 1] /\ new[n - 1] <= new[n]
    BY <2>2
  <2>6. old[n] \in Nat /\ old[n - 1] \in Nat /\ new[n] \in Nat /\ new[n - 1] \in Nat
    BY <2>2
  <2>7. old[n] <= new[n]
    BY <2>4, <2>5, <2>6
  <2>8. QED
    BY <2>1, <2>7
<1>3. CASE T = {}
  <2>1. b \in a..b
    BY MetricsAssumption
  <2>2. QED
    BY <1>3, <2>1
<1>4. QED
  BY <1>2, <1>3

(* The keys of a map are streams.                                          *)
LEMMA KeysAreStreams ==
    ASSUME MetricsInv, NEW k \in Kinds
    PROVE  DOMAIN shown[k] \in SUBSET Streams
<1>1. shown[k] \in Maps
  BY DEF MetricsInv, TypeInv
<1>2. PICK D \in SUBSET Streams : shown[k] \in [D -> Nat]
  BY <1>1 DEF Maps
<1>3. QED
  BY <1>2

(* The reading starts with a sum of nothing.                               *)
LEMMA ReadingStarts ==
    ASSUME ReadersInv, ReadKeys
    PROVE  ReportInv'
<1>1. /\ ~summary.reading
      /\ summary' = [keys |-> DOMAIN shown["total"], sum |-> 0, reading |-> TRUE]
      /\ UNCHANGED <<shown, lastReport>>
  BY DEF ReadKeys, propagatorVars
<1> DEFINE keys == DOMAIN shown["total"]
           new == [n \in 0..NumStreams |-> 0]
<1>2. /\ summary' \in [keys : SUBSET Streams, sum : Nat, reading : BOOLEAN]
      /\ summary'.keys = keys /\ summary'.sum = 0 /\ summary'.reading
  <2>1. keys \in SUBSET Streams
    BY KeysAreStreams DEF ReadersInv, Kinds
  <2> HIDE DEF keys
  <2>2. QED
    BY <1>1, <2>1 DEF keys
<1>3. PICK old : IsSum(old) /\ old[NumStreams] = lastReport
  BY <1>1 DEF ReadersInv, ReportInv
<1>4. NumStreams \in 0..NumStreams /\ 0 \in 0..NumStreams
  BY MetricsAssumption
<1>5. \A n \in Streams : n \in 0..NumStreams /\ n - 1 \in 0..NumStreams
  BY MetricsAssumption DEF Streams
<1>6. /\ new \in [0..NumStreams -> Nat]
      /\ \A n \in 0..NumStreams : new[n] = 0
  OBVIOUS
<1> HIDE DEF new
<1>7. \A n \in Streams : Shown("total", n) \in Nat /\ (n \notin keys => Shown("total", n) = 0)
  <2>1. \A n \in Streams : Shown("total", n) \in Nat
    BY OutType DEF ReadersInv, MetricsInv, Kinds
  <2>2. QED
    BY <2>1 DEF Shown
<1>8. IsSum(new)
  BY <1>4, <1>5, <1>6, <1>7 DEF IsSum
<1>9. ASSUME NEW n \in Streams, n \notin keys
      PROVE  old[n] = old[n - 1]
  BY <1>3, <1>5, <1>7, <1>9 DEF IsSum
<1>10. ASSUME NEW n \in 0..NumStreams, \A k \in keys : n < k
       PROVE  old[n] <= new[n]
  <2>1. old \in [0..NumStreams -> Nat] /\ old[0] = 0
    BY <1>3 DEF IsSum
  <2>2. old[0] <= new[0]
    BY <1>4, <1>6, <2>1
  <2>3. ASSUME NEW j \in Streams, j <= n
        PROVE  j \notin keys
    BY <1>10, <2>3 DEF Streams
  <2>4. \A j \in Streams : 0 < j /\ j <= n => old[j] = old[j - 1] /\ new[j - 1] <= new[j]
    BY <1>5, <1>6, <1>9, <2>3
  <2>5. 0 <= n
    OBVIOUS
  <2>6. QED
    BY <1>4, <1>6, <2>1, <2>2, <2>4, <2>5, StaysBehind
<1>11. Catches(old, new)'
  <2>1. new[NumStreams] = 0
    BY <1>4, <1>6
  <2>2. \A n \in Streams : new[n] = new[n - 1]
    BY <1>5, <1>6
  <2>3. shown'["total"] = shown["total"]
    BY <1>1
  <2> HIDE DEF keys
  <2>4. QED
    BY <1>2, <1>9, <1>10, <2>1, <2>2, <2>3 DEF Catches, keys
<1>12. IsSum(old)' /\ IsSum(new)'
  BY <1>1, <1>3, <1>8 DEF IsSum, Shown
<1>13. QED
  <2>1. lastReport' \in Nat /\ old[NumStreams] = lastReport'
    BY <1>1, <1>3 DEF ReadersInv, ReportInv
  <2>2. QED
    BY <1>2, <1>11, <1>12, <2>1 DEF ReportInv

(* A value is read: it is not less than it was for the last report.        *)
LEMMA ReadingGoesOn ==
    ASSUME ReadersInv, ReadValue
    PROVE  ReportInv'
<1> DEFINE keys == summary.keys
           m == Min(keys)
           v == shown["total"][m]
<1>1. /\ summary.reading
      /\ keys # {}
      /\ summary' = [summary EXCEPT !.keys = keys \ {m}, !.sum = summary.sum + v]
      /\ UNCHANGED <<shown, lastReport>>
  BY DEF ReadValue, Read, NextValue, propagatorVars
<1>2. PICK old, new : /\ IsSum(old) /\ IsSum(new)
                      /\ old[NumStreams] = lastReport
                      /\ Catches(old, new)
  BY <1>1 DEF ReadersInv, ReportInv
<1>3. keys \subseteq DOMAIN shown["total"] /\ DOMAIN shown["total"] \subseteq Streams
  BY <1>2, KeysAreStreams DEF Catches, ReadersInv, Kinds
<1>4. m \in keys /\ m \in Streams /\ (\A k \in keys : m <= k)
  <2>1. keys \in SUBSET Streams
    BY <1>3
  <2> HIDE DEF keys
  <2>2. QED
    BY <1>1, <2>1, <1>3, NextStream
<1>5. v = Shown("total", m) /\ v \in Nat
  <2>1. v = Shown("total", m)
    BY <1>3, <1>4 DEF Shown
  <2>2. Shown("total", m) \in Nat
    BY <1>4, OutType DEF ReadersInv, MetricsInv, Kinds
  <2>3. QED
    BY <2>1, <2>2
<1>6. NumStreams \in 0..NumStreams /\ 0 \in 0..NumStreams /\ m \in 1..NumStreams
  BY <1>4, MetricsAssumption DEF Streams
<1>7. \A n \in Streams : n \in 0..NumStreams /\ n - 1 \in 0..NumStreams
  BY MetricsAssumption DEF Streams
<1> HIDE DEF keys, m, v
<1>7a. old \in [0..NumStreams -> Nat] /\ new \in [0..NumStreams -> Nat]
  BY <1>2 DEF IsSum
<1>8. PICK next \in [0..NumStreams -> Nat] :
          \A n \in 0..NumStreams : next[n] = IF n < m THEN new[n] ELSE new[n] + v
  <2> DEFINE f == [n \in 0..NumStreams |-> IF n < m THEN new[n] ELSE new[n] + v]
  <2>1. f \in [0..NumStreams -> Nat]
    BY <1>5, <1>7a
  <2>2. QED
    BY <2>1
<1>9. /\ new[NumStreams] = summary.sum
      /\ \A n \in Streams : m <= n => new[n] = new[n - 1] /\ (n \notin keys => old[n] = old[n - 1])
      /\ \A n \in 0..NumStreams : n < m => old[n] <= new[n]
  <2>1. \A n \in Streams : m <= n => \E k \in keys : k <= n
    BY <1>4
  <2>2. ASSUME NEW n \in 0..NumStreams, n < m
        PROVE  \A k \in keys : n < k
    BY <1>3, <1>4, <2>2 DEF Streams
  <2>3. QED
    BY <1>2, <2>1, <2>2 DEF Catches, keys
<1>10. IsSum(next)
  <2>1. next[0] = 0
    BY <1>2, <1>6, <1>8, <1>7a DEF IsSum
  <2>2. ASSUME NEW n \in Streams
        PROVE  next[n - 1] <= next[n] /\ next[n] <= next[n - 1] + Shown("total", n)
    <3>1. /\ n \in 0..NumStreams /\ n - 1 \in 0..NumStreams /\ n \in Int
          /\ new[n] \in Nat /\ new[n - 1] \in Nat
          /\ new[n - 1] <= new[n] /\ new[n] <= new[n - 1] + Shown("total", n)
      BY <1>2, <1>7, <1>8, <1>7a DEF IsSum, Streams
    <3>2. Shown("total", n) \in Nat
      BY OutType DEF ReadersInv, MetricsInv, Kinds
    <3>3. CASE n < m
      BY <1>6, <1>8, <1>7a, <3>1, <3>3
    <3>4. CASE n = m
      <4>1. next[n] = new[n - 1] + v /\ next[n - 1] = new[n - 1]
        BY <1>6, <1>8, <1>7a, <1>9, <3>1, <3>4
      <4>2. QED
        BY <1>5, <3>1, <3>4, <4>1
    <3>5. CASE n > m
      <4>1. next[n] = new[n] + v /\ next[n - 1] = new[n - 1] + v
        BY <1>6, <1>8, <1>7a, <3>1, <3>5
      <4>2. QED
        BY <1>5, <3>1, <3>2, <4>1
    <3>6. QED
      BY <1>6, <3>1, <3>3, <3>4, <3>5
  <2>3. QED
    BY <1>8, <1>7a, <2>1, <2>2 DEF IsSum
<1>11. ASSUME NEW n \in Streams, NEW k \in keys \ {m}, k <= n
       PROVE  next[n] = next[n - 1] /\ (n \notin keys \ {m} => old[n] = old[n - 1])
  <2>1. n \in Int /\ n > m
    <3>1. k \in Streams /\ m <= k /\ k # m
      BY <1>3, <1>4, <1>11
    <3>2. k \in Int /\ n \in Int /\ m \in Int
      BY <1>6, <3>1 DEF Streams
    <3>3. QED
      BY <1>11, <3>1, <3>2
  <2>2. /\ new[n] = new[n - 1] /\ (n \notin keys => old[n] = old[n - 1])
    BY <1>6, <1>9, <2>1
  <2>3. next[n] = new[n] + v /\ next[n - 1] = new[n - 1] + v
    BY <1>6, <1>7, <1>8, <1>7a, <2>1
  <2>4. QED
    BY <2>1, <2>2, <2>3
<1>12. old[m] <= next[m]
  <2>1. old[m - 1] <= new[m - 1] /\ new[m] = new[m - 1]
    BY <1>4, <1>6, <1>7, <1>9
  <2>2. old[m] <= old[m - 1] + v
    BY <1>2, <1>4, <1>5 DEF IsSum
  <2>3. /\ old[m] \in Nat /\ old[m - 1] \in Nat /\ new[m - 1] \in Nat
        /\ next[m] = new[m] + v
    <3>1. m \in 0..NumStreams /\ m - 1 \in 0..NumStreams /\ ~(m < m)
      BY <1>4, <1>6, <1>7
    <3>2. QED
      BY <1>8, <1>7a, <3>1
  <2>4. QED
    BY <1>5, <2>1, <2>2, <2>3
<1>13. ASSUME NEW n \in 0..NumStreams, \A k \in keys \ {m} : n < k
       PROVE  old[n] <= next[n]
  <2>1. CASE n < m
    BY <1>8, <1>7a, <1>9, <2>1
  <2>2. CASE m <= n
    <3>1. ASSUME NEW j \in Streams, m < j, j <= n
          PROVE  old[j] = old[j - 1] /\ next[j - 1] <= next[j]
      <4>1. j \notin keys
        <5>1. j \in Int /\ n \in Int /\ j # m
          BY <1>6, <3>1 DEF Streams
        <5>2. QED
          BY <1>13, <3>1, <5>1
      <4>2. old[j] = old[j - 1]
        BY <1>6, <1>9, <3>1, <4>1 DEF Streams
      <4>3. next[j - 1] <= next[j]
        BY <1>10, <3>1 DEF IsSum
      <4>4. QED
        BY <4>2, <4>3
    <3>2. m \in 0..NumStreams
      BY <1>6
    <3>3. QED
      BY <1>8, <1>7a, <1>12, <2>2, <3>1, <3>2, StaysBehind
  <2>3. QED
    BY <1>6, <2>1, <2>2
<1>14. /\ summary' \in [keys : SUBSET Streams, sum : Nat, reading : BOOLEAN]
       /\ summary'.keys = keys \ {m} /\ summary'.sum = summary.sum + v /\ summary'.reading
  <2>1. summary \in [keys : SUBSET Streams, sum : Nat, reading : BOOLEAN]
    BY DEF ReadersInv, ReportInv
  <2>2. keys \ {m} \in SUBSET Streams /\ summary.sum + v \in Nat
    BY <1>3, <1>5, <2>1
  <2>3. QED
    BY <1>1, <2>1, <2>2
<1>15. Catches(old, next)'
  <2>1. next[NumStreams] = summary.sum + v
    BY <1>6, <1>8, <1>7a, <1>9
  <2>2. shown'["total"] = shown["total"] /\ keys \ {m} \subseteq DOMAIN shown["total"]
    BY <1>1, <1>3
  <2>3. \A n \in Streams : (\E k \in keys \ {m} : k <= n) =>
            next[n] = next[n - 1] /\ (n \notin keys \ {m} => old[n] = old[n - 1])
    BY <1>11
  <2> DEFINE rest == keys \ {m}
  <2> HIDE DEF rest
  <2>4. /\ summary'.keys = rest
        /\ next[NumStreams] = summary'.sum
        /\ rest \subseteq DOMAIN shown'["total"]
        /\ \A n \in Streams : (\E k \in rest : k <= n) =>
               next[n] = next[n - 1] /\ (n \notin rest => old[n] = old[n - 1])
        /\ \A n \in 0..NumStreams : (\A k \in rest : n < k) => old[n] <= next[n]
    BY <1>13, <1>14, <2>1, <2>2, <2>3 DEF rest
  <2>5. QED
    BY <2>4 DEF Catches
<1>16. IsSum(old)' /\ IsSum(next)'
  <2>1. \A n \in Streams : Shown("total", n)' = Shown("total", n)
    BY <1>1 DEF Shown
  <2>2. QED
    BY <1>2, <1>10, <2>1 DEF IsSum
<1>17. lastReport' \in Nat /\ old[NumStreams] = lastReport'
  BY <1>1, <1>2 DEF ReadersInv, ReportInv
<1>18. QED
  BY <1>14, <1>15, <1>16, <1>17 DEF ReportInv


(* The report: the sum is not less than the last one.                      *)
LEMMA ReportIsMade ==
    ASSUME ReadersInv, Report
    PROVE  ReportInv' /\ lastReport' >= lastReport
<1>1. /\ summary.reading /\ summary.keys = {}
      /\ lastReport' = summary.sum
      /\ summary' = Asleep
      /\ UNCHANGED shown
  BY DEF Report, propagatorVars
<1>2. PICK old, new : /\ IsSum(old) /\ IsSum(new)
                      /\ old[NumStreams] = lastReport
                      /\ Catches(old, new)
  BY <1>1 DEF ReadersInv, ReportInv
<1>3. NumStreams \in 0..NumStreams
  BY MetricsAssumption
<1>4. lastReport <= summary.sum /\ new[NumStreams] = summary.sum
  BY <1>1, <1>2, <1>3 DEF Catches
<1>5. lastReport \in Nat /\ summary.sum \in Nat
  BY DEF ReadersInv, ReportInv
<1>6. IsSum(new)'
  <2>1. \A n \in Streams : Shown("total", n)' = Shown("total", n)
    BY <1>1 DEF Shown
  <2>2. QED
    BY <1>2, <2>1 DEF IsSum
<1>7. /\ summary' \in [keys : SUBSET Streams, sum : Nat, reading : BOOLEAN]
      /\ ~summary'.reading
  BY <1>1 DEF Asleep
<1>8. ReportInv'
  BY <1>1, <1>4, <1>5, <1>6, <1>7 DEF ReportInv
<1>9. QED
  BY <1>1, <1>4, <1>5, <1>8

(* The propagator only adds to what is published.                          *)
LEMMA ReportStays ==
    ASSUME ReadersInv, [Next]_vars, UNCHANGED <<summary, lastReport>>
    PROVE  ReportInv'
<1>1. summary' = summary /\ lastReport' = lastReport
  OBVIOUS
<1>2. MetricsInv /\ ReportInv
  BY DEF ReadersInv
<1>3. CASE summary.reading
  <2>1. PICK old, new : /\ IsSum(old) /\ IsSum(new)
                        /\ old[NumStreams] = lastReport
                        /\ Catches(old, new)
    BY <1>2, <1>3 DEF ReportInv
  <2>2. IsSum(old)' /\ IsSum(new)'
    BY <1>2, <2>1, SumStays
  <2>3. DOMAIN shown["total"] \subseteq DOMAIN shown'["total"]
    BY <1>2, ShownGrows DEF Kinds
  <2>4. Catches(old, new)'
    BY <1>1, <2>1, <2>3 DEF Catches
  <2>5. QED
    BY <1>1, <1>2, <1>3, <2>1, <2>2, <2>4 DEF ReportInv
<1>4. CASE ~summary.reading
  <2>1. PICK old : IsSum(old) /\ old[NumStreams] = lastReport
    BY <1>2, <1>4 DEF ReportInv
  <2>2. IsSum(old)'
    BY <1>2, <2>1, SumStays
  <2>3. QED
    BY <1>1, <1>2, <1>4, <2>1, <2>2 DEF ReportInv
<1>5. QED
  BY <1>3, <1>4

(* The observer: what it looks up is not less than what it has seen.       *)
LEMMA ExportStep ==
    ASSUME ReadersInv, [Next]_vars
    PROVE  ExportInv' /\ \A s \in Streams : exported'[s] >= exported[s]
<1>1. /\ exported \in [Streams -> Nat]
      /\ unobserved \subseteq DOMAIN shown[Watched]
      /\ \A s \in Streams : exported[s] <= Shown(Watched, s)
  BY DEF ReadersInv, ExportInv
<1>2. /\ DOMAIN shown[Watched] \subseteq Streams
      /\ DOMAIN shown[Watched] \subseteq DOMAIN shown'[Watched]
      /\ \A s \in Streams : /\ Shown(Watched, s) \in Nat
                            /\ Shown(Watched, s)' \in Nat
                            /\ Shown(Watched, s) <= Shown(Watched, s)'
  BY ShownGrows, MetricsAssumption DEF ReadersInv
<1>3. CASE ObserveValue
  <2> DEFINE m == Min(unobserved)
             v == shown[Watched][m]
  <2>1. /\ unobserved # {}
        /\ unobserved' = unobserved \ {m}
        /\ exported' = [exported EXCEPT ![m] = v]
        /\ UNCHANGED shown
    BY <1>3 DEF ObserveValue, propagatorVars
  <2>2. m \in unobserved
    <3>1. unobserved \in SUBSET Streams
      BY <1>1, <1>2
    <3>2. QED
      BY <2>1, <3>1, NextStream
  <2>3. m \in Streams /\ v = Shown(Watched, m) /\ v \in Nat /\ exported[m] <= v
    <3>1. m \in Streams /\ v = Shown(Watched, m)
      BY <1>1, <1>2, <2>2 DEF Shown
    <3> HIDE DEF v, m
    <3>2. QED
      BY <1>1, <1>2, <3>1
  <2> HIDE DEF v, m
  <2>4. exported' \in [Streams -> Nat]
    BY <1>1, <2>1, <2>3
  <2>5. \A s \in Streams : exported'[s] = IF s = m THEN v ELSE exported[s]
    BY <1>1, <2>1
  <2>6. \A s \in Streams : Shown(Watched, s)' = Shown(Watched, s)
    BY <2>1 DEF Shown
  <2>7. \A s \in Streams : exported'[s] <= Shown(Watched, s)' /\ exported'[s] >= exported[s]
    BY <1>1, <1>2, <2>3, <2>5, <2>6
  <2>8. unobserved' \subseteq DOMAIN shown'[Watched]
    BY <1>1, <2>1
  <2>9. QED
    BY <2>4, <2>7, <2>8 DEF ExportInv
<1>4. CASE UNCHANGED exported /\ unobserved' \subseteq DOMAIN shown'[Watched]
  <2>1. \A s \in Streams : /\ exported[s] \in Nat
                          /\ exported'[s] = exported[s]
                          /\ exported[s] <= Shown(Watched, s)
    BY <1>1, <1>4
  <2>2. \A s \in Streams : exported'[s] <= Shown(Watched, s)' /\ exported'[s] >= exported[s]
    BY <1>2, <2>1
  <2>3. QED
    BY <1>1, <1>4, <2>2 DEF ExportInv
<1>5. CASE ObserveKeys
  <2>1. UNCHANGED exported /\ unobserved' \subseteq DOMAIN shown'[Watched]
    BY <1>5 DEF ObserveKeys, propagatorVars
  <2>2. QED
    BY <1>4, <2>1
<1>6. CASE UNCHANGED exporterVars
  <2>1. UNCHANGED exported /\ unobserved' \subseteq DOMAIN shown'[Watched]
    BY <1>1, <1>2, <1>6 DEF exporterVars
  <2>2. QED
    BY <1>4, <2>1
<1>7. QED
  BY <1>3, <1>5, <1>6 DEF Next, Exporter, vars

(* Nothing is published, reported or observed to start with.               *)
LEMMA ReadersInitially == Init => ReadersInv
<1> SUFFICES ASSUME Init PROVE ReadersInv
  OBVIOUS
<1> DEFINE old == [n \in 0..NumStreams |-> 0]
<1>1. \A k \in Kinds, s \in Streams : Shown(k, s) = 0
  BY DEF Init, Shown
<1>2. IsSum(old) /\ old[NumStreams] = 0
  <2>1. NumStreams \in 0..NumStreams /\ 0 \in 0..NumStreams
    BY MetricsAssumption
  <2>2. \A n \in Streams : n \in 0..NumStreams /\ n - 1 \in 0..NumStreams
    BY MetricsAssumption DEF Streams
  <2>3. old \in [0..NumStreams -> Nat] /\ \A n \in 0..NumStreams : old[n] = 0
    OBVIOUS
  <2> HIDE DEF old
  <2>4. \A n \in Streams : Shown("total", n) = 0
    BY <1>1 DEF Kinds
  <2>5. QED
    BY <2>1, <2>2, <2>3, <2>4 DEF IsSum
<1> HIDE DEF old
<1>3. /\ summary \in [keys : SUBSET Streams, sum : Nat, reading : BOOLEAN]
      /\ ~summary.reading
  BY DEF Init, Asleep
<1>4. ReportInv
  BY <1>2, <1>3 DEF Init, ReportInv
<1>5. ExportInv
  BY <1>1, MetricsAssumption DEF Init, ExportInv
<1>6. QED
  BY <1>4, <1>5, MetricsInitially DEF ReadersInv

(* ReadersInv is preserved, and no step goes back.                         *)
LEMMA ReadersStep ==
    ReadersInv /\ [Next]_vars =>
        /\ ReadersInv'
        /\ lastReport' >= lastReport
        /\ \A s \in Streams : exported'[s] >= exported[s]
<1> SUFFICES ASSUME ReadersInv, [Next]_vars
             PROVE  ReportInv' /\ lastReport' >= lastReport
  BY MetricsStep, ExportStep DEF ReadersInv
<1>1. lastReport \in Nat
  BY DEF ReadersInv, ReportInv
<1>2. CASE ReadKeys
  BY <1>1, <1>2, ReadingStarts DEF ReadKeys
<1>3. CASE ReadValue
  BY <1>1, <1>3, ReadingGoesOn DEF ReadValue, Read
<1>4. CASE Report
  BY <1>4, ReportIsMade
<1>5. CASE UNCHANGED <<summary, lastReport>>
  BY <1>1, <1>5, ReportStays
<1>6. QED
  BY <1>2, <1>3, <1>4, <1>5 DEF Next, vars, summaryVars, Propagator, Main, Tick, LeaveLoop,
     Exporter, Update, BeginTabulate, Snapshot, TakeCounts, Publish, ObserveKeys, ObserveValue

(* However the reading of keys and values falls between the publications:  *)
(* neither the total that is reported nor a count that is exported ever    *)
(* goes back, for any number of streams.                                   *)
THEOREM NeverDecrease == Spec => ReportsNeverDecrease
<1>1. ReadersInv /\ [Next]_vars =>
          [/\ lastReport' >= lastReport
           /\ \A s \in Streams : exported'[s] >= exported[s]]_<<lastReport, exported>>
  BY ReadersStep
<1>2. QED
  BY <1>1, ReadersInitially, ReadersStep, PTL DEF Spec, ReportsNeverDecrease

============
