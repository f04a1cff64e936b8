----------------------------- MODULE RecordProofs -----------------------------
(***************************************************************************)
(* The records made of a packet are the packet, for every value of the     *)
(* constants: its samples are divided among them without a gap, and their  *)
(* times, each rounded twice, follow one another.                          *)
(***************************************************************************)
EXTENDS ProgramProofs, StartupProofs

-----------------------------------------------------------------------------
(* Quotients. *)

LEMMA Quotient ==
    ASSUME NEW a \in Int, NEW b \in Nat \ {0}
    PROVE  /\ a \div b \in Int
           /\ b * (a \div b) <= a
           /\ a < b * (a \div b) + b
OBVIOUS

LEMMA NotLess ==
    ASSUME NEW b \in Nat \ {0}, NEW c \in Int, NEW d \in Int, b * c < b * d + b
    PROVE  c <= d
<1>1. ASSUME c >= d + 1 PROVE FALSE
  <2>1. b * c >= b * (d + 1)
    BY <1>1
  <2>2. b * (d + 1) = b * d + b
    OBVIOUS
  <2>3. QED
    BY <2>1, <2>2
<1>2. QED
  BY <1>1

LEMMA QuotientMonotone ==
    ASSUME NEW a \in Int, NEW c \in Int, NEW b \in Nat \ {0}, a <= c
    PROVE  a \div b <= c \div b
<1> DEFINE p == a \div b
           q == c \div b
<1>1. /\ p \in Int /\ q \in Int
      /\ b * p <= a /\ c < b * q + b
  BY Quotient
<1>2. b * p \in Int /\ b * q \in Int
  BY <1>1
<1> HIDE DEF p, q
<1>3. b * p < b * q + b
  BY <1>1, <1>2
<1>4. p <= q
  BY <1>1, <1>3, NotLess
<1>5. QED
  BY <1>4 DEF p, q

LEMMA QuotientOfNext ==
    ASSUME NEW a \in Int, NEW b \in Nat \ {0}
    PROVE  (a + 1) \div b <= (a \div b) + 1
<1> DEFINE p == (a + 1) \div b
           q == a \div b
<1>1. /\ p \in Int /\ q \in Int
      /\ b * p <= a + 1 /\ a < b * q + b
  BY Quotient
<1>2. b * p \in Int /\ b * q \in Int /\ b * (q + 1) = b * q + b
  BY <1>1
<1> HIDE DEF p, q
<1>3. b * p < b * (q + 1) + b
  BY <1>1, <1>2
<1>4. p <= q + 1
  BY <1>1, <1>3, NotLess
<1>5. QED
  BY <1>4 DEF p, q

LEMMA RoundedBounds ==
    ASSUME NEW a \in Nat, NEW b \in Nat \ {0}
    PROVE  LET q == Rounded(a, b)
           IN  /\ q \in Nat
               /\ 2 * (b * q) <= 2 * a + b
               /\ 2 * a < 2 * (b * q) + b
<1> DEFINE n == 2 * a + b
           m == 2 * b
           q == n \div m
<1>1. n \in Int /\ m \in Nat \ {0} /\ Rounded(a, b) = q
  BY DEF Rounded
<1> HIDE DEF n, m
<1>2. q \in Int /\ m * q <= n /\ n < m * q + m
  BY <1>1, Quotient
<1> HIDE DEF q
<1>3. m * q = 2 * (b * q) /\ b * q \in Int
  BY <1>2 DEF m
<1>4. 2 * (b * q) <= 2 * a + b /\ 2 * a < 2 * (b * q) + b
  BY <1>2, <1>3 DEF n, m
<1>5. b * 0 < b * q + b
  BY <1>3, <1>4
<1>6. 0 <= q
  BY <1>2, <1>5, NotLess
<1>7. QED
  BY <1>1, <1>2, <1>4, <1>6

LEMMA RoundedSum ==
    ASSUME NEW x \in Nat, NEW y \in Nat, NEW b \in Nat \ {0}
    PROVE  /\ \A z \in Nat : x + y + b <= z => Rounded(x, b) + Rounded(y, b) <= Rounded(z, b)
           /\ Rounded(x, b) + Rounded(y, b) <= Rounded(x + y, b) + 1
           /\ Rounded(x + y, b) <= Rounded(x, b) + Rounded(y, b) + 1
<1> DEFINE p == Rounded(x, b)
           q == Rounded(y, b)
<1>1. /\ p \in Nat /\ 2 * (b * p) <= 2 * x + b /\ 2 * x < 2 * (b * p) + b
      /\ q \in Nat /\ 2 * (b * q) <= 2 * y + b /\ 2 * y < 2 * (b * q) + b
  BY RoundedBounds
<1> HIDE DEF p, q
<1>2. /\ b * p \in Int /\ b * q \in Int /\ b * (p + q) = b * p + b * q
      /\ p + q \in Int
  BY <1>1
<1>3. ASSUME NEW z \in Nat, x + y + b <= z
      PROVE  p + q <= Rounded(z, b)
  <2> DEFINE r == Rounded(z, b)
  <2>1. r \in Nat /\ 2 * z < 2 * (b * r) + b
    BY RoundedBounds
  <2> HIDE DEF r
  <2>2. b * r \in Int
    BY <2>1
  <2>3. b * (p + q) < b * r + b
    BY <1>1, <1>2, <1>3, <2>1, <2>2
  <2>4. p + q <= r
    BY <1>2, <2>1, <2>3, NotLess
  <2>5. QED
    BY <2>4 DEF r
<1>4. /\ p + q <= Rounded(x + y, b) + 1
      /\ Rounded(x + y, b) <= p + q + 1
  <2> DEFINE r == Rounded(x + y, b)
  <2>1. /\ r \in Nat /\ 2 * (b * r) <= 2 * (x + y) + b /\ 2 * (x + y) < 2 * (b * r) + b
    <3>1. x + y \in Nat
      OBVIOUS
    <3>2. QED
      BY <3>1, RoundedBounds
  <2> HIDE DEF r
  <2>2. /\ b * r \in Int /\ b * (r + 1) = b * r + b /\ b * (p + q + 1) = b * (p + q) + b
        /\ r + 1 \in Int /\ p + q + 1 \in Int /\ r \in Int
    BY <1>2, <2>1
  <2>3. b * (p + q) < b * (r + 1) + b
    BY <1>1, <1>2, <2>1, <2>2
  <2>4. b * r < b * (p + q + 1) + b
    BY <1>1, <1>2, <2>1, <2>2
  <2>5. p + q <= r + 1 /\ r <= p + q + 1
    BY <1>2, <2>2, <2>3, <2>4, NotLess
  <2>6. QED
    BY <2>5 DEF r
<1>5. QED
  BY <1>3, <1>4 DEF p, q
LEMMA Product ==
    ASSUME NEW b \in Nat, NEW c \in Int, NEW d \in Int, c <= d
    PROVE  b * c \in Int /\ b * c <= b * d
<1>1. d - c \in Nat
  OBVIOUS
<1>2. b * (d - c) >= 0 /\ b * (d - c) = b * d - b * c
  BY <1>1
<1>3. QED
  BY <1>2

LEMMA MinOfTwo ==
    ASSUME NEW a \in Int, NEW b \in Int
    PROVE  Min({a, b}) = IF a <= b THEN a ELSE b
<1> DEFINE m == IF a <= b THEN a ELSE b
<1>1. m \in {a, b} /\ \A y \in {a, b} : m <= y
  OBVIOUS
<1>2. ASSUME NEW x \in {a, b}, \A y \in {a, b} : x <= y
      PROVE  x = m
  BY <1>2
<1>3. QED
  BY <1>1, <1>2 DEF Min

(* The records of n samples, c in each: the full ones, and perhaps the rest. *)
Pieces(n, c) ==
    {n \div c} \cup (IF n % c > 0 THEN {n \div c + 1} ELSE {})

(* The kth record of n samples, c in each: its first sample and how many.  *)
First(c, k) == (k - 1) * c + 1
Piece(n, c, k) == Min({c, n - (k - 1) * c})

(* A record is full, or it holds the rest.                                 *)
LEMMA PieceOf ==
    ASSUME NEW n \in Nat \ {0}, NEW c \in Nat \ {0}, NEW some \in Pieces(n, c),
           NEW k \in 1..some
    PROVE  /\ First(c, k) \in Nat \ {0}
           /\ Piece(n, c, k) \in Nat \ {0}
           /\ Piece(n, c, k) <= c
           /\ k < some => Piece(n, c, k) = c
           /\ k = some /\ some = n \div c => Piece(n, c, k) = c
           /\ k = some /\ some # n \div c => First(c, k) + Piece(n, c, k) - 1 = n
<1> DEFINE q == n \div c
           before == (k - 1) * c
           m == Piece(n, c, k)
<1>1. q \in Int /\ c * q <= n /\ n < c * q + c
  BY Quotient
<1>2. /\ some \in Int /\ k \in Int /\ 1 <= k /\ k <= some
      /\ some = q \/ (some = q + 1 /\ n % c > 0)
  BY <1>1 DEF Pieces
<1>3. n % c = n - c * q
  OBVIOUS
<1> HIDE DEF q
<1>4. before = c * (k - 1) /\ before \in Int /\ before >= 0
  BY <1>2, Product
<1>5. m = IF c <= n - before THEN c ELSE n - before
  BY <1>4, MinOfTwo DEF Piece, before
<1> DEFINE f == First(c, k)
<1>11. f = before + 1
  BY DEF First
<1> HIDE DEF m, before, f
<1>6. CASE k <= q
  <2>1. c * k <= c * q /\ c * (k - 1) = c * k - c
    BY <1>1, <1>2, <1>6, Product
  <2>2. before + c <= n
    BY <1>1, <1>2, <1>4, <2>1
  <2>3. m = c
    BY <1>4, <1>5, <2>2
  <2>4. k = some => some = q
    BY <1>1, <1>2, <1>6
  <2>5. QED
    BY <1>4, <1>11, <2>2, <2>3, <2>4 DEF m, q, f
<1>7. CASE k = q + 1
  <2>1. before = c * q
    BY <1>1, <1>4, <1>7
  <2>2. some = q + 1 /\ n % c > 0
    BY <1>1, <1>2, <1>7
  <2>3. /\ m = n - before
        /\ m \in Nat \ {0}
        /\ m <= c
    BY <1>1, <1>3, <1>4, <1>5, <2>1, <2>2
  <2>4. ~(k < some) /\ some # q
    BY <1>1, <1>7, <2>2
  <2>5. before + m = n
    BY <1>4, <2>3
  <2>6. QED
    BY <1>4, <1>11, <2>3, <2>4, <2>5 DEF m, q, f
<1>8. QED
  BY <1>1, <1>2, <1>6, <1>7

-----------------------------------------------------------------------------
(* The times of a record. *)

(* What libmseed can make records of.                                      *)
Sampled(p) ==
    /\ p.samplingRate \in Rates
    /\ p.startTime \in Nat
    /\ p.samples \in Nat

(* Ticks between the first of the samples and the one after n of them.     *)
After(p, n) == Rounded(n * Second, p.samplingRate)

(* Two stretches of samples take what they take in one, to a tick; and the *)
(* last sample of the first is not after the first sample of the second.   *)
LEMMA Stretches ==
    ASSUME NEW p, Sampled(p), NEW m \in Nat, NEW n \in Nat
    PROVE  /\ After(p, n) \in Nat
           /\ After(p, m) + After(p, n) <= After(p, m + n + 1)
           /\ After(p, m) + After(p, n) <= After(p, m + n) + 1
           /\ After(p, m + n) <= After(p, m) + After(p, n) + 1
<1> DEFINE rate == p.samplingRate
           x == m * Second
           y == n * Second
<1>1. /\ Second \in Nat
      /\ rate \in Nat \ {0}
      /\ rate <= Second
  BY PacketAssumption, ClockAssumption DEF Sampled
<1>2. /\ x \in Nat
      /\ y \in Nat
  BY <1>1
<1>3. /\ (m + n) * Second = x + y
      /\ (m + n + 1) * Second = x + y + Second
  BY <1>1
<1> HIDE DEF x, y, rate
<1>4. x + y + Second \in Nat /\ x + y + rate <= x + y + Second
  BY <1>1, <1>2
<1>5. /\ Rounded(y, rate) \in Nat
      /\ Rounded(x, rate) + Rounded(y, rate) <= Rounded(x + y + Second, rate)
      /\ Rounded(x, rate) + Rounded(y, rate) <= Rounded(x + y, rate) + 1
      /\ Rounded(x + y, rate) <= Rounded(x, rate) + Rounded(y, rate) + 1
  BY <1>1, <1>2, <1>4, RoundedSum, RoundedBounds
<1>6. QED
  BY <1>3, <1>5 DEF After, x, y, rate

(* The samples of a record, and its size.                                  *)
LEMMA RecordHolds ==
    ASSUME NEW p, NEW first, NEW count
    PROVE  LET h == msRecordHandler(p, first, count)
           IN  /\ h.first = first
               /\ h.count = count
               /\ h.size = Header + count * Width(p.dataType)
BY DEF msRecordHandler

(* The times of a record.                                                  *)
LEMMA RecordTimes ==
    ASSUME NEW p, Sampled(p), NEW first \in Nat \ {0}, NEW count \in Nat
    PROVE  LET h == msRecordHandler(p, first, count)
               start == p.startTime + After(p, first - 1)
               end == IF count > 0 THEN start + After(p, count - 1) ELSE start
           IN  /\ start \in Nat /\ end \in Nat
               /\ h.startTime = start \div Microsecond
               /\ h.endTime = end \div Microsecond
<1> DEFINE start == p.startTime + After(p, first - 1)
           end == IF count > 0 THEN start + After(p, count - 1) ELSE start
           end0 == start + (IF count > 0 THEN After(p, count - 1) ELSE 0)
<1>1. /\ After(p, first - 1) \in Nat
      /\ count > 0 => After(p, count - 1) \in Nat
  <2>1. \A n \in Nat : After(p, n) \in Nat
    BY Stretches
  <2>2. first - 1 \in Nat /\ (count > 0 => count - 1 \in Nat)
    OBVIOUS
  <2>3. QED
    BY <2>1, <2>2
<1>2. start \in Nat /\ end \in Nat /\ end = end0
  BY <1>1 DEF Sampled
<1>3. msRecordHandler(p, first, count) =
        [first |-> first, count |-> count,
         size |-> Header + count * Width(p.dataType),
         startTime |-> start \div Microsecond, endTime |-> end0 \div Microsecond]
  BY DEF msRecordHandler, After
<1> HIDE DEF start, end, end0
<1>4. QED
  BY <1>2, <1>3 DEF start, end

(* A record that is not empty has ended when the next one starts.          *)
LEMMA NoOverlap ==
    ASSUME NEW p, Sampled(p), NEW first \in Nat \ {0}, NEW count \in Nat \ {0},
           NEW next \in Nat
    PROVE  msRecordHandler(p, first, count).endTime
               <= msRecordHandler(p, first + count, next).startTime
<1> DEFINE m == first - 1
           n == count - 1
           e == p.startTime + After(p, m) + After(p, n)
           s == p.startTime + After(p, m + n + 1)
<1>1. m \in Nat /\ n \in Nat /\ first + count - 1 = m + n + 1
      /\ first + count \in Nat \ {0} /\ count > 0
  OBVIOUS
<1>2. /\ msRecordHandler(p, first, count).endTime = e \div Microsecond
      /\ e \in Nat
  BY <1>1, RecordTimes
<1>3. /\ msRecordHandler(p, first + count, next).startTime = s \div Microsecond
      /\ s \in Nat
  <2> DEFINE f == first + count
  <2>1. f \in Nat \ {0} /\ f - 1 = m + n + 1
    OBVIOUS
  <2> HIDE DEF f, m, n
  <2>2. /\ msRecordHandler(p, f, next).startTime
               = (p.startTime + After(p, f - 1)) \div Microsecond
        /\ p.startTime + After(p, f - 1) \in Nat
    BY <2>1, RecordTimes
  <2>3. QED
    BY <2>1, <2>2 DEF f
<1>4. e <= s
  <2> HIDE DEF m, n
  <2>1. /\ After(p, m) + After(p, n) <= After(p, m + n + 1)
        /\ After(p, m) \in Nat
        /\ After(p, n) \in Nat
    BY <1>1, Stretches
  <2>2. After(p, m + n + 1) \in Nat
    BY <1>1, Stretches
  <2>3. QED
    BY <2>1, <2>2 DEF Sampled
<1> HIDE DEF e, s
<1>5. e \div Microsecond <= s \div Microsecond
  BY <1>2, <1>3, <1>4, QuotientMonotone, PacketAssumption
<1>6. QED
  BY <1>2, <1>3, <1>5

(* Quotients of times that are a tick apart are at most one apart.         *)
LEMMA WithinOne ==
    ASSUME NEW a \in Int, NEW c \in Int, NEW b \in Nat \ {0}, a <= c + 1, c <= a + 1
    PROVE  (a \div b) - (c \div b) \in -1..1
<1>1. /\ a \div b <= (c + 1) \div b
      /\ c \div b <= (a + 1) \div b
  BY QuotientMonotone
<1>2. /\ (c + 1) \div b <= (c \div b) + 1
      /\ (a + 1) \div b <= (a \div b) + 1
  BY QuotientOfNext
<1>3. /\ a \div b \in Int /\ (a + 1) \div b \in Int
      /\ c \div b \in Int /\ (c + 1) \div b \in Int
  BY Quotient
<1> DEFINE p == a \div b
           q == c \div b
           s == (a + 1) \div b
           t == (c + 1) \div b
<1> HIDE DEF p, q, s, t
<1>4. p <= t /\ q <= s /\ t <= q + 1 /\ s <= p + 1
      /\ p \in Int /\ q \in Int /\ s \in Int /\ t \in Int
  BY <1>1, <1>2, <1>3 DEF p, q, s, t
<1>5. p - q \in -1..1
  BY <1>4
<1>6. QED
  BY <1>5 DEF p, q

(* The first record starts with the packet, and one that holds its last    *)
(* sample ends with it, to the microsecond.                                *)
LEMMA FirstAndLast ==
    ASSUME NEW p, Sampled(p), NEW first \in Nat \ {0}, NEW count \in Nat,
           p.endTime = EndTime(p)
    PROVE  LET h == msRecordHandler(p, first, count)
           IN  /\ first = 1 => h.startTime = p.startTime \div Microsecond
               /\ count > 0 /\ first + count - 1 = p.samples =>
                      h.endTime - (p.endTime \div Microsecond) \in -1..1
               /\ first = 1 /\ count = 0 /\ p.samples = 0 =>
                      h.endTime - (p.endTime \div Microsecond) \in -1..1
<1> DEFINE h == msRecordHandler(p, first, count)
<1>1. p.samplingRate \in Nat \ {0} /\ Second \in Nat
  BY PacketAssumption DEF Sampled
<1>2. After(p, 0) = 0
  <2> DEFINE q == After(p, 0)
  <2>1. q = Rounded(0, p.samplingRate)
    <3>1. 0 * Second = 0
      BY <1>1
    <3>2. QED
      BY <3>1 DEF After
  <2> HIDE DEF q
  <2>2. q \in Nat /\ 2 * (p.samplingRate * q) <= 2 * 0 + p.samplingRate
    BY <1>1, <2>1, RoundedBounds
  <2>3. CASE q >= 1
    <3>1. p.samplingRate * 1 <= p.samplingRate * q /\ p.samplingRate * q \in Int
      BY <1>1, <2>2, <2>3, Product
    <3>2. QED
      BY <1>1, <2>2, <3>1
  <2>4. QED
    BY <2>2, <2>3 DEF q
<1>3. first = 1 => first - 1 = 0
  OBVIOUS
<1>4. ASSUME first = 1
      PROVE  h.startTime = p.startTime \div Microsecond
  BY <1>2, <1>3, <1>4, RecordTimes DEF Sampled
<1>5. ASSUME count > 0, first + count - 1 = p.samples
      PROVE  h.endTime - (p.endTime \div Microsecond) \in -1..1
  <2> DEFINE m == first - 1
             n == count - 1
             e == p.startTime + After(p, m) + After(p, n)
  <2>1. m \in Nat /\ n \in Nat /\ p.samples - 1 = m + n /\ p.samples > 0
    BY <1>5
  <2>2. h.endTime = e \div Microsecond /\ e \in Nat
    BY <1>5, RecordTimes
  <2> HIDE DEF m, n, h
  <2>3. p.endTime = p.startTime + After(p, m + n)
    <3>1. EndTime(p) = p.startTime + Rounded((p.samples - 1) * Second, p.samplingRate)
      BY <1>1, <2>1 DEF EndTime
    <3>2. QED
      BY <2>1, <3>1 DEF After
  <2>4. /\ After(p, m) \in Nat /\ After(p, n) \in Nat /\ After(p, m + n) \in Nat
        /\ After(p, m) + After(p, n) <= After(p, m + n) + 1
        /\ After(p, m + n) <= After(p, m) + After(p, n) + 1
    <3>1. m + n \in Nat
      BY <2>1
    <3>2. \A k \in Nat : After(p, k) \in Nat
      BY Stretches
    <3>3. QED
      BY <2>1, <3>1, <3>2, Stretches
  <2>5. p.endTime \in Int /\ e \in Int /\ e <= p.endTime + 1 /\ p.endTime <= e + 1
    BY <2>3, <2>4 DEF Sampled
  <2> HIDE DEF e
  <2>6. (e \div Microsecond) - (p.endTime \div Microsecond) \in -1..1
    BY <2>5, WithinOne, PacketAssumption
  <2>7. QED
    BY <2>2, <2>6
<1>6. ASSUME first = 1, count = 0, p.samples = 0
      PROVE  h.endTime - (p.endTime \div Microsecond) \in -1..1
  <2>1. h.endTime = p.startTime \div Microsecond
    BY <1>2, <1>3, <1>6, RecordTimes DEF Sampled
  <2>2. p.endTime = p.startTime
    BY <1>6 DEF EndTime, Sampled
  <2>3. (p.startTime \div Microsecond) - (p.startTime \div Microsecond) \in -1..1
    BY WithinOne, PacketAssumption DEF Sampled
  <2>4. QED
    BY <2>1, <2>2, <2>3
<1>7. QED
  BY <1>4, <1>5, <1>6

-----------------------------------------------------------------------------
(* What msr3_pack makes. *)

(* The records of one call: from the first sample on, without a gap, none  *)
(* longer than was asked for, and less than a record left over.            *)
Packs(p, reclen, r) ==
    LET left == p.samples - Packed(r)
    IN /\ r \in Seq(Range(r))
       /\ \A k \in DOMAIN r :
             /\ r[k].first = (IF k = 1 THEN 1 ELSE r[k-1].first + r[k-1].count)
             /\ k > 1 => r[k-1].endTime <= r[k].startTime
             /\ r[k].size \in Int /\ r[k].size <= reclen
       /\ left >= 0
       /\ left > 0 => left < Capacity(p, reclen)
       /\ r # <<>> =>
             /\ r[1].startTime = p.startTime \div Microsecond
             /\ left = 0 => r[Len(r)].endTime - (p.endTime \div Microsecond) \in -1..1

(* So many samples fit.                                                    *)
LEMMA CapacityFits ==
    ASSUME NEW p, NEW reclen \in Int, NEW count \in Nat,
           Capacity(p, reclen) >= 1, count <= Capacity(p, reclen)
    PROVE  /\ Capacity(p, reclen) \in Nat \ {0}
           /\ Header + count * Width(p.dataType) \in Int
           /\ Header + count * Width(p.dataType) <= reclen
<1> DEFINE w == Width(p.dataType)
           c == Capacity(p, reclen)
<1>1. w \in Nat \ {0}
  BY DEF Width
<1>2. Header \in Nat
  BY PacketAssumption
<1>3. c = (reclen - Header) \div w
  BY DEF Capacity
<1> HIDE DEF w, c
<1>4. c \in Int /\ w * c <= reclen - Header
  BY <1>1, <1>2, <1>3, Quotient
<1>5. w * count <= w * c /\ w * count \in Int /\ w * c \in Int
  BY <1>1, <1>4, Product DEF c
<1>6. count * w = w * count
  BY <1>1
<1>7. c \in Nat \ {0}
  BY <1>4 DEF c
<1>8. QED
  BY <1>2, <1>4, <1>5, <1>6, <1>7 DEF w, c

(* A list that has a length is not empty.                                  *)
LEMMA NotEmpty ==
    ASSUME NEW s, Len(s) # 0
    PROVE  s # <<>>
OBVIOUS

(* A list is one of its items.                                             *)
LEMMA ListOfItsItems ==
    ASSUME NEW n \in Nat, NEW r, r = [k \in 1..n |-> r[k]]
    PROVE  r \in Seq(Range(r))
<1>1. DOMAIN r = 1..n
  OBVIOUS
<1>2. \A k \in 1..n : r[k] \in Range(r)
  BY <1>1 DEF Range
<1> DEFINE R == Range(r)
<1> HIDE DEF R
<1>3. r \in [1..n -> R]
  BY <1>2 DEF R
<1>4. r \in Seq(R)
  BY <1>3
<1>5. QED
  BY <1>4 DEF R

(* A call without samples: no record, or a bare header.                    *)
LEMMA PacksNothing ==
    ASSUME NEW p, Sampled(p), p.samples = 0, p.endTime = EndTime(p),
           NEW reclen \in Int, Capacity(p, reclen) >= 1,
           NEW r \in {<<>>, <<msRecordHandler(p, 1, 0)>>}
    PROVE  Packs(p, reclen, r) /\ Packed(r) = p.samples
<1>1. CASE r = <<>>
  <2>1. Packed(r) = 0 /\ DOMAIN r = {} /\ r \in Seq(Range(r))
    BY <1>1 DEF Packed
  <2>2. QED
    BY <1>1, <2>1 DEF Packs
<1>2. CASE r = <<msRecordHandler(p, 1, 0)>>
  <2> DEFINE h == msRecordHandler(p, 1, 0)
  <2>1. /\ h.first = 1 /\ h.count = 0
        /\ h.size = Header + 0 * Width(p.dataType)
        /\ h.startTime = p.startTime \div Microsecond
        /\ h.endTime - (p.endTime \div Microsecond) \in -1..1
    <3>1. 1 \in Nat \ {0} /\ 0 \in Nat
      OBVIOUS
    <3>2. /\ h.startTime = p.startTime \div Microsecond
          /\ h.endTime - (p.endTime \div Microsecond) \in -1..1
      BY <3>1, FirstAndLast
    <3>3. /\ h.first = 1 /\ h.count = 0
          /\ h.size = Header + 0 * Width(p.dataType)
      BY RecordHolds
    <3>4. QED
      BY <3>2, <3>3
  <2>2. h.size \in Int /\ h.size <= reclen
    BY <2>1, CapacityFits
  <2> HIDE DEF h
  <2>3. r = <<h>>
    BY <1>2 DEF h
  <2>4. DOMAIN r = {1} /\ Len(r) = 1 /\ r[1] = h /\ r # <<>>
    BY <2>3
  <2>5. r \in Seq(Range(r))
    BY <2>3 DEF Range
  <2>6. Packed(r) = 0
    BY <2>1, <2>4 DEF Packed
  <2>7. QED
    BY <2>1, <2>2, <2>4, <2>5, <2>6 DEF Packs
<1>3. QED
  BY <1>1, <1>2

(* A call with samples: each record holds the next of them.                *)
LEMMA PacksSamples ==
    ASSUME NEW p, Sampled(p), p.samples > 0, p.endTime = EndTime(p),
           NEW reclen \in Int, Capacity(p, reclen) >= 1,
           NEW some \in Pieces(p.samples, Capacity(p, reclen)),
           NEW r, r = [k \in 1..some |->
                 msRecordHandler(p, First(Capacity(p, reclen), k),
                                 Piece(p.samples, Capacity(p, reclen), k))]
    PROVE  /\ Packs(p, reclen, r)
           /\ Packed(r) = IF some = p.samples \div Capacity(p, reclen)
                           THEN some * Capacity(p, reclen) ELSE p.samples
<1> DEFINE n == p.samples
           c == Capacity(p, reclen)
           m(k) == Piece(n, c, k)
           f(k) == First(c, k)
           h(k) == msRecordHandler(p, f(k), m(k))
<1>1. n \in Nat \ {0} /\ c \in Nat \ {0}
  BY CapacityFits DEF Sampled
<1>2. /\ n \div c \in Nat
      /\ c * (n \div c) <= n
      /\ n < c * (n \div c) + c
      /\ n % c = n - c * (n \div c)
  BY <1>1
<1>3. some \in Nat /\ (some = n \div c \/ (some = (n \div c) + 1 /\ n % c > 0))
  BY <1>1, <1>2 DEF Pieces
<1>4. DOMAIN r = 1..some /\ Len(r) = some /\ r \in Seq(Range(r))
  <2>1. DOMAIN r = 1..some /\ Len(r) = some
    BY <1>3
  <2>2. r = [k \in 1..some |-> r[k]]
    OBVIOUS
  <2>3. QED
    BY <1>3, <2>1, <2>2, ListOfItsItems
<1>5. ASSUME NEW k \in 1..some
      PROVE  /\ r[k] = h(k)
             /\ f(k) \in Nat \ {0}
             /\ m(k) \in Nat \ {0} /\ m(k) <= c
             /\ k < some => m(k) = c
             /\ k = some /\ some = n \div c => m(k) = c
             /\ k = some /\ some # n \div c => f(k) + m(k) - 1 = n
  <2>1. r[k] = h(k)
    BY <1>4
  <2>2. QED
    BY <1>1, <1>5, <2>1, PieceOf
<1>6. ASSUME NEW k \in 1..some
      PROVE  /\ r[k].first = f(k) /\ r[k].count = m(k)
             /\ r[k].size \in Int /\ r[k].size <= reclen
  <2>1. /\ h(k).first = f(k)
        /\ h(k).count = m(k)
        /\ h(k).size = Header + m(k) * Width(p.dataType)
    <3> HIDE DEF f, m
    <3>1. QED
      BY RecordHolds
  <2>2. /\ Header + m(k) * Width(p.dataType) \in Int
        /\ Header + m(k) * Width(p.dataType) <= reclen
    <3>1. m(k) \in Nat /\ m(k) <= c
      BY <1>5
    <3> HIDE DEF m
    <3>2. QED
      BY <3>1, CapacityFits
  <2>3. QED
    BY <1>5, <2>1, <2>2
<1>7. ASSUME NEW k \in 1..some, k > 1
      PROVE  /\ k - 1 \in 1..some
             /\ f(k) = f(k - 1) + m(k - 1)
  <2>1. k - 1 \in 1..some /\ k - 1 < some
    BY <1>3, <1>7
  <2>2. m(k - 1) = c
    BY <1>5, <2>1
  <2>3. f(k) = f(k - 1) + c
    BY <1>1, <1>3, <1>7 DEF First
  <2>4. QED
    BY <2>1, <2>2, <2>3
<1>8. ASSUME NEW k \in 1..some, k > 1
      PROVE  /\ r[k].first = r[k-1].first + r[k-1].count
             /\ r[k-1].endTime <= r[k].startTime
  <2> HIDE DEF n, c, m, f
  <2>1. k - 1 \in 1..some /\ f(k) = f(k - 1) + m(k - 1)
    BY <1>7, <1>8
  <2>2. r[k].first = r[k-1].first + r[k-1].count
    BY <1>6, <2>1
  <2>3. /\ f(k - 1) \in Nat \ {0} /\ m(k - 1) \in Nat \ {0} /\ m(k) \in Nat
        /\ r[k - 1] = h(k - 1) /\ r[k] = h(k)
    BY <1>5, <2>1
  <2>4. h(k - 1).endTime <= h(k).startTime
    BY <2>1, <2>3, NoOverlap
  <2>5. QED
    BY <2>2, <2>3, <2>4
<1>9. some > 0 => r[1].startTime = p.startTime \div Microsecond
  <2> SUFFICES ASSUME some > 0 PROVE r[1].startTime = p.startTime \div Microsecond
    OBVIOUS
  <2>1. 1 \in 1..some
    BY <1>3
  <2>2. f(1) = 1
    BY <1>1 DEF First
  <2> HIDE DEF n, c, m, f
  <2>3. m(1) \in Nat /\ r[1] = h(1) /\ 1 \in Nat \ {0}
    BY <1>5, <2>1
  <2>4. msRecordHandler(p, 1, m(1)).startTime = p.startTime \div Microsecond
    BY <2>3, FirstAndLast
  <2>5. QED
    BY <2>2, <2>3, <2>4
<1>10. Packed(r) = IF some = n \div c THEN some * c ELSE n
  <2>1. CASE some = 0
    <3>1. r = <<>>
      BY <1>4, <2>1
    <3>2. some = n \div c
      BY <1>2, <1>3, <2>1
    <3>3. QED
      BY <1>1, <2>1, <3>1, <3>2 DEF Packed
  <2>2. CASE some > 0
    <3>1. some \in 1..some
      BY <1>3, <2>2
    <3>2. r # <<>>
      <4>1. Len(r) # 0
        BY <1>3, <1>4, <2>2
      <4>2. QED
        BY <4>1, NotEmpty
    <3>3. Packed(r) = f(some) + m(some) - 1
      BY <1>4, <1>6, <3>1, <3>2 DEF Packed
    <3>4. CASE some = n \div c
      <4>1. m(some) = c
        BY <1>5, <3>1, <3>4
      <4>2. f(some) + c - 1 = some * c
        BY <1>1, <1>3 DEF First
      <4>3. QED
        BY <3>3, <3>4, <4>1, <4>2
    <3>5. CASE some # n \div c
      BY <1>5, <3>1, <3>3, <3>5
    <3>6. QED
      BY <3>4, <3>5
  <2>3. QED
    BY <1>3, <2>1, <2>2
<1>11. n - Packed(r) >= 0 /\ n - Packed(r) < c
  <2>1. some * c = c * some
    BY <1>1, <1>3
  <2>2. CASE some = n \div c
    BY <1>1, <1>2, <1>10, <2>1, <2>2
  <2>3. CASE some # n \div c
    BY <1>1, <1>10, <2>3
  <2>4. QED
    BY <2>2, <2>3
<1>12. ASSUME some > 0, n - Packed(r) = 0
       PROVE  r[Len(r)].endTime - (p.endTime \div Microsecond) \in -1..1
  <2>1. some \in 1..some /\ Len(r) = some /\ r # <<>>
    BY <1>3, <1>4, <1>12
  <2> HIDE DEF m, f
  <2>2. Packed(r) = f(some) + m(some) - 1
    BY <1>6, <2>1 DEF Packed
  <2>3. /\ f(some) \in Nat \ {0} /\ m(some) \in Nat /\ m(some) > 0
        /\ r[some] = h(some)
    BY <1>5, <2>1
  <2>4. f(some) + m(some) - 1 = p.samples
    BY <1>1, <1>12, <2>2, <2>3
  <2>5. h(some).endTime - (p.endTime \div Microsecond) \in -1..1
    BY <2>3, <2>4, FirstAndLast
  <2>6. QED
    BY <2>1, <2>3, <2>5
<1>13. r # <<>> => some > 0
  BY <1>3, <1>4
<1>14. \A k \in DOMAIN r :
             /\ r[k].first = (IF k = 1 THEN 1 ELSE r[k-1].first + r[k-1].count)
             /\ k > 1 => r[k-1].endTime <= r[k].startTime
             /\ r[k].size \in Int /\ r[k].size <= reclen
  <2> SUFFICES ASSUME NEW k \in 1..some
               PROVE  /\ r[k].first = (IF k = 1 THEN 1 ELSE r[k-1].first + r[k-1].count)
                      /\ k > 1 => r[k-1].endTime <= r[k].startTime
                      /\ r[k].size \in Int /\ r[k].size <= reclen
    BY <1>4
  <2>1. k = 1 \/ k > 1
    OBVIOUS
  <2>2. f(1) = 1
    BY <1>1 DEF First
  <2> HIDE DEF f, m
  <2>3. k = 1 => r[k].first = 1
    BY <1>6, <2>2
  <2>4. QED
    BY <1>6, <1>8, <2>1, <2>3
<1>15. QED
  BY <1>4, <1>9, <1>10, <1>11, <1>12, <1>13, <1>14 DEF Packs

(* What one call of msr3_pack makes; with the flag to flush, of all the    *)
(* samples.                                                                *)
LEMMA PackMakes ==
    ASSUME NEW p, Sampled(p), p.endTime = EndTime(p), NEW reclen \in Int, NEW flush,
           NEW r \in msr3_pack(p, reclen, flush)
    PROVE  /\ Packs(p, reclen, r)
           /\ Capacity(p, reclen) \in Nat \ {0}
           /\ flush => Packed(r) = p.samples
<1> DEFINE n == p.samples
           c == Capacity(p, reclen)
           full == n \div c
           some == IF flush /\ n % c > 0 THEN full + 1 ELSE full
           made == [k \in 1..some |-> msRecordHandler(p, First(c, k), Piece(n, c, k))]
<1>1. ~(c < 1) /\ c \in Int
  <2>1. Width(p.dataType) \in Nat \ {0} /\ Header \in Nat
    BY PacketAssumption DEF Width
  <2>2. QED
    BY <2>1 DEF msr3_pack, Capacity
<1>2. c \in Nat \ {0} /\ c >= 1
  BY <1>1
<1>3. CASE n = 0
  <2>1. r \in {<<>>, <<msRecordHandler(p, 1, 0)>>}
    BY <1>1, <1>3 DEF msr3_pack
  <2>2. QED
    BY <1>2, <1>3, <2>1, PacksNothing
<1>4. CASE n # 0
  <2>1. r = made
    BY <1>1, <1>4 DEF msr3_pack, First, Piece
  <2>2. n > 0 /\ n \in Nat
    BY <1>4 DEF Sampled
  <2>3. some \in Pieces(n, c)
    BY DEF Pieces
  <2> DEFINE s == some
             q == full
  <2>4. s \in Pieces(n, c) /\ r = [k \in 1..s |-> msRecordHandler(p, First(c, k), Piece(n, c, k))]
    BY <2>1, <2>3
  <2>5. flush => (s # q \/ n = q * c)
    <3>1. n % c = n - c * q /\ c * q = q * c /\ q \in Int /\ n % c \in Nat
      BY <1>2, <2>2
    <3>2. CASE flush /\ n % c > 0
      <4>1. s = q + 1
        BY <3>2
      <4>2. q \in Int
        BY <3>1
      <4> HIDE DEF s, q
      <4>3. s # q
        BY <4>1, <4>2
      <4>4. QED
        BY <4>3
    <3>3. CASE n % c = 0
      <4> DEFINE a == c * q
      <4>1. n % c = n - a /\ a = q * c /\ a \in Int
        BY <1>2, <3>1
      <4> HIDE DEF a
      <4>2. n = a
        BY <2>2, <3>3, <4>1
      <4>3. QED
        BY <4>1, <4>2
    <3>4. n % c > 0 \/ n % c = 0
      BY <3>1
    <3> HIDE DEF s, q
    <3>5. QED
      BY <3>2, <3>3, <3>4
  <2> HIDE DEF s
  <2>6. Packs(p, reclen, r) /\ Packed(r) = IF s = q THEN s * c ELSE n
    BY <1>2, <2>2, <2>4, PacksSamples
  <2>7. QED
    BY <1>2, <2>5, <2>6
<1>5. QED
  BY <1>3, <1>4

-----------------------------------------------------------------------------
(* What toDataLinkPackets makes. *)

(* RecordsFaithful, of any packet, writer and records.                     *)
Faithful(p, w, r) ==
    LET left == p.samples - Packed(r)
    IN /\ \A k \in DOMAIN r :
              /\ r[k].first = (IF k = 1 THEN 1 ELSE r[k-1].first + r[k-1].count)
              /\ k > 1 => r[k-1].endTime <= r[k].startTime
       /\ left >= 0
       /\ left > 0 =>
              /\ ~w.flush
              /\ left < Capacity(p, RecordLength(w.recordSize))
       /\ r # <<>> =>
              /\ r[1].startTime = p.startTime \div Microsecond
              /\ left = 0 => r[Len(r)].endTime - (p.endTime \div Microsecond) \in -1..1
       /\ w.recordSize \in 1..MaxDataLink =>
              \A k \in DOMAIN r : r[k].size <= MaxDataLink

(* One call decides: that of the first pass when it is kept, and otherwise *)
(* the one that flushes, whose records replace those of the first pass.    *)
LEMMA OneCall ==
    ASSUME NEW p, Sampled(p), p.endTime = EndTime(p), NEW size \in Int, NEW flush,
           NEW r \in toDataLinkPackets(p, size, flush)
    PROVE  LET reclen == RecordLength(size)
           IN  \/ r \in msr3_pack(p, reclen, TRUE)
               \/ ~flush /\ r \in msr3_pack(p, reclen, FALSE)
<1> DEFINE reclen == RecordLength(size)
<1>1. reclen \in Int
  BY PacketAssumption DEF RecordLength
<1> HIDE DEF reclen
<1>2. PICK first \in FirstPass(p, size, flush) :
          r \in IF ~flush /\ IsOkay(first) THEN {first} ELSE Flush(p, size, <<>>)
  BY DEF toDataLinkPackets
<1>3. CASE ~flush /\ IsOkay(first)
  <2>1. r = first /\ r # <<>>
    BY <1>2, <1>3 DEF IsOkay
  <2>2. r \in msr3_pack(p, reclen, FALSE)
    BY <1>3, <2>1 DEF FirstPass, reclen
  <2>3. QED
    BY <1>3, <2>2 DEF reclen
<1>4. CASE ~(~flush /\ IsOkay(first))
  <2>1. PICK made \in msr3_pack(p, reclen, TRUE) : r = <<>> \o made
    BY <1>2, <1>4 DEF Flush, reclen
  <2>2. made \in Seq(Range(made))
    BY <1>1, PackMakes DEF Packs
  <2>3. <<>> \o made = made
    BY <2>2
  <2>4. QED
    BY <2>1, <2>3 DEF reclen
<1>5. QED
  BY <1>3, <1>4

LEMMA RecordsOfPacket ==
    ASSUME NEW p, Sampled(p), p.endTime = EndTime(p), NEW w, w.recordSize \in Int,
           NEW r \in toDataLinkPackets(p, w.recordSize, w.flush)
    PROVE  Faithful(p, w, r)
<1> DEFINE reclen == RecordLength(w.recordSize)
           size == w.recordSize
<1>1. reclen \in Int /\ (size > 0 => reclen = size)
  BY PacketAssumption DEF RecordLength
<1>2. /\ Packs(p, reclen, r)
      /\ w.flush => Packed(r) = p.samples
  <2>1. \/ r \in msr3_pack(p, reclen, TRUE)
        \/ ~w.flush /\ r \in msr3_pack(p, reclen, FALSE)
    BY OneCall
  <2> HIDE DEF reclen
  <2>2. CASE r \in msr3_pack(p, reclen, TRUE)
    BY <1>1, <2>2, PackMakes
  <2>3. CASE ~w.flush /\ r \in msr3_pack(p, reclen, FALSE)
    BY <1>1, <2>3, PackMakes
  <2>4. QED
    BY <2>1, <2>2, <2>3
<1>3. p.samples - Packed(r) > 0 => ~w.flush
  BY <1>2 DEF Sampled
<1>4. ASSUME size \in 1..MaxDataLink, NEW k \in DOMAIN r
      PROVE  r[k].size <= MaxDataLink
  <2>1. /\ size \in Int /\ size <= MaxDataLink
        /\ r[k].size \in Int /\ r[k].size <= size
    BY <1>1, <1>2, <1>4, PacketAssumption DEF Packs
  <2>2. QED
    BY <2>1, PacketAssumption
<1>5. QED
  BY <1>2, <1>3, <1>4 DEF Faithful, Packs

-----------------------------------------------------------------------------
(* The inductive invariant. *)

(* What was sent is of the packet there is; its end time is current, its   *)
(* rate one of the rates, and the writers of the program are those of the  *)
(* .ini file, whose record lengths were checked.                           *)
FaithfulInv ==
    /\ DerivedInv
    /\ ConfiguredInv
    /\ packet.samplingRate \in Rates \cup {0}
    /\ RecordsFaithful

(* The property is Faithful, of what was sent.                             *)
LEMMA FaithfulIfMade ==
    RecordsFaithful <=> (sent.made => Faithful(packet, sent.writer, sent.records))
BY DEF RecordsFaithful, Faithful

(* What was forgotten is faithful.                                         *)
LEMMA NothingIsFaithful == (sent = NothingSent)' => RecordsFaithful'
BY DEF RecordsFaithful, NothingSent

(* What was sent stays so while the packet does.                           *)
LEMMA FaithfulWhileKept ==
    ASSUME RecordsFaithful, UNCHANGED <<sent, packet>>
    PROVE  RecordsFaithful'
BY DEF RecordsFaithful, Packed, Capacity, RecordLength

(* The setters leave the rate alone, or set it to one of the rates.        *)
LEMMA RateIsSet ==
    ASSUME NEW p \in Packets, p.samplingRate \in Rates \cup {0}
    PROVE  /\ \A r \in Rates : setSamplingRate(p, r).samplingRate \in Rates
           /\ \A t : setStartTime(p, t).samplingRate \in Rates \cup {0}
           /\ \A n, type : setData(p, n, type).samplingRate \in Rates \cup {0}
           /\ \A id : setStreamIdentifier(p, id).samplingRate \in Rates \cup {0}
           /\ clearPacket(p).samplingRate = 0
           /\ NoPacket.samplingRate = 0
<1>1. \A r \in Rates : setSamplingRate(p, r).samplingRate = r
  BY DEF Packets, setSamplingRate, updateEndTime
<1>2. \A t : setStartTime(p, t).samplingRate = p.samplingRate
  BY DEF Packets, setStartTime, updateEndTime
<1>3. \A n, type : setData(p, n, type).samplingRate = p.samplingRate
  BY DEF Packets, setData, updateEndTime
<1>4. \A id : setStreamIdentifier(p, id).samplingRate = p.samplingRate
  BY DEF Packets, setStreamIdentifier
<1>5. clearPacket(p).samplingRate = 0 /\ NoPacket.samplingRate = 0
  BY DEF clearPacket, NoPacket
<1>6. QED
  BY <1>1, <1>2, <1>3, <1>4, <1>5

(* toDataLinkPackets, with a record length that is a number.               *)
LEMMA FaithfulByPack ==
    ASSUME FaithfulInv, NEW w, w.recordSize \in Int, Pack(w)
    PROVE  RecordsFaithful' /\ UNCHANGED packet
<1>1. PICK r \in toDataLinkPackets(packet, w.recordSize, w.flush) :
          sent' = [made |-> TRUE, records |-> r, writer |-> w,
                   stream |-> toDataLinkIdentifier(packet.identifier)]
  BY DEF Pack
<1>2. CurrentPacket(packet) /\ packet.endTime = EndTime(packet)
  BY DEF FaithfulInv, DerivedInv, CurrentPacket
<1>3. Sampled(packet)
  <2>1. packet.samplingRate \in Rates
    BY DEF FaithfulInv, Pack, CanPack
  <2>2. packet.startTime \in Nat /\ packet.samples \in Nat
    BY <1>2 DEF CurrentPacket, Packets
  <2>3. QED
    BY <2>1, <2>2 DEF Sampled
<1>4. Faithful(packet, w, r)
  BY <1>2, <1>3, RecordsOfPacket
<1>5. sent'.writer = w /\ sent'.records = r
  BY <1>1
<1>6. packet' = packet
  BY DEF Pack
<1>7. Faithful(packet', sent'.writer, sent'.records)
  BY <1>4, <1>5, <1>6
<1>8. QED
  BY <1>6, <1>7 DEF RecordsFaithful, Faithful

LEMMA FaithfulInitially == Init => FaithfulInv
<1> SUFFICES ASSUME Init PROVE FaithfulInv
  OBVIOUS
<1>1. packet = NoPacket /\ sent = NothingSent
  BY DEF Init, ConversionInit
<1>2. packet.samplingRate = 0
  BY <1>1 DEF NoPacket
<1>3. RecordsFaithful
  BY <1>1 DEF RecordsFaithful, NothingSent
<1>4. QED
  BY <1>2, <1>3, DerivedInitially, ConfiguredInitially DEF FaithfulInv

(* The library.                                                            *)
LEMMA FaithfulByLibrary ==
    ASSUME FaithfulInv, LibraryNext
    PROVE  packet'.samplingRate \in Rates \cup {0} /\ RecordsFaithful'
<1>1. packet \in Packets /\ packet.samplingRate \in Rates \cup {0}
  BY DEF FaithfulInv, DerivedInv, CurrentPacket
<1>2. ASSUME NEW id, SetIdentifier(id)
      PROVE  packet'.samplingRate \in Rates \cup {0} /\ RecordsFaithful'
  BY <1>1, <1>2, NothingIsFaithful DEF SetIdentifier, NothingSent
<1>3. ASSUME NEW p, SetPacket(p), p.samplingRate \in Rates \cup {0}
      PROVE  packet'.samplingRate \in Rates \cup {0} /\ RecordsFaithful'
  BY <1>3, NothingIsFaithful DEF SetPacket, NothingSent
<1>4. CASE SetNetwork \/ SetStation \/ SetChannel \/ SetLocationCode \/ ClearIdentifier
  BY <1>2, <1>4 DEF SetNetwork, SetStation, SetChannel, SetLocationCode, ClearIdentifier
<1>5. CASE SetStreamIdentifier
  BY <1>1, <1>3, <1>5, RateIsSet DEF SetStreamIdentifier
<1>6. CASE SetSamplingRate
  BY <1>1, <1>3, <1>6, RateIsSet DEF SetSamplingRate
<1>7. CASE SetStartTime
  BY <1>1, <1>3, <1>7, RateIsSet DEF SetStartTime
<1>8. CASE SetData
  BY <1>1, <1>3, <1>8, RateIsSet DEF SetData
<1>9. CASE ClearPacket
  BY <1>1, <1>3, <1>9, RateIsSet DEF ClearPacket
<1>10. ASSUME NEW w \in LibraryWriters, Pack(w)
       PROVE  packet'.samplingRate \in Rates \cup {0} /\ RecordsFaithful'
  <2>1. PICK n \in LibrarySizes, f \in BOOLEAN : w = [recordSize |-> n, flush |-> f]
    BY DEF LibraryWriters
  <2>2. w.recordSize \in Int
    BY <2>1, ConversionAssumption
  <2>3. QED
    BY <1>1, <1>10, <2>2, FaithfulByPack
<1>11. QED
  BY <1>4, <1>5, <1>6, <1>7, <1>8, <1>9, <1>10 DEF LibraryNext, Library

(* The program: a packet that is handed on has the rate of its record.     *)
LEMMA FaithfulByProgram ==
    ASSUME FaithfulInv, Converts
    PROVE  packet'.samplingRate \in Rates \cup {0} /\ RecordsFaithful'
<1>1. packet \in Packets /\ packet.samplingRate \in Rates \cup {0} /\ RecordsFaithful
  BY DEF FaithfulInv, DerivedInv, CurrentPacket
<1>2. CASE Receive
  BY <1>1, <1>2, NothingIsFaithful DEF Receive, NothingSent
<1>3. CASE UnpackRecord \/ UnpackReturns \/ UnpackThrows
  <2>1. UNCHANGED <<sent, packet>>
    BY <1>3 DEF UnpackRecord, UnpackReturns, UnpackThrows, UnpackStops
  <2>2. QED
    BY <1>1, <2>1, FaithfulWhileKept
<1>4. CASE HandOn
  <2>1. packet' \in ReadablePackets
    BY <1>4 DEF HandOn, FaithfulInv, DerivedInv
  <2>2. PICK raw \in RawRecords : IsReadable(raw) /\ packet' = PacketOf(raw)
    BY <2>1 DEF ReadablePackets
  <2>3. packet'.samplingRate = raw.rate /\ raw.rate \in Rates \cup {0}
    BY <2>2, PacketOfRecord, ConversionAssumption
  <2>4. QED
    BY <1>4, <2>3, NothingIsFaithful DEF HandOn, NothingSent
<1>5. CASE BufferDone
  BY <1>1, <1>5, RateIsSet, NothingIsFaithful DEF BufferDone, NothingSent
<1>6. ASSUME NEW w \in Range(writers), Pack(w)
      PROVE  packet'.samplingRate \in Rates \cup {0} /\ RecordsFaithful'
  <2>1. RunsAsConfigured /\ phase = "running"
    BY ConfiguredSuffices DEF Converts, FaithfulInv
  <2>2. \A i \in DOMAIN writers : writers[i].recordSize \in 1..MaxRecordSize
    BY <2>1 DEF RunsAsConfigured
  <2>3. PICK i \in DOMAIN writers : w = writers[i]
    BY DEF Range
  <2>4. w.recordSize \in Int
    BY <2>2, <2>3
  <2>5. QED
    BY <1>1, <1>6, <2>4, FaithfulByPack
<1>7. QED
  BY <1>2, <1>3, <1>4, <1>5, <1>6 DEF Converts, ProgramNext

LEMMA FaithfulStep == FaithfulInv /\ [Next]_vars => FaithfulInv'
<1> SUFFICES ASSUME FaithfulInv, [Next]_vars
             PROVE  packet'.samplingRate \in Rates \cup {0} /\ RecordsFaithful'
  BY DerivedStep, ConfiguredStep DEF FaithfulInv
<1>1. packet \in Packets /\ packet.samplingRate \in Rates \cup {0} /\ RecordsFaithful
  BY DEF FaithfulInv, DerivedInv, CurrentPacket
<1>2. CASE UNCHANGED conversionVars
  <2>1. UNCHANGED <<sent, packet>>
    BY <1>2 DEF conversionVars
  <2>2. QED
    BY <1>1, <2>1, FaithfulWhileKept
<1>3. CASE packet' = NoPacket /\ sent' = NothingSent
  BY <1>1, <1>3, RateIsSet, NothingIsFaithful DEF NothingSent
<1>4. CASE UsesLibrary
  BY <1>4, FaithfulByLibrary DEF UsesLibrary
<1>5. CASE Converts
  BY <1>5, FaithfulByProgram
<1>6. CASE Main
  BY <1>2, <1>3, <1>6 DEF Main
<1>7. QED
  BY <1>2, <1>4, <1>5, <1>6 DEF Next, vars

(* Whatever packet, by whatever calls, and whatever record length: the     *)
(* records hold its samples, each once and in order, and all of them when  *)
(* the writer flushes; their times follow one another and are those of the *)
(* packet; and with a length the options accept they fit into DataLink.    *)
THEOREM RecordsAlwaysFaithful == Spec => []RecordsFaithful
<1>1. FaithfulInv => RecordsFaithful
  BY DEF FaithfulInv
<1>2. QED
  BY <1>1, FaithfulInitially, FaithfulStep, PTL DEF Spec

=============================================================================
