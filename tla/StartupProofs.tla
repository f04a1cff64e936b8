----------------------------- MODULE StartupProofs -----------------------------
(***************************************************************************)
(* What runs is what the .ini file says, for every value of the constants: *)
(* the options are those of the file, the constructor of Process connects  *)
(* a writer for each of theirs, and initialize() tries every selector.     *)
(***************************************************************************)
EXTENDS Program, FiniteSetTheorems, WellFoundedInduction, TLAPS

-----------------------------------------------------------------------------
(* The inductive invariant. *)

WithLogger ==
    {"metrics", "process", "selectors", "ping", "start", "running"}
WithMetrics == WithLogger \ {"metrics"}
WithClient == WithMetrics \ {"process"}

(* The requests of the first n selectors of the options.                   *)
RequestsTo(n) == {Request(options.client.selectors[i]) : i \in 1..n}

(* A client, with what only the selectors change.                          *)
ClientWith(tried, streams, refused, all) ==
    [exists |-> TRUE, tried |-> tried, streams |-> streams, refused |-> refused,
     allStations |-> all, stateFile |-> options.client.stateFile,
     interval |-> options.client.interval,
     deleteOnStop |-> options.client.deleteOnStop]

(* The options are those of the file, or those without one.                *)
OptionsInv == options = DefaultOptions \/ (ini \in Inis /\ options \in parseIniFile)

ProvidersInv ==
    /\ phase = "metrics" => "metrics" \notin providers
    /\ phase \in WithLogger => ("logs" \in providers <=> options.logs)
    /\ phase \in WithMetrics => ("metrics" \in providers <=> options.metrics)

(* The writers are connected in the order of their options.                *)
ConnectedInv ==
    /\ phase \in {"logger", "metrics"} => writers = <<>>
    /\ phase = "process" =>
           /\ writers \in Seq(Range(options.writers))
           /\ Len(writers) <= Len(options.writers)
           /\ \A i \in 1..Len(writers) : writers[i] = options.writers[i]
    /\ phase \in WithClient => writers = options.writers /\ writers # <<>>

(* Every selector that was tried was taken or refused.                     *)
SelectorsInv ==
    phase \in WithClient =>
        /\ client = ClientWith(client.tried, client.streams, client.refused,
                               client.allStations)
        /\ client.tried \in Nat
        /\ client.tried <= Len(options.client.selectors)
        /\ client.streams \cup client.refused = RequestsTo(client.tried)
        /\ client.streams \cap client.refused = {}
        /\ phase # "selectors" =>
               /\ client.tried = Len(options.client.selectors)
               /\ client.allStations <=> client.streams = {}

ConfiguredInv ==
    /\ phase \in {"commandLine", "iniFile"} =>
           ini \in Inis /\ writers = <<>> /\ options = DefaultOptions
    /\ OptionsInv /\ ProvidersInv /\ ConnectedInv /\ SelectorsInv
-----------------------------------------------------------------------------
(* Lists of lists. *)

(* A set of numbers that is not empty has a least one.                     *)
LEMMA LeastNumber ==
    ASSUME NEW T, T \subseteq Nat, T # {}
    PROVE  \E x \in T : \A y \in T : x <= y
<1> DEFINE R == OpToRel(<, Nat)
<1>1. IsWellFoundedOn(R, Nat)
  BY NatLessThanWellFounded
<1>2. PICK x \in T : \A y \in T : ~(<<y, x>> \in R)
  <2> HIDE DEF R
  <2>1. QED
    BY <1>1, WFMin
<1>3. \A y \in T : y < x => <<y, x>> \in R
  BY DEF OpToRel
<1>4. \A y \in T : ~(y < x)
  <2> HIDE DEF R
  <2>1. QED
    BY <1>2, <1>3, Zenon
<1>5. \A y \in T : x <= y
  BY <1>4
<1>6. QED
  BY <1>5

(* f[i] is what the first i lists are in a row.                            *)
Flattens(f, seqs, n) ==
    \A i \in 1..n : f[i] = IF i = 1 THEN seqs[i] ELSE f[i - 1] \o seqs[i]

(* Such an f exists for any number of the lists: else for a least one.     *)
LEMMA FlattenExists ==
    ASSUME NEW S, NEW seqs \in Seq(Seq(S))
    PROVE  \A n \in 1..Len(seqs) : \E f \in [1..n -> Seq(S)] : Flattens(f, seqs, n)
<1> DEFINE Bad == {n \in 1..Len(seqs) : ~\E f \in [1..n -> Seq(S)] : Flattens(f, seqs, n)}
<1> SUFFICES ASSUME Bad # {} PROVE FALSE
  OBVIOUS
<1>1. PICK n \in Bad : \A m \in Bad : n <= m
  <2>1. Bad \subseteq Nat
    OBVIOUS
  <2> HIDE DEF Bad
  <2>2. QED
    BY <2>1, LeastNumber
<1>2. n \in Nat /\ 1 <= n /\ n <= Len(seqs) /\ seqs[n] \in Seq(S)
  OBVIOUS
<1>3. CASE n = 1
  <2> DEFINE f == [i \in 1..1 |-> seqs[i]]
  <2>1. f \in [1..1 -> Seq(S)] /\ Flattens(f, seqs, 1)
    BY <1>2, <1>3 DEF Flattens
  <2>2. QED
    BY <1>1, <1>3, <2>1
<1>4. CASE n # 1
  <2>1. n - 1 \in 1..Len(seqs) /\ ~(n <= n - 1)
    BY <1>2, <1>4
  <2>2. PICK f \in [1..(n - 1) -> Seq(S)] : Flattens(f, seqs, n - 1)
    <3>1. n - 1 \notin Bad
      <4> HIDE DEF Bad
      <4>1. QED
        BY <1>1, <2>1
    <3>2. QED
      BY <2>1, <3>1
  <2> DEFINE g == [i \in 1..n |-> IF i = n THEN f[n - 1] \o seqs[n] ELSE f[i]]
  <2>3. f[n - 1] \o seqs[n] \in Seq(S)
    <3>1. f[n - 1] \in Seq(S)
      BY <1>2, <1>4, <2>2
    <3>2. QED
      BY <3>1, <1>2
  <2>4. g \in [1..n -> Seq(S)]
    <3>1. ASSUME NEW i \in 1..n, i # n PROVE f[i] \in Seq(S)
      BY <1>2, <2>2, <3>1
    <3> HIDE DEF Bad
    <3>2. QED
      BY <2>3, <3>1
  <2>5. Flattens(g, seqs, n)
    <3> SUFFICES ASSUME NEW i \in 1..n
                 PROVE  g[i] = IF i = 1 THEN seqs[i] ELSE g[i - 1] \o seqs[i]
      BY DEF Flattens
    <3>1. CASE i = n
      <4>1. n - 1 \in 1..n /\ n - 1 # n /\ n \in 1..n
        BY <1>2, <1>4
      <4>2. g[n] = f[n - 1] \o seqs[n] /\ g[n - 1] = f[n - 1]
        BY <1>2, <4>1
      <4>3. QED
        BY <1>4, <3>1, <4>2
    <3>2. CASE i # n
      <4>1. i \in 1..(n - 1)
        BY <1>2, <3>2
      <4>2. f[i] = IF i = 1 THEN seqs[i] ELSE f[i - 1] \o seqs[i]
        BY <2>2, <4>1 DEF Flattens
      <4>3. g[i] = f[i] /\ (i # 1 => g[i - 1] = f[i - 1])
        BY <1>2, <3>2
      <4>4. QED
        BY <4>2, <4>3
    <3>3. QED
      BY <3>1, <3>2
  <2>6. QED
    BY <1>1, <2>4, <2>5
<1>5. QED
  BY <1>3, <1>4

(* Lists in a row are a list: what FlattenSeq chooses is such an f.        *)
LEMMA FlattenSeqType ==
    ASSUME NEW S, NEW seqs \in Seq(Seq(S))
    PROVE  FlattenSeq(seqs) \in Seq(S)
<1>1. CASE Len(seqs) = 0
  <2>1. seqs = <<>> /\ FlattenSeq(seqs) = seqs
    BY <1>1 DEF FlattenSeq
  <2>2. <<>> \in Seq(S)
    OBVIOUS
  <2>3. QED
    BY <2>1, <2>2
<1>2. CASE Len(seqs) # 0
  <2> DEFINE n == Len(seqs)
  <2> DEFINE Made(f) == [i \in 1..n |-> IF i = 1 THEN seqs[i] ELSE f[i - 1] \o seqs[i]]
  <2> DEFINE flat == CHOOSE f : f = Made(f)
  <2>1. n \in Nat /\ 1 <= n /\ n \in 1..n
    BY <1>2
  <2>2. PICK f \in [1..n -> Seq(S)] : Flattens(f, seqs, n)
    BY <2>1, FlattenExists
  <2>3. f = Made(f)
    BY <2>2 DEF Flattens
  <2>4. flat = Made(flat)
    <3> HIDE DEF Made
    <3>1. QED
      BY <2>3
  <2>5. FlattenSeq(seqs) = flat[n]
    BY <1>2 DEF FlattenSeq
  <2> HIDE DEF flat
  <2>6. \A i \in 1..n : flat[i] = IF i = 1 THEN seqs[i] ELSE flat[i - 1] \o seqs[i]
    BY <2>4
  <2> DEFINE Bad == {i \in 1..n : flat[i] \notin Seq(S)}
  <2>7. ASSUME Bad # {} PROVE FALSE
    <3>1. PICK m \in Bad : \A i \in Bad : m <= i
      <4>1. Bad \subseteq Nat
        OBVIOUS
      <4> HIDE DEF Bad
      <4>2. QED
        BY <2>7, <4>1, LeastNumber
    <3>2. m \in 1..n /\ m \in Nat /\ 1 <= m /\ m <= n /\ seqs[m] \in Seq(S)
      OBVIOUS
    <3>3. m # 1 => flat[m - 1] \in Seq(S)
      <4>1. ASSUME m # 1 PROVE m - 1 \in 1..n /\ m - 1 \notin Bad
        BY <2>1, <3>1, <3>2, <4>1
      <4>2. QED
        BY <4>1
    <3>4. flat[m] \in Seq(S)
      <4> HIDE DEF Bad, Made
      <4>1. CASE m = 1
        BY <2>6, <3>2, <4>1
      <4>2. CASE m # 1
        <5>1. flat[m] = flat[m - 1] \o seqs[m]
          BY <2>6, <3>2, <4>2
        <5>2. QED
          BY <5>1, <3>2, <3>3, <4>2
      <4>3. QED
        BY <4>1, <4>2
    <3>5. QED
      BY <3>1, <3>4
  <2>8. QED
    BY <2>1, <2>5, <2>7
<1>3. QED
  BY <1>1, <1>2

-----------------------------------------------------------------------------
(* What the options of a file are. *)

(* The selectors of the file are one list.                                 *)
LEMMA SelectorLinesType ==
    ASSUME ini \in Inis
    PROVE  /\ Len(SelectorLines) \in Nat
           /\ DOMAIN SelectorLines = 1..Len(SelectorLines)
<1>1. SelectorLines \in Seq(Seq(DOMAIN Capital))
  BY StartupAssumption, FlattenSeqType DEF SelectorLines
<1>2. QED
  BY <1>1

(* The numbered sections that are looked at are those before the first gap.*)
LEMMA SectionsBeforeGap ==
    ASSUME ini \in Inis
    PROVE  LET n == Cardinality(NumberedSections)
           IN  /\ n \in Nat /\ n <= Len(ini.numbered)
               /\ \A i \in 1..n : ini.numbered[i] # "absent"
               /\ n < Len(ini.numbered) => ini.numbered[n + 1] = "absent"
<1> DEFINE m == Len(ini.numbered)
           Gaps == {i \in 1..m : ini.numbered[i] = "absent"}
           IsEnd(n) == /\ n <= m /\ \A i \in 1..n : i \notin Gaps
                       /\ n < m => n + 1 \in Gaps
<1>1. m \in Nat /\ DOMAIN ini.numbered = 1..m
  BY StartupAssumption
<1>2. ASSUME NEW n \in Nat, IsEnd(n)
      PROVE  /\ Cardinality(NumberedSections) = n
             /\ \A i \in 1..n : ini.numbered[i] # "absent"
             /\ n < m => ini.numbered[n + 1] = "absent"
  <2>1. NumberedSections = 1..n
    <3>1. ASSUME NEW i \in NumberedSections
          PROVE  i \in 1..n
      <4>1. i \in 1..m /\ \A j \in 1..i : ini.numbered[j] # "absent"
        BY <1>1 DEF NumberedSections
      <4>2. ~(n + 1 <= i)
        <5>1. ASSUME n + 1 <= i PROVE n + 1 \in 1..i /\ n < m
          BY <1>1, <4>1, <5>1
        <5>2. QED
          BY <1>2, <4>1, <5>1
      <4>3. QED
        BY <1>1, <4>1, <4>2
    <3>2. ASSUME NEW i \in 1..n
          PROVE  i \in NumberedSections
      <4>1. \A j \in 1..i : j \in 1..n /\ j \in 1..m
        BY <1>1, <1>2
      <4>2. \A j \in 1..i : ini.numbered[j] # "absent"
        BY <1>2, <4>1
      <4>3. QED
        BY <1>1, <1>2, <4>2 DEF NumberedSections
    <3>3. QED
      BY <3>1, <3>2
  <2>2. Cardinality(1..n) = n
    BY FS_Interval
  <2>3. QED
    BY <1>1, <1>2, <2>1, <2>2
<1>3. \E n \in Nat : IsEnd(n)
  <2>1. CASE Gaps = {}
    <3>1. m <= m /\ ~(m < m)
      BY <1>1
    <3> HIDE DEF Gaps
    <3>2. QED
      BY <1>1, <2>1, <3>1
  <2>2. CASE Gaps # {}
    <3>1. PICK g \in Gaps : \A h \in Gaps : g <= h
      <4>1. Gaps \subseteq Nat
        OBVIOUS
      <4> HIDE DEF Gaps
      <4>2. QED
        BY <2>2, <4>1, LeastNumber
    <3>2. g - 1 \in Nat /\ g - 1 <= m /\ (g - 1) + 1 = g
      BY <1>1
    <3>3. \A i \in 1..(g - 1) : ~(g <= i)
      BY <3>2
    <3> HIDE DEF Gaps
    <3>4. QED
      BY <3>1, <3>2, <3>3
  <2>3. QED
    BY <2>1, <2>2
<1>4. PICK n \in Nat : IsEnd(n)
  <2> HIDE DEF IsEnd
  <2>1. QED
    BY <1>3
<1>5. QED
  BY <1>2, <1>4

(* Whether the packets to a writer are flushed. *)
FlushGiven == Value(ini.flush, TRUE)

(* What getDataLinkOptions returns.                                        *)
LEMMA DataLinkOptions ==
    ASSUME ini \in Inis, NEW host, NEW section,
           NEW w \in getDataLinkOptions(host, section)
    PROVE  /\ host = "host"
           /\ w.section = section
           /\ w.recordSize \in 1..MaxRecordSize
           /\ ini.recordSize # Missing => w.recordSize = ini.recordSize
           /\ w.flush = FlushGiven
<1> DEFINE size == Value(ini.recordSize, MaxRecordSize)
<1>1. size \in Int
  BY StartupAssumption DEF Value
<1>2. /\ host = "host" /\ IsRecordSize(size)
      /\ w = [section |-> section, recordSize |-> size, flush |-> FlushGiven]
  <2> HIDE DEF size
  <2>1. w \in IF host = "host" /\ IsRecordSize(size)
               THEN {[section |-> section, recordSize |-> size, flush |-> FlushGiven]}
               ELSE {}
    BY DEF getDataLinkOptions, size, FlushGiven
  <2>2. QED
    BY <2>1
<1>3. size \in 1..MaxRecordSize
  BY <1>1, <1>2, StartupAssumption DEF IsRecordSize
<1>4. ini.recordSize # Missing => size = ini.recordSize
  BY DEF Value
<1> HIDE DEF size
<1>5. QED
  BY <1>2, <1>3, <1>4

(* What RunsAsConfigured says of the writers.                              *)
WritersAsConfigured(w) ==
    LET sections == {w[i].section : i \in DOMAIN w}
    IN /\ IF ini.single = "host" THEN sections = {0}
          ELSE /\ sections = 1..Len(w)
               /\ Len(w) < Len(ini.numbered) => ini.numbered[Len(w) + 1] = "absent"
       /\ \A i \in DOMAIN w :
              /\ w[i].section > 0 => ini.numbered[i] = "host"
              /\ w[i].recordSize \in 1..MaxRecordSize
              /\ ini.recordSize # Missing => w[i].recordSize = ini.recordSize
              /\ w[i].flush = FlushGiven

LEMMA WriterOptionsConfigured ==
    ASSUME ini \in Inis, NEW o \in WriterOptions
    PROVE  /\ Len(o) \in Nat /\ o \in Seq(Range(o))
           /\ WritersAsConfigured(o)
<1>1. CASE ini.single # "absent"
  <2>1. PICK w \in getDataLinkOptions(ini.single, 0) : o = <<w>>
    BY <1>1 DEF WriterOptions
  <2>2. /\ ini.single = "host"
        /\ w.section = 0
        /\ w.recordSize \in 1..MaxRecordSize
        /\ ini.recordSize # Missing => w.recordSize = ini.recordSize
        /\ w.flush = FlushGiven
    BY DataLinkOptions
  <2>3. Len(o) = 1 /\ DOMAIN o = {1} /\ o[1] = w
    BY <2>1
  <2>4. o \in Seq(Range(o))
    BY <2>1, <2>3 DEF Range
  <2>5. {o[i].section : i \in DOMAIN o} = {0}
    BY <2>2, <2>3
  <2>6. \A i \in DOMAIN o :
            /\ o[i].section > 0 => ini.numbered[i] = "host"
            /\ o[i].recordSize \in 1..MaxRecordSize
            /\ ini.recordSize # Missing => o[i].recordSize = ini.recordSize
            /\ o[i].flush = FlushGiven
    BY <2>2, <2>3
  <2>7. Len(o) \in Nat
    BY <2>3
  <2>8. WritersAsConfigured(o)
    BY <2>2, <2>5, <2>6, Zenon DEF WritersAsConfigured
  <2>9. QED
    BY <2>4, <2>7, <2>8
<1>2. CASE ini.single = "absent"
  <2> DEFINE n == Cardinality(NumberedSections)
             each == [i \in 1..n |-> getDataLinkOptions(ini.numbered[i], i)]
  <2>1. /\ n \in Nat
        /\ n < Len(ini.numbered) => ini.numbered[n + 1] = "absent"
    BY SectionsBeforeGap
  <2>2. /\ \A i \in 1..n : each[i] # {}
        /\ o = [i \in 1..n |-> CHOOSE w \in each[i] : TRUE]
    BY <1>2 DEF WriterOptions
  <2> HIDE DEF n
  <2>3. ASSUME NEW i \in 1..n
        PROVE  o[i] \in getDataLinkOptions(ini.numbered[i], i)
    <3>1. each[i] = getDataLinkOptions(ini.numbered[i], i)
      OBVIOUS
    <3> HIDE DEF each
    <3>2. o[i] \in each[i]
      BY <2>2
    <3>3. QED
      BY <3>1, <3>2
  <2>4. DOMAIN o = 1..n /\ o \in [1..n -> Range(o)]
    <3> HIDE DEF each
    <3>1. QED
      BY <2>2 DEF Range
  <2>5. o \in Seq(Range(o)) /\ Len(o) = n
    BY <2>1, <2>4
  <2>6. \A i \in 1..n :
            /\ ini.numbered[i] = "host"
            /\ o[i].section = i
            /\ o[i].recordSize \in 1..MaxRecordSize
            /\ ini.recordSize # Missing => o[i].recordSize = ini.recordSize
            /\ o[i].flush = FlushGiven
    BY <2>3, DataLinkOptions
  <2>7. {o[i].section : i \in DOMAIN o} = 1..n
    BY <2>4, <2>6
  <2>8. \A i \in DOMAIN o :
            /\ o[i].section > 0 => ini.numbered[i] = "host"
            /\ o[i].recordSize \in 1..MaxRecordSize
            /\ ini.recordSize # Missing => o[i].recordSize = ini.recordSize
            /\ o[i].flush = FlushGiven
    BY <2>4, <2>6, Zenon
  <2>9. /\ ini.single # "host"
        /\ {o[i].section : i \in DOMAIN o} = 1..Len(o)
        /\ Len(o) < Len(ini.numbered) => ini.numbered[Len(o) + 1] = "absent"
    BY <1>2, <2>1, <2>5, <2>7
  <2>10. WritersAsConfigured(o)
    BY <2>8, <2>9, Zenon DEF WritersAsConfigured
  <2>11. QED
    BY <2>1, <2>5, <2>10
<1>3. QED
  BY <1>1, <1>2

(* The selectors of the options are those of the file, none asked twice,   *)
(* and so is what becomes of the state file; the interval is the default.  *)
LinesGiven == IF ini.reader.host = "host" THEN SelectorLines ELSE <<>>

LEMMA ClientOptionsConfigured ==
    ASSUME ini \in Inis, NEW c \in ClientOptions
    PROVE  LET n == Len(c.selectors)
           IN  /\ n \in Nat
               /\ \A i, j \in 1..n :
                      i # j => Request(c.selectors[i]) # Request(c.selectors[j])
               /\ DOMAIN LinesGiven = 1..n
               /\ n = Len(LinesGiven)
               /\ \A i \in 1..n : c.selectors[i] = fromString(LinesGiven[i])
<1>1. CASE ini.reader.host = "absent"
  <2>1. c.selectors = <<>>
    BY <1>1 DEF ClientOptions, DefaultClient
  <2>2. Len(c.selectors) = 0 /\ LinesGiven = <<>>
    BY <1>1, <2>1 DEF LinesGiven
  <2>3. QED
    BY <1>1, <2>2
<1>2. CASE ini.reader.host # "absent"
  <2>1. c \in getSEEDLinkOptions
    BY <1>2 DEF ClientOptions
  <2>2. /\ NoneTwice
        /\ c.selectors = [i \in DOMAIN SelectorLines |-> fromString(SelectorLines[i])]
        /\ ini.reader.host # "empty"
    BY <2>1 DEF getSEEDLinkOptions, DefaultClient
  <2>3. Len(SelectorLines) \in Nat /\ DOMAIN SelectorLines = 1..Len(SelectorLines)
    BY SelectorLinesType
  <2>4. Len(c.selectors) = Len(SelectorLines)
    BY <2>2, <2>3
  <2>5. \A i \in 1..Len(SelectorLines) : c.selectors[i] = fromString(SelectorLines[i])
    BY <2>2, <2>3
  <2>6. \A i, j \in 1..Len(SelectorLines) :
            i # j => Request(c.selectors[i]) # Request(c.selectors[j])
    BY <2>2, <2>3, <2>5 DEF NoneTwice
  <2>7. LinesGiven = SelectorLines
    BY <1>2, <2>2, StartupAssumption DEF Sections, LinesGiven
  <2>8. QED
    BY <2>3, <2>4, <2>5, <2>6, <2>7
<1>3. QED
  BY <1>1, <1>2

StateFileAsConfigured(c) ==
    LET reader == ini.reader
        given == reader.host = "host"
    IN /\ c.stateFile = (given /\ reader.stateFile)
       /\ c.deleteOnStop =
              (given /\ reader.stateFile /\ Value(reader.deleteOnStop, FALSE))
       /\ c.interval = DefaultInterval

LEMMA StateFileOptionsConfigured ==
    ASSUME ini \in Inis, NEW c \in ClientOptions
    PROVE  StateFileAsConfigured(c)
<1>1. CASE ini.reader.host = "absent"
  <2>1. c = DefaultClient
    BY <1>1 DEF ClientOptions
  <2>2. c.stateFile = FALSE /\ c.deleteOnStop = FALSE /\ c.interval = DefaultInterval
    BY <2>1 DEF DefaultClient
  <2>3. QED
    BY <1>1, <2>2 DEF StateFileAsConfigured
<1>2. CASE ini.reader.host # "absent"
  <2>1. c \in getSEEDLinkOptions
    BY <1>2 DEF ClientOptions
  <2>2. /\ c.stateFile = ini.reader.stateFile
        /\ c.deleteOnStop = (ini.reader.stateFile /\ Value(ini.reader.deleteOnStop, FALSE))
        /\ c.interval = DefaultInterval
        /\ ini.reader.host # "empty"
    BY <2>1 DEF getSEEDLinkOptions, DefaultClient
  <2>3. /\ ini.reader.stateFile \in BOOLEAN
        /\ ini.reader.host = "host"
    BY <1>2, <2>2, StartupAssumption DEF Sections
  <2>4. QED
    BY <2>2, <2>3 DEF StateFileAsConfigured
<1>3. QED
  BY <1>1, <1>2

(* What a file that is parsed yields.                                      *)
LEMMA ParsedOptions ==
    ASSUME ini \in Inis, NEW o \in parseIniFile
    PROVE  /\ o.writers \in WriterOptions /\ o.writers # <<>>
           /\ o.client \in ClientOptions
           /\ o.metrics <=> Exports(ini.httpMetrics, ini.grpcMetrics)
           /\ o.logs <=> Exports(ini.httpLogs, ini.grpcLogs)
BY DEF parseIniFile

-----------------------------------------------------------------------------
(* The steps of main. *)

(* What the file yields depends on the file alone.                         *)
LEMMA ParsedAgain ==
    ASSUME UNCHANGED ini
    PROVE  parseIniFile' = parseIniFile
BY DEF parseIniFile, TelemetryThrows, WriterOptions, getDataLinkOptions,
       NumberedSections, ClientOptions, getSEEDLinkOptions, AllParse, NoneTwice,
       SelectorLines

(* A file, and options, that have writers.                                 *)
LEMMA WithWriters ==
    ASSUME OptionsInv, options.writers # <<>>
    PROVE  /\ ini \in Inis /\ options \in parseIniFile
           /\ options.writers \in WriterOptions /\ options.client \in ClientOptions
BY ParsedOptions DEF OptionsInv, DefaultOptions

(* Nothing is configured to start with.                                    *)
LEMMA ConfiguredInitially == Init => ConfiguredInv
BY DEF Init, StartupInit, StartupAt, ConfiguredInv, OptionsInv, ProvidersInv, ConnectedInv,
       SelectorsInv, WithLogger, WithMetrics, WithClient

(* Whatever leaves for the exit of main has nothing to keep.               *)
LEMMA ConfiguredAtExit ==
    ASSUME ConfiguredInv, phase' \in {"returning", "exited", "died"}, UNCHANGED <<ini, options>>
    PROVE  ConfiguredInv'
<1>1. OptionsInv'
  BY ParsedAgain DEF ConfiguredInv, OptionsInv
<1>2. ProvidersInv' /\ ConnectedInv' /\ SelectorsInv'
  BY DEF ProvidersInv, ConnectedInv, SelectorsInv, WithLogger, WithMetrics, WithClient
<1>3. QED
  BY <1>1, <1>2 DEF ConfiguredInv

(* The steps before the construction of Process.                           *)
LEMMA ConfiguredByFile ==
    ASSUME ConfiguredInv, ParseCommandLine \/ ReadIniFile
    PROVE  ConfiguredInv'
<1> USE DEF WithLogger, WithMetrics, WithClient
<1>1. CASE phase' = "returning" /\ UNCHANGED <<ini, options>>
  BY <1>1, ConfiguredAtExit
<1>2. CASE ParseCommandLine /\ phase' # "returning"
  <2>1. /\ phase = "commandLine" /\ phase' \in {"iniFile", "logger"}
        /\ UNCHANGED <<ini, options, providers, writers, client>>
    BY <1>2 DEF ParseCommandLine, Leave
  <2>2. QED
    BY <2>1 DEF ConfiguredInv, OptionsInv, ProvidersInv, ConnectedInv, SelectorsInv
<1>3. CASE ReadIniFile /\ phase' # "returning"
  <2>1. /\ phase = "iniFile" /\ phase' = "logger"
        /\ options' \in parseIniFile
        /\ UNCHANGED <<ini, providers, writers, client>>
    BY <1>3 DEF ReadIniFile, Leave
  <2>2. ini \in Inis /\ writers = <<>>
    BY <2>1 DEF ConfiguredInv
  <2>3. OptionsInv'
    BY <2>1, <2>2, ParsedAgain DEF OptionsInv
  <2>4. ProvidersInv' /\ ConnectedInv' /\ SelectorsInv'
    BY <2>1, <2>2 DEF ProvidersInv, ConnectedInv, SelectorsInv
  <2>5. QED
    BY <2>1, <2>3, <2>4 DEF ConfiguredInv
<1>4. QED
  BY <1>1, <1>2, <1>3 DEF ParseCommandLine, ReadIniFile, Leave

LEMMA ConfiguredByTelemetry ==
    ASSUME ConfiguredInv, InitializeLogger \/ InitializeMetrics
    PROVE  ConfiguredInv'
<1> USE DEF WithLogger, WithMetrics, WithClient
<1>1. OptionsInv'
  BY ParsedAgain DEF ConfiguredInv, OptionsInv, InitializeLogger, InitializeMetrics
<1>2. CASE InitializeLogger
  BY <1>1, <1>2 DEF InitializeLogger, ConfiguredInv, ProvidersInv, ConnectedInv, SelectorsInv
<1>3. CASE InitializeMetrics
  <2>1. /\ phase = "metrics" /\ phase' = "process"
        /\ providers' = IF options.metrics THEN providers \cup {"metrics"} ELSE providers
        /\ UNCHANGED <<options, writers>>
    BY <1>3 DEF InitializeMetrics
  <2>2. ProvidersInv'
    BY <2>1 DEF ConfiguredInv, ProvidersInv
  <2>3. ConnectedInv'
    BY <2>1 DEF ConfiguredInv, ConnectedInv
  <2>4. QED
    BY <1>1, <2>1, <2>2, <2>3 DEF ConfiguredInv, SelectorsInv
<1>4. QED
  BY <1>2, <1>3
(* The constructor of Process connects the writers one after the other.    *)
LEMMA ConfiguredByConnect ==
    ASSUME ConfiguredInv, Connect
    PROVE  ConfiguredInv'
<1> USE DEF WithLogger, WithMetrics, WithClient
<1> DEFINE o == options.writers
           n == Len(writers)
<1>1. /\ phase = "process" /\ n < Len(o)
      /\ writers' = Append(writers, o[n + 1])
      /\ UNCHANGED <<phase, ini, options, providers, client>>
  BY DEF Connect
<1>2. /\ writers \in Seq(Range(o)) /\ n \in Nat
      /\ \A i \in 1..n : writers[i] = o[i]
  BY <1>1 DEF ConfiguredInv, ConnectedInv
<1>3. o \in Seq(Range(o)) /\ Len(o) \in Nat
  <2>1. o # <<>>
    <3>1. Len(<<>>) = 0
      OBVIOUS
    <3>2. QED
      BY <1>1, <1>2, <3>1
  <2>2. QED
    BY <2>1, WithWriters, WriterOptionsConfigured DEF ConfiguredInv
<1>4. n + 1 \in 1..Len(o) /\ o[n + 1] \in Range(o)
  BY <1>1, <1>2, <1>3 DEF Range
<1> HIDE DEF o
<1>5. /\ writers' \in Seq(Range(o))
      /\ Len(writers') = n + 1
      /\ \A i \in 1..n + 1 : writers'[i] = o[i]
  BY <1>1, <1>2, <1>4
<1> USE DEF o
<1>6. ConnectedInv'
  BY <1>1, <1>2, <1>3, <1>5 DEF ConnectedInv
<1>7. OptionsInv'
  BY <1>1, ParsedAgain DEF ConfiguredInv, OptionsInv
<1>8. QED
  BY <1>1, <1>6, <1>7 DEF ConfiguredInv, ProvidersInv, SelectorsInv

(* initialize() starts with a client that has been told nothing.           *)
LEMMA ConfiguredByClient ==
    ASSUME ConfiguredInv, InitializeClient
    PROVE  ConfiguredInv'
<1> USE DEF WithLogger, WithMetrics, WithClient
<1> DEFINE o == options.writers
           n == Len(writers)
<1>1. /\ phase = "process" /\ writers # <<>> /\ n = Len(o)
      /\ phase' = "selectors"
      /\ client' = ClientWith(0, {}, {}, FALSE)
      /\ UNCHANGED <<ini, options, providers, writers>>
  BY DEF InitializeClient, AllConnected, ClientWith
<1>2. /\ writers \in Seq(Range(o)) /\ n \in Nat /\ n > 0
      /\ \A i \in 1..n : writers[i] = o[i]
  BY <1>1 DEF ConfiguredInv, ConnectedInv
<1>3. o \in Seq(Range(o)) /\ options.client \in ClientOptions /\ ini \in Inis
  <2>1. o # <<>>
    <3>1. Len(<<>>) = 0
      OBVIOUS
    <3>2. QED
      BY <1>1, <1>2, <3>1
  <2>2. QED
    BY <2>1, WithWriters, WriterOptionsConfigured DEF ConfiguredInv
<1>4. writers = o
  <2> HIDE DEF o
  <2>1. QED
    BY <1>1, <1>2, <1>3
<1>5. ConnectedInv'
  BY <1>1, <1>4 DEF ConnectedInv
<1>6. OptionsInv'
  BY <1>1, ParsedAgain DEF ConfiguredInv, OptionsInv
<1>7. SelectorsInv'
  <2>1. client'.tried = 0 /\ client'.streams = {} /\ client'.refused = {}
    BY <1>1 DEF ClientWith
  <2>2. client' = ClientWith(client.tried, client.streams, client.refused,
                             client.allStations)'
    BY <1>1 DEF ClientWith
  <2>3. RequestsTo(client.tried)' = {}
    BY <2>1 DEF RequestsTo
  <2>4. Len(options.client.selectors) \in Nat
    BY <1>3, ClientOptionsConfigured
  <2>5. /\ client'.tried \in Nat
        /\ client'.tried <= Len(options'.client.selectors)
        /\ client'.streams \cup client'.refused = RequestsTo(client.tried)'
        /\ client'.streams \cap client'.refused = {}
    <3>1. options' = options
      BY <1>1
    <3>2. QED
      BY <2>1, <2>3, <2>4, <3>1
  <2>6. QED
    BY <1>1, <2>2, <2>5 DEF SelectorsInv
<1>8. QED
  BY <1>1, <1>5, <1>6, <1>7 DEF ConfiguredInv, ProvidersInv

(* A client that is told something else is such a client again.            *)
LEMMA ClientTold ==
    ASSUME NEW new,
           client = ClientWith(client.tried, client.streams, client.refused,
                               client.allStations)
    PROVE  /\ [client EXCEPT !.tried = new]
                  = ClientWith(new, client.streams, client.refused, client.allStations)
           /\ [client EXCEPT !.allStations = new]
                  = ClientWith(client.tried, client.streams, client.refused, new)
<1> DEFINE e == TRUE
           t == client.tried
           s == client.streams
           r == client.refused
           a == client.allStations
           Told(tried, streams, refused, all) ==
               [exists |-> e, tried |-> tried, streams |-> streams,
                refused |-> refused, allStations |-> all,
                stateFile |-> options.client.stateFile,
                interval |-> options.client.interval,
                deleteOnStop |-> options.client.deleteOnStop]
<1>1. \A x1, x2, x3, x4 : ClientWith(x1, x2, x3, x4) = Told(x1, x2, x3, x4)
  BY DEF ClientWith
<1>2. client = Told(t, s, r, a)
  BY <1>1
<1> HIDE DEF e, t, s, r, a
<1>3. /\ [client EXCEPT !.tried = new] = Told(new, s, r, a)
      /\ [client EXCEPT !.allStations = new] = Told(t, s, r, new)
  BY <1>2
<1>4. QED
  BY <1>1, <1>3 DEF t, s, r, a

(* One more selector is one more request, of the server or refused by it.  *)
LEMMA ConfiguredBySelector ==
    ASSUME ConfiguredInv, AddSelector
    PROVE  ConfiguredInv'
<1> USE DEF WithLogger, WithMetrics, WithClient
<1> DEFINE n == client.tried
           request == Request(options.client.selectors[n + 1])
<1>1. /\ phase = "selectors" /\ n < Len(options.client.selectors)
      /\ UNCHANGED <<phase, ini, options, providers, writers>>
  BY DEF AddSelector
<1>2. /\ client = ClientWith(n, client.streams, client.refused, client.allStations)
      /\ n \in Nat
      /\ client.streams \cup client.refused = RequestsTo(n)
      /\ client.streams \cap client.refused = {}
  BY <1>1 DEF ConfiguredInv, SelectorsInv
<1>3. options.writers # <<>>
  BY <1>1 DEF ConfiguredInv, ConnectedInv
<1>4. /\ Len(options.client.selectors) \in Nat
      /\ \A i, j \in 1..Len(options.client.selectors) :
             i # j => Request(options.client.selectors[i])
                          # Request(options.client.selectors[j])
  BY <1>3, WithWriters, ClientOptionsConfigured DEF ConfiguredInv
<1>5. RequestsTo(n + 1) = RequestsTo(n) \cup {request} /\ request \notin RequestsTo(n)
  <2>1. n + 1 \in 1..Len(options.client.selectors)
    BY <1>1, <1>2, <1>4
  <2>2. ASSUME NEW i \in 1..n
        PROVE  i \in 1..Len(options.client.selectors) /\ i # n + 1
    BY <1>1, <1>2, <1>4
  <2>3. request \notin RequestsTo(n)
    BY <1>4, <2>1, <2>2 DEF RequestsTo
  <2>4. 1..n + 1 = (1..n) \cup {n + 1}
    BY <1>2
  <2>5. QED
    BY <2>3, <2>4 DEF RequestsTo
<1> HIDE DEF request
<1>6. \/ client' = ClientWith(n + 1, client.streams \cup {request}, client.refused,
                             client.allStations)
      \/ client' = ClientWith(n + 1, client.streams, client.refused \cup {request},
                             client.allStations)
  <2>1. LET next == [client EXCEPT !.tried = @ + 1]
        IN \/ client' = [next EXCEPT !.streams = @ \cup {request}]
           \/ client' = [next EXCEPT !.refused = @ \cup {request}]
    BY DEF AddSelector, request
  <2>2. [client EXCEPT !.tried = @ + 1]
            = ClientWith(n + 1, client.streams, client.refused, client.allStations)
    BY <1>2, ClientTold
  <2>3. QED
    BY <2>1, <2>2 DEF ClientWith
<1>7. SelectorsInv'
  <2>1. /\ client'.tried = n + 1
        /\ \/ /\ client'.streams = client.streams \cup {request}
              /\ client'.refused = client.refused
           \/ /\ client'.refused = client.refused \cup {request}
              /\ client'.streams = client.streams
    BY <1>6 DEF ClientWith
  <2>2. client' = ClientWith(client.tried, client.streams, client.refused,
                             client.allStations)'
    BY <1>1, <1>6 DEF ClientWith
  <2>3. RequestsTo(client.tried)' = RequestsTo(n) \cup {request}
    BY <1>1, <1>5, <2>1 DEF RequestsTo
  <2>4. /\ (client.streams \cup client.refused)' = RequestsTo(n) \cup {request}
        /\ (client.streams \cap client.refused)' = {}
    BY <1>2, <1>5, <2>1
  <2>5. client'.tried \in Nat /\ client'.tried <= Len(options.client.selectors)
    BY <1>1, <1>2, <1>4, <2>1
  <2>6. QED
    BY <1>1, <2>2, <2>3, <2>4, <2>5 DEF SelectorsInv
<1>8. OptionsInv'
  BY <1>1, ParsedAgain DEF ConfiguredInv, OptionsInv
<1>9. QED
  BY <1>1, <1>7, <1>8 DEF ConfiguredInv, ProvidersInv, ConnectedInv

(* Then uni-station mode, the ping and start().                            *)
LEMMA ConfiguredByStart ==
    ASSUME ConfiguredInv, SetStations \/ Ping \/ Start
    PROVE  ConfiguredInv'
<1> USE DEF WithLogger, WithMetrics, WithClient
<1>1. /\ UNCHANGED <<ini, options, providers, writers>>
      /\ phase \in {"selectors", "ping", "start"}
      /\ phase' \in {"ping", "start", "running"}
  BY DEF SetStations, SelectorsDone, AllTried, Ping, Start
<1>2. OptionsInv'
  BY <1>1, ParsedAgain DEF ConfiguredInv, OptionsInv
<1>3. SelectorsInv'
  <2>1. CASE SetStations
    <3>1. /\ client = ClientWith(client.tried, client.streams, client.refused,
                                 client.allStations)
          /\ client.tried = Len(options.client.selectors)
          /\ client' = [client EXCEPT !.allStations = (client.streams = {})]
      BY <2>1 DEF SetStations, SelectorsDone, AllTried, ConfiguredInv, SelectorsInv
    <3>2. client' = ClientWith(client.tried, client.streams, client.refused,
                               client.streams = {})
      <4>1. client = ClientWith(client.tried, client.streams, client.refused,
                                client.allStations)
        BY <3>1
      <4>2. ASSUME NEW all
            PROVE  [client EXCEPT !.allStations = all]
                       = ClientWith(client.tried, client.streams, client.refused, all)
        BY <4>1, ClientTold, Zenon
      <4>3. client' = [client EXCEPT !.allStations = (client.streams = {})]
        BY <3>1
      <4>4. QED
        BY <4>2, <4>3
    <3>3. /\ client'.tried = client.tried
          /\ client'.streams = client.streams
          /\ client'.refused = client.refused
          /\ client'.allStations = (client.streams = {})
      BY <3>2 DEF ClientWith
    <3>4. client' = ClientWith(client.tried, client.streams, client.refused,
                               client.allStations)'
      BY <1>1, <3>2, <3>3 DEF ClientWith
    <3>5. RequestsTo(client.tried)' = RequestsTo(client.tried)
      BY <1>1, <3>3 DEF RequestsTo
    <3>6. QED
      BY <1>1, <3>1, <3>3, <3>4, <3>5 DEF ConfiguredInv, SelectorsInv
  <2>2. CASE Ping \/ Start
    <3>1. client' = client /\ phase # "selectors"
      BY <2>2 DEF Ping, Start
    <3>2. QED
      BY <1>1, <3>1 DEF ConfiguredInv, SelectorsInv, ClientWith, RequestsTo
  <2>3. QED
    BY <2>1, <2>2
<1>4. ProvidersInv' /\ ConnectedInv'
  BY <1>1 DEF ConfiguredInv, ProvidersInv, ConnectedInv
<1>5. QED
  BY <1>1, <1>2, <1>3, <1>4 DEF ConfiguredInv

(* Every step of main keeps ConfiguredInv; no other step changes these     *)
(* variables.                                                              *)
LEMMA ConfiguredStep == ConfiguredInv /\ [Next]_vars => ConfiguredInv'
<1> SUFFICES ASSUME ConfiguredInv, [Next]_vars
             PROVE  ConfiguredInv'
  OBVIOUS
<1>1. CASE UNCHANGED startupVars
  <2>1. OptionsInv'
    BY <1>1, ParsedAgain DEF startupVars, ConfiguredInv, OptionsInv
  <2>2. ProvidersInv' /\ ConnectedInv' /\ SelectorsInv'
    BY <1>1 DEF startupVars, ConfiguredInv, ProvidersInv, ConnectedInv, SelectorsInv,
                ClientWith, RequestsTo
  <2>3. QED
    BY <1>1, <2>1, <2>2 DEF startupVars, ConfiguredInv
<1>2. CASE StartupNext
  <2>1. CASE \/ InitializeMetricsFails \/ NoWriters \/ ConnectFails \/ InitializeFails
             \/ StartFails \/ Finish \/ Return \/ InitializeLoggerFails \/ ReturnDies
    <3>1. phase' \in {"returning", "exited", "died"} /\ UNCHANGED <<ini, options>>
      BY <2>1 DEF InitializeMetricsFails, MetricsFail, NoWriters, ConnectFails,
         InitializeFails, StartFails, Finish, Return, InitializeLoggerFails,
         ReturnDies, ProcessFails, Leave
    <3>2. QED
      BY <3>1, ConfiguredAtExit
  <2>2. QED
    BY <1>2, <2>1, ConfiguredByFile, ConfiguredByTelemetry, ConfiguredByConnect,
       ConfiguredByClient, ConfiguredBySelector, ConfiguredByStart DEF StartupNext
<1>3. QED
  BY <1>1, <1>2 DEF Next, UsesLibrary, Converts, Main, vars, startupVars

-----------------------------------------------------------------------------
(* The theorem. *)

(* The requests of the lines are as many as the lines, if none is twice.   *)
LEMMA RequestsCounted ==
    ASSUME NEW n \in Nat, NEW f, f = [i \in 1..n |-> f[i]],
           \A i, j \in 1..n : i # j => f[i] # f[j]
    PROVE  Cardinality({f[i] : i \in 1..n}) = n
<1> DEFINE T == {f[i] : i \in 1..n}
<1>1. IsFiniteSet(1..n) /\ Cardinality(1..n) = n
  BY FS_Interval
<1>2. f \in [1..n -> T]
  OBVIOUS
<1>3. ExistsBijection(1..n, T)
  <2>1. f \in Bijection(1..n, T)
    BY <1>2 DEF Bijection, Injection, Surjection, IsInjective
  <2>2. QED
    BY <2>1 DEF ExistsBijection
<1>4. QED
  BY <1>1, <1>3, FS_Bijection

(* What is running is what the file says.                                  *)
LEMMA ConfiguredSuffices == ConfiguredInv => RunsAsConfigured
<1> SUFFICES ASSUME ConfiguredInv, phase = "running"
             PROVE  RunsAsConfigured
  BY DEF RunsAsConfigured
<1> DEFINE lines == LinesGiven
           requests == {Request(fromString(line)) : line \in Range(LinesGiven)}
<1>1. /\ OptionsInv /\ ProvidersInv /\ ConnectedInv /\ SelectorsInv
      /\ phase \in WithLogger /\ phase \in WithMetrics /\ phase \in WithClient
      /\ phase # "selectors"
  BY DEF ConfiguredInv, WithLogger, WithMetrics, WithClient
<1>2. writers = options.writers /\ writers # <<>>
  BY <1>1 DEF ConnectedInv
<1>3. /\ ini \in Inis /\ options \in parseIniFile
      /\ writers \in WriterOptions /\ options.client \in ClientOptions
  BY <1>1, <1>2, WithWriters
<1>4. WritersAsConfigured(writers)
  BY <1>3, WriterOptionsConfigured
<1>5. /\ "logs" \in providers <=> Exports(ini.httpLogs, ini.grpcLogs)
      /\ "metrics" \in providers <=> Exports(ini.httpMetrics, ini.grpcMetrics)
  BY <1>1, <1>3, ParsedOptions DEF ProvidersInv
<1>6. /\ client.streams \cup client.refused = RequestsTo(Len(options.client.selectors))
      /\ client.streams \cap client.refused = {}
      /\ client.allStations <=> client.streams = {}
  BY <1>1 DEF SelectorsInv
<1>7. /\ RequestsTo(Len(options.client.selectors)) = requests
      /\ Cardinality(requests) = Len(lines)
  <2> DEFINE n == Len(lines)
             f == [i \in 1..n |-> Request(options.client.selectors[i])]
  <2>1. /\ n = Len(options.client.selectors) /\ n \in Nat /\ DOMAIN lines = 1..n
        /\ \A i, j \in 1..n :
               i # j => Request(options.client.selectors[i])
                            # Request(options.client.selectors[j])
        /\ \A i \in 1..n : options.client.selectors[i] = fromString(lines[i])
    BY <1>3, ClientOptionsConfigured
  <2> HIDE DEF n, lines
  <2>2. Cardinality({f[i] : i \in 1..n}) = n
    <3>1. f = [i \in 1..n |-> f[i]] /\ n \in Nat
      BY <2>1
    <3>2. \A i, j \in 1..n : i # j => f[i] # f[j]
      BY <2>1
    <3> HIDE DEF f
    <3>3. QED
      BY <3>1, <3>2, RequestsCounted
  <2>3. {f[i] : i \in 1..n} = RequestsTo(n)
    BY DEF RequestsTo
  <2>4. RequestsTo(n) = {Request(fromString(line)) : line \in Range(lines)}
    BY <2>1 DEF RequestsTo, Range
  <2>5. QED
    BY <2>1, <2>2, <2>3, <2>4 DEF n, lines
<1>8. StateFileAsConfigured(client)
  <2>1. client = ClientWith(client.tried, client.streams, client.refused,
                            client.allStations)
    BY <1>1 DEF SelectorsInv
  <2>2. /\ client.stateFile = options.client.stateFile
        /\ client.deleteOnStop = options.client.deleteOnStop
        /\ client.interval = options.client.interval
    BY <2>1 DEF ClientWith
  <2>3. QED
    BY <1>3, <2>2, StateFileOptionsConfigured DEF StateFileAsConfigured
<1>9. QED
  BY <1>4, <1>5, <1>6, <1>7, <1>8
     DEF RunsAsConfigured, WritersAsConfigured, StateFileAsConfigured, LinesGiven,
         FlushGiven

(* Once the program runs, its writers, its streams, what becomes of its    *)
(* state file and its telemetry are those of the .ini file, for every file *)
(* and whatever the server refuses; only the update interval is not.       *)
THEOREM AlwaysRunsAsConfigured == Spec => []RunsAsConfigured
BY ConfiguredSuffices, ConfiguredInitially, ConfiguredStep, PTL DEF Spec

=============================================================================
