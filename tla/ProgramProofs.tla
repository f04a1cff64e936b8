----------------------------- MODULE ProgramProofs -----------------------------
(***************************************************************************)
(* Three properties of Program for every value of the constants: what is   *)
(* kept beside the fields it is computed from is current after every       *)
(* sequence of calls; a buffer is handed on whole and unchanged or not at  *)
(* all; and nothing that main initialised survives it.                     *)
(***************************************************************************)
EXTENDS Program, TLAPS

AllCodes == Codes \cup Locations \cup {"", "--"}
Strings == Seq(AllCodes)

Identifiers ==
    [network : AllCodes, station : AllCodes, channel : AllCodes,
     locationCode : AllCodes, hasLocationCode : BOOLEAN, string : Strings]

PacketTypes == DataTypes \cup {"Unknown"}

Packets ==
    [hasIdentifier : BOOLEAN, identifier : Identifiers, samplingRate : Nat,
     startTime : Nat, endTime : Int, samples : Nat, dataType : PacketTypes]

CurrentIdentifier(id) ==
    /\ id \in Identifiers
    /\ id.string = StringOf(id)

CurrentPacket(p) ==
    /\ p \in Packets
    /\ p.endTime = EndTime(p)
    /\ CurrentIdentifier(p.identifier)
    /\ p.hasIdentifier => IsComplete(p.identifier)

(* What the unpacking makes of the records it can read. *)
ReadablePackets == {PacketOf(raw) : raw \in {r \in RawRecords : IsReadable(r)}}

(* DerivedCurrent, and that what is yet to be handed on was unpacked from  *)
(* records that could be read: each of those becomes the packet.           *)
DerivedInv ==
    /\ CurrentIdentifier(identifier)
    /\ CurrentPacket(packet)
    /\ buffer \in Seq(RawRecords)
    /\ unpacked \in Seq(ReadablePackets)
    /\ handed \in Nat

-----------------------------------------------------------------------------
(* Identifiers. *)

(* The two codes that no constant has, and the empty string.               *)
LEMMA FixedCodes == "" \in AllCodes /\ "--" \in AllCodes /\ <<>> \in Strings
<1>1. "" \in AllCodes /\ "--" \in AllCodes
  BY DEF AllCodes
<1>2. <<>> \in Strings
  BY DEF Strings
<1>3. QED
  BY <1>1, <1>2

(* The string is a sequence of codes.                                      *)
LEMMA StringType ==
    ASSUME NEW id \in Identifiers
    PROVE  StringOf(id) \in Strings
<1>1. /\ id.network \in AllCodes
      /\ id.station \in AllCodes
      /\ id.channel \in AllCodes
      /\ id.locationCode \in AllCodes
  BY DEF Identifiers
<1>2. <<id.network, id.station, id.channel>> \in Seq(AllCodes)
  BY <1>1
<1>3. <<id.locationCode>> \in Seq(AllCodes)
  BY <1>1
<1> DEFINE tail == IF isEmpty(id.locationCode) THEN <<>> ELSE <<id.locationCode>>
           head == <<id.network, id.station, id.channel>>
<1>4. tail \in Seq(AllCodes)
  BY <1>3
<1>5. head \o tail \in Seq(AllCodes)
  <2> HIDE DEF tail, head
  <2>1. head \in Seq(AllCodes)
    BY <1>2 DEF head
  <2>2. QED
    BY <2>1, <1>4
<1>6. StringOf(id) = IF ~IsComplete(id) THEN <<>> ELSE head \o tail
  BY DEF StringOf
<1>7. QED
  <2> HIDE DEF tail, head
  <2>1. QED
    BY <1>5, <1>6, FixedCodes DEF Strings

(* setString makes the string of any identifier current and changes        *)
(* nothing else.                                                           *)
LEMMA StringIsSet ==
    ASSUME NEW id \in Identifiers
    PROVE  /\ CurrentIdentifier(setString(id))
           /\ setString(id).network = id.network
           /\ setString(id).station = id.station
           /\ setString(id).channel = id.channel
           /\ setString(id).locationCode = id.locationCode
           /\ setString(id).hasLocationCode = id.hasLocationCode
<1> DEFINE new == setString(id)
<1>1. new \in Identifiers
  BY StringType DEF Identifiers, setString
<1>2. /\ new.network = id.network
      /\ new.station = id.station
      /\ new.channel = id.channel
      /\ new.locationCode = id.locationCode
      /\ new.hasLocationCode = id.hasLocationCode
      /\ new.string = StringOf(id)
  BY DEF Identifiers, setString
<1> HIDE DEF new
<1>3. StringOf(new) = StringOf(id)
  BY <1>2 DEF StringOf, IsComplete
<1>4. QED
  BY <1>1, <1>2, <1>3 DEF CurrentIdentifier, new

(* A text is a code once its blanks are removed.                           *)
LEMMA TextType ==
    ASSUME NEW t \in LibraryTexts
    PROVE  convertString(t) \in AllCodes
BY DEF LibraryTexts, Texts, convertString, AllCodes

(* The setters of the codes.                                               *)
LEMMA CodesAreSet ==
    ASSUME NEW id \in Identifiers, NEW t, convertString(t) \in AllCodes
    PROVE  /\ CurrentIdentifier(setNetwork(id, t))
           /\ CurrentIdentifier(setStation(id, t))
           /\ CurrentIdentifier(setChannel(id, t))
           /\ CurrentIdentifier(setLocationCode(id, t))
<1>1. CurrentIdentifier(setNetwork(id, t))
  <2>1. [id EXCEPT !.network = convertString(t)] \in Identifiers
    BY DEF Identifiers
  <2>2. QED
    BY <2>1, StringIsSet DEF setNetwork
<1>2. CurrentIdentifier(setStation(id, t))
  <2>1. [id EXCEPT !.station = convertString(t)] \in Identifiers
    BY DEF Identifiers
  <2>2. QED
    BY <2>1, StringIsSet DEF setStation
<1>3. CurrentIdentifier(setChannel(id, t))
  <2>1. [id EXCEPT !.channel = convertString(t)] \in Identifiers
    BY DEF Identifiers
  <2>2. QED
    BY <2>1, StringIsSet DEF setChannel
<1>4. CurrentIdentifier(setLocationCode(id, t))
  <2>1. [id EXCEPT !.locationCode = convertString(t),
                   !.hasLocationCode = TRUE] \in Identifiers
    BY DEF Identifiers
  <2>2. QED
    BY <2>1, StringIsSet DEF setLocationCode
<1>5. QED
  BY <1>1, <1>2, <1>3, <1>4

(* clear(), which sets the four codes at once.                             *)
LEMMA CodesAreCleared ==
    ASSUME NEW id \in Identifiers
    PROVE  CurrentIdentifier(clearIdentifier(id))
<1>1. ASSUME NEW c \in AllCodes
      PROVE  [id EXCEPT !.network = c, !.station = c, !.channel = c,
                        !.locationCode = c] \in Identifiers
  BY DEF Identifiers
<1>2. [id EXCEPT !.network = "", !.station = "", !.channel = "",
                 !.locationCode = ""] \in Identifiers
  BY <1>1, FixedCodes
<1>3. QED
  BY <1>2, StringIsSet DEF clearIdentifier

(* A new identifier has no string, and needs none.                         *)
LEMMA NoIdentifierCurrent == CurrentIdentifier(NoIdentifier)
<1>1. ASSUME NEW c \in AllCodes, NEW s \in Strings
      PROVE  [network |-> c, station |-> c, channel |-> c, locationCode |-> c,
              hasLocationCode |-> FALSE, string |-> s] \in Identifiers
  BY DEF Identifiers
<1>2. NoIdentifier \in Identifiers
  BY <1>1, FixedCodes DEF NoIdentifier
<1>3. ~IsComplete(NoIdentifier) /\ NoIdentifier.string = <<>>
  BY DEF IsComplete, NoIdentifier, isEmpty
<1>4. QED
  BY <1>2, <1>3 DEF CurrentIdentifier, StringOf

(* The identifier of a record whose codes are not empty is complete: the   *)
(* location code is set, be it "--", and no later setter changes a code.   *)
LEMMA IdentifierOfRecord ==
    ASSUME NEW raw \in RawRecords, IsReadable(raw)
    PROVE  /\ CurrentIdentifier(IdentifierOf(raw))
           /\ IsComplete(IdentifierOf(raw))
           /\ IdentifierOf(raw).network = raw.network
           /\ IdentifierOf(raw).station = raw.station
           /\ IdentifierOf(raw).channel = raw.channel
           /\ IdentifierOf(raw).locationCode
                  = (IF raw.location = "" THEN "--" ELSE raw.location)
<1> DEFINE n == setNetwork(NoIdentifier, Plain(raw.network))
           s == setStation(n, Plain(raw.station))
           c == setChannel(s, Plain(raw.channel))
           l == IF raw.location = "" THEN "--" ELSE raw.location
           i == setLocationCode(c, Plain(l))
<1>1. /\ raw.network \in AllCodes
      /\ raw.station \in AllCodes
      /\ raw.channel \in AllCodes
      /\ l \in AllCodes
  BY ConversionAssumption, FixedCodes DEF AllCodes
<1>2. n \in Identifiers /\ n.network = raw.network
  <2> DEFINE w == [NoIdentifier EXCEPT !.network = raw.network]
  <2>1. w \in Identifiers /\ w.network = raw.network
    BY <1>1, NoIdentifierCurrent DEF CurrentIdentifier, Identifiers
  <2>2. n = setString(w)
    BY DEF setNetwork, convertString, Plain
  <2> HIDE DEF n, w
  <2>3. QED
    BY <2>1, <2>2, StringIsSet DEF CurrentIdentifier
<1>3. s \in Identifiers /\ s.network = raw.network /\ s.station = raw.station
  <2> DEFINE w == [n EXCEPT !.station = raw.station]
  <2>1. s = setString(w)
    BY DEF setStation, convertString, Plain
  <2> HIDE DEF n, s
  <2>2. w \in Identifiers /\ w.network = raw.network /\ w.station = raw.station
    BY <1>1, <1>2 DEF Identifiers
  <2> HIDE DEF w
  <2>3. QED
    BY <2>1, <2>2, StringIsSet DEF CurrentIdentifier
<1>4. /\ c \in Identifiers
      /\ c.network = raw.network
      /\ c.station = raw.station
      /\ c.channel = raw.channel
  <2> DEFINE w == [s EXCEPT !.channel = raw.channel]
  <2>1. c = setString(w)
    BY DEF setChannel, convertString, Plain
  <2> HIDE DEF s, c
  <2>2. /\ w \in Identifiers
        /\ w.network = raw.network
        /\ w.station = raw.station
        /\ w.channel = raw.channel
    BY <1>1, <1>3 DEF Identifiers
  <2> HIDE DEF w
  <2>3. QED
    BY <2>1, <2>2, StringIsSet DEF CurrentIdentifier
<1>5. /\ CurrentIdentifier(i)
      /\ i.network = raw.network
      /\ i.station = raw.station
      /\ i.channel = raw.channel
      /\ i.locationCode = l
      /\ i.hasLocationCode
  <2> DEFINE w == [c EXCEPT !.locationCode = l, !.hasLocationCode = TRUE]
  <2>1. i = setString(w)
    BY DEF setLocationCode, convertString, Plain
  <2> HIDE DEF c, l, i
  <2>2. /\ w \in Identifiers
        /\ w.network = raw.network
        /\ w.station = raw.station
        /\ w.channel = raw.channel
        /\ w.locationCode = l
        /\ w.hasLocationCode
    BY <1>1, <1>4 DEF Identifiers
  <2> HIDE DEF w
  <2>3. QED
    BY <2>1, <2>2, StringIsSet DEF CurrentIdentifier
<1>6. IsComplete(i)
  <2> HIDE DEF i
  <2>1. QED
    BY <1>5 DEF IsComplete, IsReadable
<1>7. i = IdentifierOf(raw)
  BY DEF IdentifierOf
<1>8. QED
  <2> HIDE DEF i
  <2>1. /\ i.network = raw.network
        /\ i.station = raw.station
        /\ i.channel = raw.channel
        /\ i.locationCode = IF raw.location = "" THEN "--" ELSE raw.location
    BY <1>5
  <2>2. QED
    BY <1>5, <1>6, <1>7, <2>1

-----------------------------------------------------------------------------
(* Packets. *)

(* A quotient is rounded to an integer.                                    *)
LEMMA RoundedType ==
    ASSUME NEW a \in Int, NEW b \in Nat \ {0}
    PROVE  Rounded(a, b) \in Int
BY DEF Rounded

(* The end time of a packet is an integer.                                 *)
LEMMA EndTimeType ==
    ASSUME NEW p \in Packets
    PROVE  EndTime(p) \in Int
<1>1. /\ p.startTime \in Nat
      /\ p.samples \in Nat
      /\ p.samplingRate \in Nat
  BY DEF Packets
<1>2. (p.samples - 1) * Second \in Int
  BY <1>1, PacketAssumption
<1>3. p.samplingRate > 0 => Rounded((p.samples - 1) * Second, p.samplingRate) \in Int
  BY <1>1, <1>2, RoundedType
<1>4. QED
  BY <1>1, <1>3 DEF EndTime

(* Whatever was changed in a packet, updateEndTime makes it current, if    *)
(* its identifier is, and changes nothing else.                            *)
LEMMA EndTimeIsUpdated ==
    ASSUME NEW p \in Packets, CurrentIdentifier(p.identifier),
           p.hasIdentifier => IsComplete(p.identifier)
    PROVE  /\ CurrentPacket(updateEndTime(p))
           /\ updateEndTime(p).startTime = p.startTime
           /\ updateEndTime(p).samplingRate = p.samplingRate
           /\ updateEndTime(p).samples = p.samples
           /\ updateEndTime(p).dataType = p.dataType
           /\ updateEndTime(p).identifier = p.identifier
           /\ updateEndTime(p).hasIdentifier = p.hasIdentifier
<1> DEFINE new == updateEndTime(p)
<1>1. new \in Packets
  BY EndTimeType DEF Packets, updateEndTime
<1>2. new.endTime = EndTime(p)
  BY EndTimeType DEF Packets, updateEndTime
<1>3. /\ new.startTime = p.startTime
      /\ new.samplingRate = p.samplingRate
      /\ new.samples = p.samples
      /\ new.dataType = p.dataType
      /\ new.identifier = p.identifier
      /\ new.hasIdentifier = p.hasIdentifier
  BY EndTimeType DEF Packets, updateEndTime
<1> HIDE DEF new
<1>4. EndTime(new) = EndTime(p)
  BY <1>3 DEF EndTime
<1>5. QED
  BY <1>1, <1>2, <1>3, <1>4 DEF CurrentPacket, new

(* The setters of rate, start and samples.                                 *)
LEMMA PacketIsSet ==
    ASSUME NEW p, CurrentPacket(p)
    PROVE  /\ \A r \in Nat : CurrentPacket(setSamplingRate(p, r))
           /\ \A t \in Nat : CurrentPacket(setStartTime(p, t))
           /\ \A n \in Nat, type \in PacketTypes : CurrentPacket(setData(p, n, type))
<1>1. /\ p \in Packets
      /\ CurrentIdentifier(p.identifier)
      /\ p.hasIdentifier => IsComplete(p.identifier)
  BY DEF CurrentPacket
<1>2. ASSUME NEW r \in Nat PROVE CurrentPacket(setSamplingRate(p, r))
  <2> DEFINE q == [p EXCEPT !.samplingRate = r]
  <2>1. /\ q \in Packets
        /\ q.identifier = p.identifier
        /\ q.hasIdentifier = p.hasIdentifier
    BY <1>1 DEF Packets
  <2>2. setSamplingRate(p, r) = updateEndTime(q)
    BY DEF setSamplingRate
  <2> HIDE DEF q
  <2>3. QED
    BY <1>1, <2>1, <2>2, EndTimeIsUpdated
<1>3. ASSUME NEW t \in Nat PROVE CurrentPacket(setStartTime(p, t))
  <2> DEFINE q == [p EXCEPT !.startTime = t]
  <2>1. /\ q \in Packets
        /\ q.identifier = p.identifier
        /\ q.hasIdentifier = p.hasIdentifier
    BY <1>1 DEF Packets
  <2>2. setStartTime(p, t) = updateEndTime(q)
    BY DEF setStartTime
  <2> HIDE DEF q
  <2>3. QED
    BY <1>1, <2>1, <2>2, EndTimeIsUpdated
<1>4. ASSUME NEW n \in Nat, NEW type \in PacketTypes
      PROVE  CurrentPacket(setData(p, n, type))
  <2> DEFINE q == [p EXCEPT !.samples = n, !.dataType = type]
  <2>1. /\ q \in Packets
        /\ q.identifier = p.identifier
        /\ q.hasIdentifier = p.hasIdentifier
    BY <1>1 DEF Packets
  <2>2. setData(p, n, type) = IF n = 0 THEN updateEndTime(p) ELSE updateEndTime(q)
    BY DEF setData
  <2> HIDE DEF q
  <2>3. CurrentPacket(updateEndTime(q)) /\ CurrentPacket(updateEndTime(p))
    BY <1>1, <2>1, EndTimeIsUpdated
  <2>4. QED
    BY <2>2, <2>3
<1>5. QED
  BY <1>2, <1>3, <1>4

(* A complete identifier becomes that of the packet.                       *)
LEMMA StreamIdentifierIsSet ==
    ASSUME NEW p, CurrentPacket(p), NEW id, CurrentIdentifier(id), IsComplete(id)
    PROVE  CurrentPacket(setStreamIdentifier(p, id))
<1> DEFINE q == setStreamIdentifier(p, id)
<1>1. p \in Packets /\ id \in Identifiers /\ p.endTime = EndTime(p)
  BY DEF CurrentPacket, CurrentIdentifier
<1>2. q \in Packets /\ q.identifier = id
  BY <1>1 DEF Packets, setStreamIdentifier
<1>3. /\ q.endTime = p.endTime
      /\ q.startTime = p.startTime
      /\ q.samplingRate = p.samplingRate
      /\ q.samples = p.samples
  BY <1>1 DEF Packets, setStreamIdentifier
<1> HIDE DEF q
<1>4. EndTime(q) = EndTime(p)
  BY <1>3 DEF EndTime
<1>5. QED
  BY <1>1, <1>2, <1>3, <1>4 DEF CurrentPacket, q

(* A packet with nothing set, whatever codes its identifier has.           *)
LEMMA NoPacketCurrent ==
    ASSUME NEW id, CurrentIdentifier(id)
    PROVE  /\ CurrentPacket(NoPacket)
           /\ CurrentPacket([NoPacket EXCEPT !.identifier = id])
<1>1. ASSUME NEW i \in Identifiers, NEW u \in PacketTypes
      PROVE  [hasIdentifier |-> FALSE, identifier |-> i, samplingRate |-> 0,
              startTime |-> 0, endTime |-> 0, samples |-> 0, dataType |-> u]
                  \in Packets
  BY DEF Packets
<1>2. NoPacket \in Packets
  <2>1. NoIdentifier \in Identifiers
    BY NoIdentifierCurrent DEF CurrentIdentifier
  <2>2. "Unknown" \in PacketTypes
    BY DEF PacketTypes
  <2>3. QED
    BY <1>1, <2>1, <2>2 DEF NoPacket
<1>3. /\ NoPacket.hasIdentifier = FALSE
      /\ NoPacket.startTime = 0
      /\ NoPacket.samples = 0
      /\ NoPacket.endTime = 0
  BY DEF NoPacket
<1> DEFINE q == [NoPacket EXCEPT !.identifier = id]
<1>4. /\ q \in Packets
      /\ q.identifier = id
      /\ q.hasIdentifier = NoPacket.hasIdentifier
      /\ q.startTime = NoPacket.startTime
      /\ q.samples = NoPacket.samples
      /\ q.endTime = NoPacket.endTime
  BY <1>2 DEF Packets, CurrentIdentifier
<1> HIDE DEF q
<1>5. EndTime(q) = q.endTime
  BY <1>3, <1>4 DEF EndTime
<1>6. CurrentPacket(q)
  BY <1>3, <1>4, <1>5 DEF CurrentPacket
<1>7. CurrentPacket(NoPacket)
  <2>1. EndTime(NoPacket) = NoPacket.endTime
    BY <1>3 DEF EndTime
  <2>2. NoPacket.identifier = NoIdentifier
    BY DEF NoPacket
  <2>3. QED
    BY <1>2, <1>3, <2>1, <2>2, NoIdentifierCurrent DEF CurrentPacket
<1>8. QED
  BY <1>6, <1>7 DEF q

(* A new packet, and a cleared one.                                        *)
LEMMA PacketIsCleared ==
    /\ CurrentPacket(NoPacket)
    /\ \A p : CurrentPacket(p) => CurrentPacket(clearPacket(p))
<1>1. CurrentPacket(NoPacket)
  BY NoPacketCurrent, NoIdentifierCurrent
<1>2. ASSUME NEW p, CurrentPacket(p)
      PROVE  CurrentPacket(clearPacket(p))
  <2>1. CurrentIdentifier(clearIdentifier(p.identifier))
    BY <1>2, CodesAreCleared DEF CurrentPacket, CurrentIdentifier
  <2>2. QED
    BY <2>1, NoPacketCurrent DEF clearPacket
<1>3. QED
  BY <1>1, <1>2

(* The packet of a record that could be read is current and is the record: *)
(* each setter keeps what those before it have set.                        *)
LEMMA PacketOfRecord ==
    ASSUME NEW raw \in RawRecords, IsReadable(raw)
    PROVE  LET p == PacketOf(raw)
           IN /\ CurrentPacket(p)
              /\ p.hasIdentifier
              /\ p.identifier = IdentifierOf(raw)
              /\ p.samplingRate = raw.rate
              /\ p.startTime = raw.start
              /\ p.samples = raw.samples
              /\ raw.samples > 0 => p.dataType = raw.type
<1> DEFINE i == setStreamIdentifier(NoPacket, IdentifierOf(raw))
           r == setSamplingRate(i, raw.rate)
           s == setStartTime(r, raw.start)
           d == setData(s, raw.samples, raw.type)
<1>1. /\ raw.rate \in Nat
      /\ raw.start \in Nat
      /\ raw.samples \in Nat
      /\ raw.type \in PacketTypes
  <2>1. /\ raw.rate \in Rates \cup {0}
        /\ raw.start \in StartTimes
        /\ raw.samples \in 0..MaxSamples
        /\ raw.type \in DataTypes
    BY ConversionAssumption
  <2>2. Rates \subseteq Nat /\ StartTimes \subseteq Nat /\ MaxSamples \in Nat
    BY PacketAssumption
  <2>3. raw.type \in PacketTypes
    BY <2>1 DEF PacketTypes
  <2>4. raw.rate \in Nat /\ raw.start \in Nat /\ raw.samples \in Nat
    <3>1. ASSUME NEW v, NEW t, NEW n, v \in Rates \cup {0}, t \in StartTimes,
                 n \in 0..MaxSamples
          PROVE  v \in Nat /\ t \in Nat /\ n \in Nat
      BY <2>2, <3>1
    <3>2. QED
      BY <2>1, <3>1
  <2>5. QED
    BY <2>3, <2>4
<1>2. /\ CurrentPacket(i)
      /\ i.hasIdentifier
      /\ i.identifier = IdentifierOf(raw)
      /\ i.samples = 0
  <2>1. CurrentPacket(i)
    BY IdentifierOfRecord, StreamIdentifierIsSet, PacketIsCleared
  <2>2. NoPacket \in Packets /\ NoPacket.samples = 0
    BY PacketIsCleared DEF CurrentPacket, NoPacket
  <2>3. IdentifierOf(raw) \in Identifiers
    BY IdentifierOfRecord DEF CurrentIdentifier
  <2>4. /\ i.hasIdentifier
        /\ i.identifier = IdentifierOf(raw)
        /\ i.samples = NoPacket.samples
    BY <2>2, <2>3 DEF Packets, setStreamIdentifier
  <2>5. QED
    BY <2>1, <2>2, <2>4
<1>3. /\ CurrentPacket(r)
      /\ r.hasIdentifier
      /\ r.identifier = IdentifierOf(raw)
      /\ r.samples = 0
      /\ r.samplingRate = raw.rate
  <2> DEFINE q == [i EXCEPT !.samplingRate = raw.rate]
  <2>1. r = updateEndTime(q)
    BY DEF setSamplingRate
  <2> HIDE DEF i, r
  <2>2. /\ q \in Packets
        /\ q.hasIdentifier
        /\ q.identifier = IdentifierOf(raw)
        /\ q.samples = 0
        /\ q.samplingRate = raw.rate
    BY <1>1, <1>2 DEF Packets, CurrentPacket
  <2> HIDE DEF q
  <2>3. QED
    BY <2>1, <2>2, EndTimeIsUpdated, IdentifierOfRecord
<1>4. /\ CurrentPacket(s)
      /\ s.hasIdentifier
      /\ s.identifier = IdentifierOf(raw)
      /\ s.samples = 0
      /\ s.samplingRate = raw.rate
      /\ s.startTime = raw.start
  <2> DEFINE q == [r EXCEPT !.startTime = raw.start]
  <2>1. s = updateEndTime(q)
    BY DEF setStartTime
  <2> HIDE DEF r, s
  <2>2. /\ q \in Packets
        /\ q.hasIdentifier
        /\ q.identifier = IdentifierOf(raw)
        /\ q.samples = 0
        /\ q.samplingRate = raw.rate
        /\ q.startTime = raw.start
    BY <1>1, <1>3 DEF Packets, CurrentPacket
  <2> HIDE DEF q
  <2>3. QED
    BY <2>1, <2>2, EndTimeIsUpdated, IdentifierOfRecord
<1>5. /\ CurrentPacket(d)
      /\ d.hasIdentifier
      /\ d.identifier = IdentifierOf(raw)
      /\ d.samples = raw.samples
      /\ d.samplingRate = raw.rate
      /\ d.startTime = raw.start
      /\ raw.samples > 0 => d.dataType = raw.type
  <2> DEFINE q == [s EXCEPT !.samples = raw.samples, !.dataType = raw.type]
  <2>1. d = IF raw.samples = 0 THEN updateEndTime(s) ELSE updateEndTime(q)
    BY DEF setData
  <2> HIDE DEF s, d
  <2>2. /\ q \in Packets
        /\ q.hasIdentifier
        /\ q.identifier = IdentifierOf(raw)
        /\ q.samplingRate = raw.rate
        /\ q.startTime = raw.start
    BY <1>1, <1>4 DEF Packets, CurrentPacket
  <2>3. q.samples = raw.samples /\ q.dataType = raw.type
    BY <1>1, <1>4 DEF Packets, CurrentPacket
  <2>4. s \in Packets
    BY <1>4 DEF CurrentPacket
  <2> HIDE DEF q
  <2>5. CASE raw.samples = 0
    <3>1. d = updateEndTime(s)
      BY <2>1, <2>5
    <3>2. CurrentIdentifier(s.identifier) /\ IsComplete(s.identifier)
      BY <1>4, IdentifierOfRecord
    <3>3. /\ CurrentPacket(d)
          /\ d.hasIdentifier = s.hasIdentifier
          /\ d.identifier = s.identifier
          /\ d.samples = s.samples
          /\ d.samplingRate = s.samplingRate
          /\ d.startTime = s.startTime
      BY <2>4, <3>1, <3>2, EndTimeIsUpdated
    <3>4. ~(raw.samples > 0)
      BY <2>5
    <3>5. QED
      BY <1>4, <2>5, <3>3, <3>4
  <2>6. CASE raw.samples # 0
    BY <2>1, <2>2, <2>3, <2>6, EndTimeIsUpdated, IdentifierOfRecord
  <2>7. QED
    BY <2>5, <2>6
<1>6. d = PacketOf(raw)
  BY DEF PacketOf
<1>7. QED
  <2> HIDE DEF d
  <2>1. QED
    BY <1>5, <1>6

-----------------------------------------------------------------------------
(* The invariant. *)

(* No identifier, no packet, no buffer: in either way to start.            *)
LEMMA DerivedInitially == Init => DerivedInv
<1> SUFFICES ASSUME Init PROVE DerivedInv
  OBVIOUS
<1>1. /\ identifier = NoIdentifier
      /\ packet = NoPacket
      /\ buffer = <<>>
      /\ unpacked = <<>>
      /\ handed = 0
  BY DEF Init, ConversionInit
<1>2. buffer \in Seq(RawRecords) /\ unpacked \in Seq(ReadablePackets)
  BY <1>1
<1>3. QED
  BY <1>1, <1>2, NoIdentifierCurrent, PacketIsCleared DEF DerivedInv

(* A user of the library sets an identifier or a packet, which one call    *)
(* of the class leaves current.                                            *)
LEMMA DerivedByLibrary ==
    ASSUME DerivedInv, Library
    PROVE  DerivedInv'
<1>1. CurrentIdentifier(identifier) /\ identifier \in Identifiers
  BY DEF DerivedInv, CurrentIdentifier
<1>2. CurrentPacket(packet)
  BY DEF DerivedInv
<1>3. ASSUME NEW id, CurrentIdentifier(id), SetIdentifier(id)
      PROVE  DerivedInv'
  BY <1>3 DEF DerivedInv, SetIdentifier
<1>4. ASSUME NEW p, CurrentPacket(p), SetPacket(p)
      PROVE  DerivedInv'
  BY <1>4 DEF DerivedInv, SetPacket
<1>5. CASE SetNetwork
  BY <1>1, <1>3, <1>5, TextType, CodesAreSet DEF SetNetwork
<1>6. CASE SetStation
  BY <1>1, <1>3, <1>6, TextType, CodesAreSet DEF SetStation
<1>7. CASE SetChannel
  BY <1>1, <1>3, <1>7, TextType, CodesAreSet DEF SetChannel
<1>8. CASE SetLocationCode
  BY <1>1, <1>3, <1>8, TextType, CodesAreSet DEF SetLocationCode
<1>9. CASE ClearIdentifier
  BY <1>1, <1>3, <1>9, CodesAreCleared DEF ClearIdentifier
<1>10. CASE SetStreamIdentifier
  BY <1>1, <1>2, <1>4, <1>10, StreamIdentifierIsSet DEF SetStreamIdentifier
<1>11. CASE SetSamplingRate
  <2>1. Rates \subseteq Nat
    BY PacketAssumption
  <2>2. QED
    BY <1>2, <1>4, <1>11, <2>1, PacketIsSet DEF SetSamplingRate
<1>12. CASE SetStartTime
  <2>1. StartTimes \subseteq Nat
    BY PacketAssumption
  <2>2. QED
    BY <1>2, <1>4, <1>12, <2>1, PacketIsSet DEF SetStartTime
<1>13. CASE SetData
  <2>1. 0..MaxSamples \subseteq Nat
    BY PacketAssumption
  <2>2. LibraryTypes \subseteq PacketTypes
    BY ConversionAssumption DEF PacketTypes
  <2>3. QED
    BY <1>2, <1>4, <1>13, <2>1, <2>2, PacketIsSet DEF SetData
<1>14. CASE ClearPacket
  BY <1>2, <1>4, <1>14, PacketIsCleared DEF ClearPacket
<1>15. QED
  BY <1>5, <1>6, <1>7, <1>8, <1>9, <1>10, <1>11, <1>12, <1>13, <1>14 DEF Library

(* The program: what is handed on was unpacked, and what was unpacked is   *)
(* the packet of a record that could be read.                              *)
LEMMA DerivedByProgram ==
    ASSUME DerivedInv, NEW W, ProgramNext(W)
    PROVE  DerivedInv'
<1>1. CASE Receive
  <2>1. buffer' \in Seq(RawRecords)
    BY <1>1, ConversionAssumption DEF Receive
  <2>2. QED
    BY <1>1, <2>1 DEF Receive, DerivedInv
<1>2. CASE UnpackRecord
  <2>1. NextRecord \in RawRecords
    BY <1>2 DEF UnpackRecord, Remaining, NextRecord, DerivedInv
  <2>2. PacketOf(NextRecord) \in ReadablePackets
    BY <1>2, <2>1 DEF UnpackRecord, ReadablePackets
  <2>3. unpacked' \in Seq(ReadablePackets)
    BY <1>2, <2>2 DEF UnpackRecord, DerivedInv
  <2>4. QED
    BY <1>2, <2>3 DEF UnpackRecord, DerivedInv
<1>3. CASE UnpackReturns
  BY <1>3 DEF UnpackReturns, DerivedInv
<1>4. CASE UnpackThrows
  <2>1. <<>> \in Seq(RawRecords) /\ <<>> \in Seq(ReadablePackets)
    OBVIOUS
  <2>2. QED
    BY <1>4, <2>1 DEF UnpackThrows, UnpackStops, DerivedInv
<1>5. CASE HandOn
  <2>1. packet' \in ReadablePackets
    BY <1>5 DEF HandOn, DerivedInv
  <2>2. CurrentPacket(packet')
    BY <2>1, PacketOfRecord DEF ReadablePackets
  <2>3. QED
    BY <1>5, <2>2 DEF HandOn, DerivedInv
<1>6. CASE BufferDone
  <2>1. <<>> \in Seq(RawRecords) /\ <<>> \in Seq(ReadablePackets)
    OBVIOUS
  <2>2. QED
    BY <1>6, <2>1, PacketIsCleared DEF BufferDone, DerivedInv
<1>7. ASSUME NEW w \in W, Pack(w)
      PROVE  DerivedInv'
  BY <1>7 DEF Pack, DerivedInv
<1>8. QED
  BY <1>1, <1>2, <1>3, <1>4, <1>5, <1>6, <1>7 DEF ProgramNext

(* main leaves the conversion alone, except that the end of the run takes  *)
(* the buffer and the packet with it.                                      *)
LEMMA DerivedByMain ==
    ASSUME DerivedInv, Main
    PROVE  DerivedInv'
<1>1. <<>> \in Seq(RawRecords) /\ <<>> \in Seq(ReadablePackets)
  OBVIOUS
<1>2. CASE phase = "running" /\ phase' # "running"
  BY <1>1, <1>2, PacketIsCleared DEF Main, DerivedInv
<1>3. CASE ~(phase = "running" /\ phase' # "running")
  BY <1>3 DEF Main, DerivedInv, conversionVars
<1>4. QED
  BY <1>2, <1>3

(* DerivedInv is preserved by every step.                                  *)
LEMMA DerivedStep == DerivedInv /\ [Next]_vars => DerivedInv'
<1> SUFFICES ASSUME DerivedInv, [Next]_vars
             PROVE  DerivedInv'
  OBVIOUS
<1>1. CASE UsesLibrary
  <2>1. CASE Library
    BY <2>1, DerivedByLibrary
  <2>2. ASSUME NEW w, Pack(w)
        PROVE  DerivedInv'
    BY <2>2 DEF Pack, DerivedInv
  <2>3. QED
    BY <1>1, <2>1, <2>2 DEF UsesLibrary, LibraryNext
<1>2. CASE Converts
  BY <1>2, DerivedByProgram DEF Converts
<1>3. CASE Main
  BY <1>3, DerivedByMain
<1>4. CASE UNCHANGED vars
  BY <1>4 DEF vars, conversionVars, DerivedInv
<1>5. QED
  BY <1>1, <1>2, <1>3, <1>4 DEF Next

(* What is kept beside the data it is computed from - the end time of a    *)
(* packet, the string of an identifier - is never stale, whatever calls    *)
(* were made and in whatever order, for every value of the constants.      *)
THEOREM DerivedStaysCurrent == Spec => []DerivedCurrent
<1>1. DerivedInv => DerivedCurrent
  BY DEF DerivedInv, DerivedCurrent, CurrentIdentifier, CurrentPacket
<1>2. QED
  BY <1>1, DerivedInitially, DerivedStep, PTL DEF Spec

-----------------------------------------------------------------------------
(* The packets of a buffer. *)

(* Is this packet that record?                                             *)
IsRecord(p, raw) ==
    /\ p.hasIdentifier
    /\ p.identifier.string # <<>>
    /\ p.identifier.network = raw.network
    /\ p.identifier.station = raw.station
    /\ p.identifier.channel = raw.channel
    /\ p.identifier.locationCode = (IF raw.location = "" THEN "--" ELSE raw.location)
    /\ p.samplingRate = raw.rate
    /\ p.startTime = raw.start
    /\ p.samples = raw.samples
    /\ raw.samples > 0 =>
           /\ p.dataType = raw.type
           /\ p.endTime = raw.start + Rounded((raw.samples - 1) * Second, raw.rate)

(* The packets are those of the first records; once the unpacking has      *)
(* returned, what was not unpacked is the tail of the buffer; and a packet *)
(* is handed on only then.                                                 *)
IntactInv ==
    /\ buffer \in Buffers \cup {<<>>}
    /\ unpacked \in Seq(ReadablePackets)
    /\ handed \in Nat
    /\ handed <= Len(unpacked)
    /\ Len(unpacked) <= Len(buffer)
    /\ \A i \in 1..Len(unpacked) :
           IsReadable(buffer[i]) /\ unpacked[i] = PacketOf(buffer[i])
    /\ ~unpacking => \A i \in Len(unpacked) + 1 .. Len(buffer) : buffer[i].parsed = "tail"
    /\ handed > 0 => ~unpacking /\ packet = unpacked[handed]

(* A buffer is a sequence of records.                                      *)
LEMMA BufferType == IntactInv => buffer \in Seq(RawRecords)
<1>1. <<>> \in Seq(RawRecords)
  OBVIOUS
<1>2. QED
  BY <1>1, ConversionAssumption DEF IntactInv

(* The length of two sequences in a row.                                   *)
LEMMA LengthOfConcat ==
    ASSUME NEW S, NEW a \in Seq(S), NEW b \in Seq(S)
    PROVE  Len(a \o b) = Len(a) + Len(b)
OBVIOUS

(* A complete identifier has a string.                                     *)
LEMMA CompleteHasString ==
    ASSUME NEW id, CurrentIdentifier(id), IsComplete(id)
    PROVE  id.string # <<>>
<1> DEFINE head == <<id.network, id.station, id.channel>>
           tail == IF isEmpty(id.locationCode) THEN <<>> ELSE <<id.locationCode>>
<1>1. id.string = head \o tail
  BY DEF CurrentIdentifier, StringOf
<1>2. id.network \in AllCodes /\ id.station \in AllCodes /\ id.channel \in AllCodes
      /\ id.locationCode \in AllCodes
  BY DEF CurrentIdentifier, Identifiers
<1>3. head \in Seq(AllCodes) /\ Len(head) = 3
  BY <1>2
<1>4. tail \in Seq(AllCodes)
  BY <1>2
<1> HIDE DEF head, tail
<1>5. Len(tail) \in Nat
  BY <1>4
<1>6. Len(head \o tail) = 3 + Len(tail)
  BY <1>3, <1>4, LengthOfConcat
<1>7. Len(<<>>) = 0
  OBVIOUS
<1>8. QED
  BY <1>1, <1>5, <1>6, <1>7

(* The packet of a record is that record.                                  *)
LEMMA PacketIsRecord ==
    ASSUME NEW raw \in RawRecords, IsReadable(raw)
    PROVE  IsRecord(PacketOf(raw), raw)
<1> DEFINE p == PacketOf(raw)
<1>1. /\ CurrentPacket(p)
      /\ p.hasIdentifier
      /\ p.identifier = IdentifierOf(raw)
      /\ p.samplingRate = raw.rate
      /\ p.startTime = raw.start
      /\ p.samples = raw.samples
      /\ raw.samples > 0 => p.dataType = raw.type
  BY PacketOfRecord
<1> HIDE DEF p
<1>2. p.identifier.string # <<>>
  BY <1>1, IdentifierOfRecord, CompleteHasString
<1>3. /\ p.identifier.network = raw.network
      /\ p.identifier.station = raw.station
      /\ p.identifier.channel = raw.channel
      /\ p.identifier.locationCode = (IF raw.location = "" THEN "--" ELSE raw.location)
  BY <1>1, IdentifierOfRecord
<1>4. raw.samples > 0 =>
          p.endTime = raw.start + Rounded((raw.samples - 1) * Second, raw.rate)
  BY <1>1 DEF CurrentPacket, EndTime, IsReadable
<1>5. QED
  BY <1>1, <1>2, <1>3, <1>4 DEF IsRecord, p

(* IntactInv says what the property says.                                  *)
LEMMA IntactInvSuffices == IntactInv => UnpackedIntact
<1> SUFFICES ASSUME IntactInv PROVE UnpackedIntact
  OBVIOUS
<1>1. buffer \in Seq(RawRecords)
  BY BufferType
<1>2. DOMAIN unpacked = 1..Len(unpacked) /\ DOMAIN buffer = 1..Len(buffer)
  BY <1>1 DEF IntactInv
<1>3. ASSUME NEW i \in DOMAIN unpacked
      PROVE  IsRecord(unpacked[i], buffer[i])
  <2>1. i \in 1..Len(buffer)
    BY <1>1, <1>2 DEF IntactInv
  <2>2. buffer[i] \in RawRecords
    BY <1>1, <2>1
  <2>3. QED
    BY <1>2, <2>2, PacketIsRecord DEF IntactInv
<1>4. ASSUME handed > 0
      PROVE  /\ packet = unpacked[handed]
             /\ \A i \in DOMAIN buffer :
                    buffer[i].parsed = "tail" \/ IsReadable(buffer[i])
  <2>1. ASSUME NEW i \in DOMAIN buffer
        PROVE  buffer[i].parsed = "tail" \/ IsReadable(buffer[i])
    <3>1. i \in 1..Len(unpacked) \/ i \in Len(unpacked) + 1 .. Len(buffer)
      BY <1>1, <1>2 DEF IntactInv
    <3>2. QED
      BY <1>4, <3>1 DEF IntactInv
  <2>2. QED
    BY <1>4, <2>1 DEF IntactInv
<1>5. QED
  BY <1>3, <1>4 DEF UnpackedIntact, IsRecord

(* There is no buffer to start with.                                       *)
LEMMA IntactInitially == Init => IntactInv
<1> SUFFICES ASSUME Init PROVE IntactInv
  OBVIOUS
<1>1. /\ buffer = <<>>
      /\ unpacked = <<>>
      /\ handed = 0
  BY DEF Init, ConversionInit
<1>2. unpacked \in Seq(ReadablePackets) /\ Len(unpacked) = 0 /\ Len(buffer) = 0
  BY <1>1
<1>3. QED
  BY <1>1, <1>2 DEF IntactInv

(* The steps of the program.                                               *)
LEMMA IntactByProgram ==
    ASSUME IntactInv, NEW W, ProgramNext(W)
    PROVE  IntactInv'
<1>1. buffer \in Seq(RawRecords)
  BY BufferType
<1>2. CASE Receive
  <2>1. Len(buffer) = 0 /\ Len(unpacked) = 0 /\ handed = 0
    <3>1. buffer = <<>> /\ Len(buffer) = 0
      BY <1>2 DEF Receive
    <3>2. /\ Len(unpacked) \in Nat
          /\ Len(unpacked) <= Len(buffer)
          /\ handed \in Nat
          /\ handed <= Len(unpacked)
      BY DEF IntactInv
    <3>3. QED
      BY <3>1, <3>2
  <2>2. buffer' \in Buffers
    BY <1>2 DEF Receive
  <2>3. Buffers \subseteq Seq(RawRecords)
    BY ConversionAssumption
  <2>4. Len(buffer') \in Nat
    BY <2>2, <2>3
  <2>5. QED
    BY <1>2, <2>1, <2>2, <2>4 DEF Receive, IntactInv
<1>3. CASE UnpackRecord
  <2>1. /\ Len(unpacked) < Len(buffer)
        /\ unpacking
        /\ handed = 0
        /\ unpacked' = Append(unpacked, PacketOf(buffer[Len(unpacked) + 1]))
        /\ IsReadable(buffer[Len(unpacked) + 1])
        /\ UNCHANGED <<packet, buffer, unpacking, handed>>
    BY <1>3 DEF UnpackRecord, Remaining, NextRecord, IntactInv
  <2>2. buffer[Len(unpacked) + 1] \in RawRecords
    BY <1>1, <2>1 DEF IntactInv
  <2>3. PacketOf(buffer[Len(unpacked) + 1]) \in ReadablePackets
    BY <2>1, <2>2 DEF ReadablePackets
  <2>4. /\ unpacked' \in Seq(ReadablePackets)
        /\ Len(unpacked') = Len(unpacked) + 1
        /\ \A i \in 1..Len(unpacked) : unpacked'[i] = unpacked[i]
        /\ unpacked'[Len(unpacked) + 1] = PacketOf(buffer[Len(unpacked) + 1])
    BY <2>1, <2>3 DEF IntactInv
  <2>5. \A i \in 1..Len(unpacked') :
            IsReadable(buffer[i]) /\ unpacked'[i] = PacketOf(buffer[i])
    <3>1. ASSUME NEW i \in 1..Len(unpacked')
          PROVE  i \in 1..Len(unpacked) \/ i = Len(unpacked) + 1
      BY <2>4 DEF IntactInv
    <3>2. QED
      BY <2>1, <2>4, <3>1 DEF IntactInv
  <2>6. Len(unpacked') <= Len(buffer)
    BY <1>1, <2>1, <2>4 DEF IntactInv
  <2>7. QED
    BY <2>1, <2>4, <2>5, <2>6 DEF IntactInv
<1>4. CASE UnpackReturns
  <2>1. /\ ~Remaining
        /\ unpacking
        /\ UNCHANGED <<packet, buffer, unpacked, handed>>
    BY <1>4 DEF UnpackReturns
  <2>2. \A i \in Len(unpacked) + 1 .. Len(buffer) : buffer[i].parsed = "tail"
    <3>1. CASE Len(unpacked) >= Len(buffer)
      BY <1>1, <3>1 DEF IntactInv
    <3>2. CASE Len(unpacked) < Len(buffer)
      <4>1. buffer \in Buffers
        BY <3>2 DEF IntactInv
      <4>2. buffer[Len(unpacked) + 1].parsed = "tail"
        BY <2>1, <3>2 DEF Remaining, NextRecord
      <4>3. Len(unpacked) + 1 \in DOMAIN buffer
        BY <1>1, <3>2 DEF IntactInv
      <4>4. Len(unpacked) + 1 = Len(buffer)
        BY <4>1, <4>2, <4>3, ConversionAssumption
      <4>5. QED
        BY <1>1, <4>2, <4>4 DEF IntactInv
    <3>3. QED
      BY <1>1, <3>1, <3>2 DEF IntactInv
  <2>3. handed = 0
    BY <2>1 DEF IntactInv
  <2>4. QED
    BY <2>1, <2>2, <2>3 DEF IntactInv
<1>5. CASE UnpackThrows
  <2>1. buffer' = <<>> /\ unpacked' = <<>> /\ handed' = 0
    BY <1>5 DEF UnpackThrows, UnpackStops, IntactInv
  <2>2. unpacked' \in Seq(ReadablePackets) /\ Len(unpacked') = 0 /\ Len(buffer') = 0
    BY <2>1
  <2>3. QED
    BY <2>1, <2>2 DEF IntactInv
<1>6. CASE HandOn
  <2>1. /\ ~unpacking
        /\ handed' = handed + 1
        /\ handed' <= Len(unpacked)
        /\ packet' = unpacked[handed']
        /\ UNCHANGED <<buffer, unpacking, unpacked>>
    BY <1>6 DEF HandOn, IntactInv
  <2>2. QED
    BY <2>1 DEF IntactInv
<1>7. CASE BufferDone
  <2>1. buffer' = <<>> /\ unpacked' = <<>> /\ handed' = 0
    BY <1>7 DEF BufferDone
  <2>2. unpacked' \in Seq(ReadablePackets) /\ Len(unpacked') = 0 /\ Len(buffer') = 0
    BY <2>1
  <2>3. QED
    BY <2>1, <2>2 DEF IntactInv
<1>8. ASSUME NEW w \in W, Pack(w)
      PROVE  IntactInv'
  BY <1>8 DEF Pack, IntactInv
<1>9. QED
  BY <1>2, <1>3, <1>4, <1>5, <1>6, <1>7, <1>8 DEF ProgramNext

(* IntactInv is preserved by every step: a user of the library has no      *)
(* buffer, and the end of the run takes the buffer with it.                *)
LEMMA IntactStep == IntactInv /\ [Next]_vars => IntactInv'
<1> SUFFICES ASSUME IntactInv, [Next]_vars
             PROVE  IntactInv'
  OBVIOUS
<1>1. CASE UsesLibrary
  <2>1. ASSUME buffer = <<>>, UNCHANGED <<buffer, unpacking, unpacked, handed>>
        PROVE  IntactInv'
    <3>1. handed = 0
      BY <2>1 DEF IntactInv
    <3>2. QED
      BY <2>1, <3>1 DEF IntactInv
  <2>2. CASE Library
    BY <2>1, <2>2 DEF Library, SetNetwork, SetStation, SetChannel, SetLocationCode,
       ClearIdentifier, SetStreamIdentifier, SetSamplingRate, SetStartTime,
       SetData, ClearPacket, SetIdentifier, SetPacket
  <2>3. ASSUME NEW w, Pack(w)
        PROVE  IntactInv'
    BY <2>3 DEF Pack, IntactInv
  <2>4. QED
    BY <1>1, <2>2, <2>3 DEF UsesLibrary, LibraryNext
<1>2. CASE Converts
  BY <1>2, IntactByProgram DEF Converts
<1>3. CASE Main
  <2>1. CASE phase = "running" /\ phase' # "running"
    <3>1. buffer' = <<>> /\ unpacked' = <<>> /\ handed' = 0
      BY <1>3, <2>1 DEF Main
    <3>2. unpacked' \in Seq(ReadablePackets) /\ Len(unpacked') = 0 /\ Len(buffer') = 0
      BY <3>1
    <3>3. QED
      BY <3>1, <3>2 DEF IntactInv
  <2>2. CASE ~(phase = "running" /\ phase' # "running")
    BY <1>3, <2>2 DEF Main, IntactInv, conversionVars
  <2>3. QED
    BY <2>1, <2>2
<1>4. CASE UNCHANGED vars
  BY <1>4 DEF vars, conversionVars, IntactInv
<1>5. QED
  BY <1>1, <1>2, <1>3, <1>4 DEF Next

(* The packets handed on are the records of the buffer, in their order,    *)
(* and none of a buffer with a record that cannot be read is handed on,    *)
(* for every value of the constants.                                       *)
THEOREM AlwaysUnpackedIntact == Spec => []UnpackedIntact
BY IntactInvSuffices, IntactInitially, IntactStep, PTL DEF Spec

-----------------------------------------------------------------------------
(* The ways out of main. *)

(* Before the client is initialized there is none, and before the logger   *)
(* is nothing is provided; the exit code is set when main leaves.  What is *)
(* left when main returns is at most a process that could not be started,  *)
(* and only then can something be logged to a provider that is gone.       *)
Underway == {"library", "commandLine", "iniFile", "logger", "metrics", "process",
             "selectors", "ping", "start", "running"}

CleanInv ==
    /\ phase \in {"library", "commandLine", "iniFile", "logger"} => providers = {}
    /\ phase \in {"library", "commandLine", "iniFile", "logger", "metrics", "process"}
           => client = NoClient
    /\ phase \in Underway => code = "none"
    /\ phase = "returning" => /\ providers = {}
                              /\ client.exists => code = "failure"
    /\ CleanedUpAtExit

(* Nothing is there to start with.                                         *)
LEMMA CleanInitially == Init => CleanInv
BY DEF Init, StartupInit, StartupAt, CleanInv, CleanedUpAtExit, Underway

(* Every step of main keeps CleanInv; a step of the conversion happens     *)
(* while none of these variables changes.                                  *)
LEMMA CleanStep == CleanInv /\ [Next]_vars => CleanInv'
<1> SUFFICES ASSUME CleanInv, [Next]_vars
             PROVE  CleanInv'
  OBVIOUS
<1> USE DEF Underway
<1>1. ~NoClient.exists
  BY DEF NoClient
<1>2. CASE UNCHANGED startupVars
  BY <1>2 DEF startupVars, CleanInv, CleanedUpAtExit
<1>3. CASE StartupNext
  <2>1. CASE ParseCommandLine
    BY <1>1, <2>1 DEF ParseCommandLine, Leave, CleanInv, CleanedUpAtExit
  <2>2. CASE ReadIniFile
    BY <1>1, <2>2 DEF ReadIniFile, Leave, CleanInv, CleanedUpAtExit
  <2>3. CASE InitializeLogger
    BY <2>3 DEF InitializeLogger, CleanInv, CleanedUpAtExit
  <2>4. CASE InitializeMetrics
    BY <2>4 DEF InitializeMetrics, CleanInv, CleanedUpAtExit
  <2>5. CASE InitializeMetricsFails
    BY <1>1, <2>5 DEF InitializeMetricsFails, MetricsFail, Leave, CleanInv,
                      CleanedUpAtExit
  <2>6. CASE ProcessFails /\ phase # "exited"
    BY <1>1, <2>6 DEF ProcessFails, Leave, CleanInv, CleanedUpAtExit
  <2>7. CASE Connect
    BY <2>7 DEF Connect, CleanInv, CleanedUpAtExit
  <2>8. CASE InitializeClient
    BY <2>8 DEF InitializeClient, AllConnected, CleanInv, CleanedUpAtExit
  <2>9. CASE AddSelector
    BY <2>9 DEF AddSelector, CleanInv, CleanedUpAtExit
  <2>10. CASE SetStations
    BY <2>10 DEF SetStations, SelectorsDone, AllTried, CleanInv, CleanedUpAtExit
  <2>11. CASE Ping
    BY <2>11 DEF Ping, CleanInv, CleanedUpAtExit
  <2>12. CASE Start
    BY <2>12 DEF Start, CleanInv, CleanedUpAtExit
  <2>13. CASE StartFails
    BY <2>13 DEF StartFails, Leave, CleanInv, CleanedUpAtExit
  <2>14. CASE Finish
    BY <1>1, <2>14 DEF Finish, Leave, CleanInv, CleanedUpAtExit
  <2>15. CASE Return
    BY <1>1, <2>15 DEF Return, CleanInv, CleanedUpAtExit
  <2>16. CASE InitializeLoggerFails
    BY <2>16 DEF InitializeLoggerFails, CleanInv, CleanedUpAtExit
  <2>17. CASE ReturnDies
    BY <2>17 DEF ReturnDies, Orphaned, CleanInv, CleanedUpAtExit
  <2>18. QED
    BY <1>3, <2>1, <2>2, <2>3, <2>4, <2>5, <2>6, <2>7, <2>8, <2>9, <2>10,
       <2>11, <2>12, <2>13, <2>14, <2>15, <2>16, <2>17
       DEF StartupNext, NoWriters, ConnectFails, InitializeFails, AllConnected,
           AllTried
<1>4. QED
  BY <1>2, <1>3 DEF Next, UsesLibrary, Converts, Main, vars, startupVars

(* Whichever step of the start-up fails, and after a run: no provider is   *)
(* left when main returns or dies, and a program that ran to its end does  *)
(* not die on the way out.                                                 *)
THEOREM AlwaysCleanedUpAtExit == Spec => []CleanedUpAtExit
<1>1. CleanInv => CleanedUpAtExit
  BY DEF CleanInv
<1>2. QED
  BY <1>1, CleanInitially, CleanStep, PTL DEF Spec

=============================================================================
