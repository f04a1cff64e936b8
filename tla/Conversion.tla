------------------------------ MODULE Conversion ------------------------------
(***************************************************************************)
(* The life of a packet between SEEDLink and DataLink.  Either the program *)
(* receives a buffer, unpacks its records one by one, hands the packets on *)
(* and packs each for a writer; or a user of the library sets an           *)
(* identifier and a packet, in any order of calls, and packs it.  A call   *)
(* that throws changes nothing and is not a step, except where the program *)
(* goes on after it.                                                       *)
(***************************************************************************)
EXTENDS Packet

CONSTANTS RawRecords,   \* the miniSEED records a buffer is made of
          Buffers,      \* sequences of them
          LibraryCodes, \* codes a user of the library sets
          LibraryTypes, \* types of the samples such a user sets
          LibrarySizes  \* record lengths such a user asks for

ASSUME ConversionAssumption ==
    /\ \A raw \in RawRecords :
           /\ raw.parsed \in {"yes", "no", "tail"}
           /\ {raw.network, raw.station, raw.channel} \subseteq Codes \cup {""}
           /\ raw.location \in Locations \cup {""}
           /\ raw.rate \in Rates \cup {0}
           /\ raw.start \in StartTimes
           /\ raw.samples \in 0..MaxSamples
           /\ raw.type \in DataTypes
    /\ Buffers \subseteq Seq(RawRecords)
    /\ \A b \in Buffers : \A i \in DOMAIN b : b[i].parsed = "tail" => i = Len(b)
    /\ LibraryCodes \subseteq Codes \cup Locations
    /\ LibraryTypes \subseteq DataTypes
    /\ LibrarySizes \subseteq Int

VARIABLES identifier,   \* the identifier being set
          packet,       \* the packet being set, or handed on
          buffer,       \* the buffer received, empty when there is none
          unpacking,    \* is it being unpacked?
          unpacked,     \* dataPackets, made from it so far
          handed,       \* how many of them have been handed on
          sent          \* the last result of toDataLinkPackets

conversionVars == <<identifier, packet, buffer, unpacking, unpacked, handed, sent>>

NothingSent == [made |-> FALSE]

ConversionInit ==
    /\ identifier = NoIdentifier
    /\ packet = NoPacket
    /\ buffer = <<>>
    /\ unpacking = FALSE
    /\ unpacked = <<>>
    /\ handed = 0
    /\ sent = NothingSent

-----------------------------------------------------------------------------
(* The class, as a user of the library may call it. *)

SetIdentifier(id) ==
    /\ buffer = <<>>
    /\ identifier' = id
    /\ sent' = NothingSent
    /\ UNCHANGED <<packet, buffer, unpacking, unpacked, handed>>

LibraryTexts == {t \in Texts : t.code \in LibraryCodes \cup {""}}

SetNetwork ==
    \E t \in LibraryTexts : /\ ~isEmpty(convertString(t))
                            /\ SetIdentifier(setNetwork(identifier, t))

SetStation ==
    \E t \in LibraryTexts : /\ ~isEmpty(convertString(t))
                            /\ SetIdentifier(setStation(identifier, t))

SetChannel ==
    \E t \in LibraryTexts : /\ ~isEmpty(convertString(t))
                            /\ SetIdentifier(setChannel(identifier, t))

SetLocationCode ==
    \E t \in LibraryTexts : SetIdentifier(setLocationCode(identifier, t))

ClearIdentifier == SetIdentifier(clearIdentifier(identifier))

SetPacket(p) ==
    /\ buffer = <<>>
    /\ packet' = p
    /\ sent' = NothingSent
    /\ UNCHANGED <<identifier, buffer, unpacking, unpacked, handed>>

SetStreamIdentifier ==
    /\ IsComplete(identifier)
    /\ SetPacket(setStreamIdentifier(packet, identifier))

SetSamplingRate == \E r \in Rates : SetPacket(setSamplingRate(packet, r))
SetStartTime == \E t \in StartTimes : SetPacket(setStartTime(packet, t))

SetData ==
    \E n \in 0..MaxSamples, type \in LibraryTypes :
        SetPacket(setData(packet, n, type))

ClearPacket == SetPacket(clearPacket(packet))

Library ==
    \/ SetNetwork
    \/ SetStation
    \/ SetChannel
    \/ SetLocationCode
    \/ ClearIdentifier
    \/ SetStreamIdentifier
    \/ SetSamplingRate
    \/ SetStartTime
    \/ SetData
    \/ ClearPacket

-----------------------------------------------------------------------------
(* miniSEEDToDataPackets: from the buffer to packets. *)

Plain(code) == [code |-> code, tidy |-> TRUE]

(* A missing location code becomes "--". *)
IdentifierOf(raw) ==
    LET location == IF raw.location = "" THEN "--" ELSE raw.location
        named == setChannel(setStation(setNetwork(NoIdentifier,
                     Plain(raw.network)), Plain(raw.station)), Plain(raw.channel))
    IN setLocationCode(named, Plain(location))

PacketOf(raw) ==
    setData(setStartTime(setSamplingRate(
        setStreamIdentifier(NoPacket, IdentifierOf(raw)), raw.rate), raw.start),
        raw.samples, raw.type)

(* What msr3_parse, the SID, the setters and the sample type let pass. *)
IsReadable(raw) ==
    /\ raw.parsed = "yes"
    /\ \A code \in {raw.network, raw.station, raw.channel} : ~isEmpty(code)
    /\ raw.rate > 0
    /\ raw.samples > 0 => raw.type \in NumericTypes

(* No more than MINRECLEN bytes at the end are not looked at. *)
NextRecord == buffer[Len(unpacked) + 1]
Remaining == Len(unpacked) < Len(buffer) /\ NextRecord.parsed # "tail"

Receive ==
    /\ buffer = <<>>
    /\ packet = NoPacket
    /\ identifier = NoIdentifier
    /\ \E b \in Buffers : buffer' = b
    /\ unpacking' = TRUE
    /\ sent' = NothingSent
    /\ UNCHANGED <<identifier, packet, unpacked, handed>>

UnpackRecord ==
    /\ unpacking
    /\ Remaining
    /\ IsReadable(NextRecord)
    /\ unpacked' = Append(unpacked, PacketOf(NextRecord))
    /\ UNCHANGED <<identifier, packet, buffer, unpacking, handed, sent>>

UnpackReturns ==
    /\ unpacking
    /\ ~Remaining
    /\ unpacking' = FALSE
    /\ UNCHANGED <<identifier, packet, buffer, unpacked, handed, sent>>

(* Whatever cannot be read ends the unpacking. *)
UnpackStops(rest, made) ==
    /\ unpacking
    /\ Remaining
    /\ ~IsReadable(NextRecord)
    /\ unpacking' = FALSE
    /\ buffer' = rest
    /\ unpacked' = made
    /\ UNCHANGED <<identifier, packet, handed, sent>>

(* Mutant: what has been unpacked is handed on. *)
UnpackBreaks == UnpackStops(buffer, unpacked)

(* "Skipping packet": the exception takes those unpacked before with it. *)
UnpackThrows == UnpackStops(<<>>, <<>>)

(* The packets go to the callback in order, and from there to the writers. *)
HandOn ==
    /\ ~unpacking
    /\ handed < Len(unpacked)
    /\ handed' = handed + 1
    /\ packet' = unpacked[handed + 1]
    /\ sent' = NothingSent
    /\ UNCHANGED <<identifier, buffer, unpacking, unpacked>>

BufferDone ==
    /\ buffer # <<>>
    /\ ~unpacking
    /\ handed = Len(unpacked)
    /\ buffer' = <<>>
    /\ unpacked' = <<>>
    /\ handed' = 0
    /\ packet' = NoPacket
    /\ sent' = NothingSent
    /\ UNCHANGED <<identifier, unpacking>>

-----------------------------------------------------------------------------
(* toDataLinkPackets, with the options of a writer; a packet that cannot   *)
(* be packed is counted as invalid and forgotten.                          *)
Pack(writer) ==
    /\ sent = NothingSent
    /\ buffer # <<>> => handed > 0
    /\ CanPack(packet)
    /\ \E records \in toDataLinkPackets(packet, writer.recordSize, writer.flush) :
           sent' = [made |-> TRUE, records |-> records, writer |-> writer,
                    stream |-> toDataLinkIdentifier(packet.identifier)]
    /\ UNCHANGED <<identifier, packet, buffer, unpacking, unpacked, handed>>

LibraryWriters ==
    {[recordSize |-> n, flush |-> f] : n \in LibrarySizes, f \in BOOLEAN}

(* The classes by themselves, and the program with its writers. *)
LibraryNext ==
    \/ Library
    \/ \E w \in LibraryWriters : Pack(w)

ProgramNext(writers) ==
    \/ Receive
    \/ UnpackRecord
    \/ UnpackReturns
    \/ UnpackThrows
    \/ HandOn
    \/ BufferDone
    \/ \E w \in writers : Pack(w)

-----------------------------------------------------------------------------
(* Properties. *)

(* What is computed ahead is current after every sequence of calls: the    *)
(* end time agrees with start, rate and samples, the string with the codes *)
(* - of the identifier being set, and of the one the packet has, which is  *)
(* complete when the packet says that it has one.                          *)
DerivedCurrent ==
    /\ packet.endTime = EndTime(packet)
    /\ identifier.string = StringOf(identifier)
    /\ packet.identifier.string = StringOf(packet.identifier)
    /\ packet.hasIdentifier => IsComplete(packet.identifier)

(* Every packet that was unpacked is its record: each of the four codes,   *)
(* with "--" for a location code that is not there, start, rate and        *)
(* samples, and the end time the record has by itself.  Packets are handed *)
(* on in the order of the buffer, and only when all of it could be read.   *)
UnpackedIntact ==
    /\ \A i \in DOMAIN unpacked :
           LET p == unpacked[i]
               raw == buffer[i]
           IN /\ p.hasIdentifier
              /\ p.identifier.string # <<>>
              /\ p.identifier.network = raw.network
              /\ p.identifier.station = raw.station
              /\ p.identifier.channel = raw.channel
              /\ p.identifier.locationCode = (IF raw.location = "" THEN "--" ELSE raw.location)
              /\ p.samplingRate = raw.rate
              /\ p.startTime = raw.start
              /\ p.samples = raw.samples
              /\ raw.samples > 0 =>
                     /\ p.dataType = raw.type
                     /\ p.endTime = raw.start
                            + Rounded((raw.samples - 1) * Second, raw.rate)
    /\ handed > 0 =>
           /\ packet = unpacked[handed]
           /\ \A i \in DOMAIN buffer :
                  buffer[i].parsed = "tail" \/ IsReadable(buffer[i])

(* Records without a gap hold the samples up to the last of the last one. *)
Packed(r) == IF r = <<>> THEN 0 ELSE r[Len(r)].first + r[Len(r)].count - 1

(* The records hold the samples of the packet from the first on, each once *)
(* and in order, and all of them when the writer flushes; otherwise less   *)
(* than a record's worth is left out.  Their times follow one another and  *)
(* are those of the packet, to the microsecond.  With a record length that *)
(* the options accept none is too long for DataLink.                       *)
RecordsFaithful ==
    sent.made =>
        LET r == sent.records
            left == packet.samples - Packed(r)
        IN /\ \A k \in DOMAIN r :
                  /\ r[k].first = (IF k = 1 THEN 1 ELSE r[k-1].first + r[k-1].count)
                  /\ k > 1 => r[k-1].endTime <= r[k].startTime
           /\ left >= 0
           /\ left > 0 =>
                  /\ ~sent.writer.flush
                  /\ left < Capacity(packet, RecordLength(sent.writer.recordSize))
           /\ r # <<>> =>
                  /\ r[1].startTime = packet.startTime \div Microsecond
                  /\ left = 0 => r[Len(r)].endTime - (packet.endTime \div Microsecond)
                                     \in -1..1
           /\ sent.writer.recordSize \in 1..MaxDataLink =>
                  \A k \in DOMAIN r : r[k].size <= MaxDataLink

=============================================================================
