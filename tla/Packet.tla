-------------------------------- MODULE Packet --------------------------------
(***************************************************************************)
(* A data packet: made by miniSEEDToDataPackets from the miniSEED records  *)
(* of one SEEDLink buffer, or by the setters of the class in any order, as *)
(* its header allows; and turned into records for DataLink by              *)
(* toDataLinkPackets.  libmseed is external.                               *)
(*                                                                         *)
(* Times are counted in ticks, which stand for nanoseconds: a second and a *)
(* microsecond have a few of them.  A record's size is counted in units of *)
(* one 32-bit sample.  Of the samples a packet keeps their number and type.*)
(***************************************************************************)
EXTENDS Integers, StreamIdentifier, FiniteSetsExt

CONSTANTS Second,         \* ticks of a second
          Microsecond,    \* ticks of a microsecond
          Rates,          \* sampling rates
          StartTimes,     \* start times, in ticks
          MaxSamples,     \* bound: the samples of a packet
          Header,         \* size of a record's header
          MaxDataLink,    \* maxDataLinkSize {512}
          DefaultRecord   \* the record length when none is given {4096}

ASSUME PacketAssumption ==
    /\ Second \in Nat \ {0}
    /\ Microsecond \in Nat \ {0}
    /\ Rates \subseteq Nat \ {0}
    /\ StartTimes \subseteq Nat
    /\ MaxSamples \in Nat
    /\ Header \in Nat \ {0}
    /\ MaxDataLink \in Nat
    /\ DefaultRecord \in Nat

(* A tick is a nanosecond: no channel is sampled more often.  The code does *)
(* not test it, and a time between two ticks would be rounded to either.   *)
ASSUME ClockAssumption == \A r \in Rates : r <= Second

NumericTypes == {"Integer32", "Float", "Double"}
DataTypes == NumericTypes \cup {"Text"}

(* std::round(a / b), for a not negative *)
Rounded(a, b) == (2 * a + b) \div (2 * b)

-----------------------------------------------------------------------------
(* The packet as a record; hasStreamIdentifier is mHasIdentifier. *)

NoPacket ==
    [hasIdentifier |-> FALSE, identifier |-> NoIdentifier, samplingRate |-> 0,
     startTime |-> 0, endTime |-> 0, samples |-> 0, dataType |-> "Unknown"]

EndTime(p) ==
    p.startTime + (IF p.samples > 0 /\ p.samplingRate > 0
                   THEN Rounded((p.samples - 1) * Second, p.samplingRate)
                   ELSE 0)

updateEndTime(p) == [p EXCEPT !.endTime = EndTime(p)]

(* A complete identifier only; any other is refused. *)
setStreamIdentifier(p, id) ==
    [p EXCEPT !.identifier = id, !.hasIdentifier = TRUE]

setSamplingRate(p, r) == updateEndTime([p EXCEPT !.samplingRate = r])
setStartTime(p, t) == updateEndTime([p EXCEPT !.startTime = t])

(* Nothing to set leaves the samples there were. *)
setData(p, n, type) ==
    IF n = 0 THEN updateEndTime(p)
    ELSE updateEndTime([p EXCEPT !.samples = n, !.dataType = type])

(* The flag of the location code outlives the clearing of the identifier. *)
clearPacket(p) ==
    [NoPacket EXCEPT !.identifier = clearIdentifier(p.identifier)]

-----------------------------------------------------------------------------
(* External: libmseed.  A record is its samples, its size and its times.   *)

Width(type) == IF type = "Double" THEN 2 ELSE 1
Capacity(p, reclen) == (reclen - Header) \div Width(p.dataType)

(* What msRecordHandler makes of a record: times in whole microseconds. *)
msRecordHandler(p, first, count) ==
    LET start == p.startTime + Rounded((first - 1) * Second, p.samplingRate)
        end == start + (IF count > 0
                        THEN Rounded((count - 1) * Second, p.samplingRate)
                        ELSE 0)
    IN [first |-> first, count |-> count,
        size |-> Header + count * Width(p.dataType),
        startTime |-> start \div Microsecond, endTime |-> end \div Microsecond]

(* The records that msr3_pack may give, none when it fails: full ones, and *)
(* the rest when it flushes.  Without samples it may make a bare header.   *)
msr3_pack(p, reclen, flush) ==
    LET capacity == Capacity(p, reclen)
        full == p.samples \div capacity
        some == IF flush /\ p.samples % capacity > 0 THEN full + 1 ELSE full
    IN IF capacity < 1 THEN {}
       ELSE IF p.samples = 0 THEN {<<>>, <<msRecordHandler(p, 1, 0)>>}
       ELSE {[k \in 1..some |->
                 msRecordHandler(p, (k - 1) * capacity + 1,
                                 Min({capacity, p.samples - (k - 1) * capacity}))]}

-----------------------------------------------------------------------------
(* toDataLinkPackets. *)

CanPack(p) == p.samplingRate > 0 /\ p.hasIdentifier
RecordLength(size) == IF size > 0 THEN size ELSE DefaultRecord

(* The first pass is kept when it made records and all of them fit. *)
IsOkay(records) ==
    /\ Len(records) > 0
    /\ \A k \in DOMAIN records : records[k].size <= MaxDataLink

FirstPass(p, size, flush) ==
    IF flush THEN {<<>>}
    ELSE LET made == msr3_pack(p, RecordLength(size), FALSE)
         IN IF made = {} THEN {<<>>} ELSE made

(* What a pass that flushes adds to the records there are. *)
Flush(p, size, records) ==
    {records \o made : made \in msr3_pack(p, RecordLength(size), TRUE)}

(* Mutant: the records of the first pass are not thrown away. *)
toDataLinkPacketsUncleared(p, size, flush) ==
    UNION {IF ~flush /\ IsOkay(first) THEN {first} ELSE Flush(p, size, first) :
           first \in FirstPass(p, size, flush)}

(* The possible results; none when the packet is refused. *)
toDataLinkPackets(p, size, flush) ==
    UNION {IF ~flush /\ IsOkay(first) THEN {first} ELSE Flush(p, size, <<>>) :
           first \in FirstPass(p, size, flush)}

=============================================================================
