--------------------------- MODULE StreamIdentifier ---------------------------
(***************************************************************************)
(* The identifier of a stream: four codes and the string that is cached    *)
(* for them, as a record and one operator for each operation of the class. *)
(* A moved-from identifier is never used again; a copy is deep.            *)
(***************************************************************************)
EXTENDS Sequences

CONSTANTS Codes,      \* codes of networks, stations and channels
          Locations   \* location codes

(* A text a code is set from: what is left of it without its blanks and in *)
(* capitals, and whether it was written that way.                          *)
Texts == [code : Codes \cup Locations \cup {""}, tidy : BOOLEAN]
convertString(t) == t.code
isEmpty(code) == code = ""

NoIdentifier ==
    [network |-> "", station |-> "", channel |-> "", locationCode |-> "",
     hasLocationCode |-> FALSE, string |-> <<>>]

IsComplete(id) ==
    /\ ~isEmpty(id.network)
    /\ ~isEmpty(id.station)
    /\ ~isEmpty(id.channel)
    /\ id.hasLocationCode

(* The string: the codes between dots, no location code where it is empty. *)
StringOf(id) ==
    IF ~IsComplete(id) THEN <<>>
    ELSE <<id.network, id.station, id.channel>>
             \o (IF isEmpty(id.locationCode) THEN <<>> ELSE <<id.locationCode>>)

setString(id) == [id EXCEPT !.string = StringOf(id)]

setNetwork(id, t) == setString([id EXCEPT !.network = convertString(t)])
setStation(id, t) == setString([id EXCEPT !.station = convertString(t)])
setChannel(id, t) == setString([id EXCEPT !.channel = convertString(t)])

(* Mutant: the string is left as it was. *)
setLocationCodeOnly(id, t) ==
    [id EXCEPT !.locationCode = convertString(t), !.hasLocationCode = TRUE]

(* An empty location code is a location code. *)
setLocationCode(id, t) ==
    setString([id EXCEPT !.locationCode = convertString(t),
                         !.hasLocationCode = TRUE])

(* That there is a location code is not forgotten. *)
clearIdentifier(id) ==
    setString([id EXCEPT !.network = "", !.station = "", !.channel = "",
                         !.locationCode = ""])

(* The name under which a RingServer stores the stream. *)
toDataLinkIdentifier(id) ==
    <<id.network, id.station, id.locationCode, id.channel>>

=============================================================================
