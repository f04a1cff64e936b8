---------------------------- MODULE StreamSelector ----------------------------
(***************************************************************************)
(* A stream selector: how a line of the .ini file becomes the network,     *)
(* station and pattern that are given to the SEEDLink server.  A line is a *)
(* sequence of tokens, what is left of it when the blanks around it are    *)
(* trimmed and it is split; two tabs leave an empty token between them.    *)
(***************************************************************************)
EXTENDS Naturals, Sequences

CONSTANTS TwoLetters,   \* the tokens of two letters
          OneLetter,    \* the tokens of at most one letter
          Capital       \* every token in capitals

NoSelector ==
    [network |-> "", station |-> "*", channel |-> "", locationCode |-> "",
     noLocationCode |-> FALSE, type |-> "All"]

setSelector(s, channel, type) ==
    [s EXCEPT !.channel = Capital[channel], !.locationCode = "",
              !.noLocationCode = TRUE, !.type = type]

setSelectorAt(s, channel, locationCode, type) ==
    [s EXCEPT !.channel = Capital[channel], !.locationCode = locationCode,
              !.noLocationCode = FALSE, !.type = type]

(* Only data is recognised; anything else asks for all types. *)
getDataType(token) == IF token \in {"D", "d"} THEN "Data" ELSE "All"

(* A network alone is refused: the test for a station looks at the length  *)
(* of the line and not at the number of its tokens.                        *)
CanParse(tokens) ==
    /\ Len(tokens) > 1
    /\ tokens[1] \in TwoLetters
    /\ tokens[2] # ""

(* The fourth of four tokens is a location code if it is longer than one   *)
(* character, and else a type.                                             *)
fromString(tokens) ==
    LET s == [NoSelector EXCEPT !.network = Capital[tokens[1]],
                                !.station = Capital[tokens[2]]]
        last == tokens[Len(tokens)]
    IN CASE Len(tokens) = 2 -> setSelectorAt(s, "*", "??", "All")
         [] Len(tokens) = 3 -> setSelectorAt(s, last, "??", "All")
         [] Len(tokens) = 4 /\ last \notin OneLetter ->
                setSelectorAt(s, tokens[3], last, "All")
         [] Len(tokens) = 4 /\ last \in OneLetter ->
                setSelector(s, tokens[3], getDataType(last))
         [] OTHER -> setSelectorAt(s, tokens[3], tokens[4], getDataType(last))

(* The pattern: location, channel and type, empty where all is asked for. *)
getSelector(s) ==
    LET nothing == s.locationCode = "" /\ s.channel = ""
        location == IF nothing \/ (s.locationCode = "" /\ s.noLocationCode) THEN ""
                    ELSE IF s.locationCode = "" THEN "??" ELSE s.locationCode
        channel == IF s.channel = "" THEN "*" ELSE s.channel
    IN IF nothing /\ s.type = "All" THEN <<>> ELSE <<location, channel, s.type>>

(* What tells two selectors apart, and what the server is asked for. *)
Request(s) == <<s.network, s.station, getSelector(s)>>

=============================================================================
