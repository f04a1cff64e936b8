-------------------------------- MODULE Program --------------------------------
(***************************************************************************)
(* The program from its command line to its exit: main, the .ini file and  *)
(* the constructions (Startup), and while it runs, the way of a buffer     *)
(* from SEEDLink to the records that the configured writers send           *)
(* (Conversion).  The threads of the run are in Relay; here one buffer at  *)
(* a time is converted.  The same classes used without main, as the test   *)
(* programs use them, are the phase "library", which a behaviour starts in *)
(* or never enters.                                                        *)
(***************************************************************************)
EXTENDS Conversion, Startup

vars == <<conversionVars, startupVars>>

-----------------------------------------------------------------------------
(* Values for the constants: tokens of selectors, .ini files, records.     *)

Tokens == {"", "*", "U", "uu", "UU", "FORK", "HH?", "01", "D"}
ShortTokens == {"", "*", "U", "D"}
PairTokens == {"uu", "UU"}
Capitals == [t \in Tokens |-> IF t = "uu" THEN "UU" ELSE t]

Reader ==
    [host |-> "host", stateFile |-> FALSE, deleteOnStart |-> Missing,
     deleteOnStop |-> Missing, updateInterval |-> Missing, ping |-> FALSE,
     selectors |-> <<>>]

Plainest ==
    [single |-> "host", numbered |-> <<>>, recordSize |-> Missing,
     flush |-> Missing, httpMetrics |-> "absent", grpcMetrics |-> "absent",
     httpLogs |-> "absent", grpcLogs |-> "absent", interval |-> 1,
     verbosity |-> Missing,
     reader |-> [Reader EXCEPT !.host = "absent"]]

WriterInis ==
    {[Plainest EXCEPT !.single = s, !.numbered = n] :
        s \in Sections,
        n \in {<<>>, <<"host", "host">>, <<"host", "absent", "host">>,
               <<"absent", "host">>, <<"host", "empty">>}}
    \cup {[Plainest EXCEPT !.recordSize = n, !.flush = f] :
             n \in {Missing, 0, 1, 2, 3, MaxRecordSize, MaxRecordSize + 1},
             f \in {Missing, FALSE}}

TelemetryInis ==
    {[Plainest EXCEPT !.single = s, !.httpMetrics = m[1], !.grpcMetrics = m[2],
                      !.httpLogs = l[1], !.grpcLogs = l[2], !.interval = i] :
        s \in {"absent", "host"}, i \in {0, 1},
        m \in {<<"absent", "absent">>, <<"host", "absent">>, <<"empty", "host">>,
               <<"absent", "empty">>, <<"absent", "host">>},
        l \in {<<"absent", "absent">>, <<"host", "absent">>, <<"empty", "host">>}}
    \cup {[Plainest EXCEPT !.grpcLogs = "host", !.verbosity = v] :
             v \in {Missing, InfoLevel - 1, InfoLevel}}

StateFileInis ==
    {[Plainest EXCEPT !.reader = [Reader EXCEPT !.host = h, !.stateFile = f,
                     !.deleteOnStart = d, !.deleteOnStop = e, !.updateInterval = i,
                     !.ping = Missing]] :
        h \in {"empty", "host"}, f \in BOOLEAN, d \in {Missing, TRUE},
        e \in {Missing, TRUE}, i \in {Missing, -1, 1}}

ShortLine == <<"uu", "FORK">>
Selectors ==
    {<<"UU">>, <<"U", "FORK">>, <<"UU", "FORK">>, <<"UU", "", "HH?">>,
     <<"UU", "FORK", "HH?">>, <<"UU", "FORK", "HH?", "01">>,
     <<"UU", "FORK", "HH?", "D">>, <<"UU", "FORK", "HH?", "01", "D">>}

SelectorInis ==
    {[Plainest EXCEPT !.reader = [Reader EXCEPT !.selectors = lines]] :
        lines \in {<<<<s>>>> : s \in Selectors}
                  \cup {<<<<s, ShortLine>>>> : s \in Selectors}
                  \cup {<<<<ShortLine>>, <<s, <<"UU", "FORK", "01">>>>>> : s \in Selectors}}

IniFiles == WriterInis \cup TelemetryInis \cup StateFileInis \cup SelectorInis

(* The codes of a stream without the location code, which may be missing.  *)
Raw(parsed, codes, location, rate, samples, type) ==
    [parsed |-> parsed, network |-> codes[1], station |-> codes[2],
     channel |-> codes[3], location |-> location, rate |-> rate, start |-> 7,
     samples |-> samples, type |-> type]

ABA == <<"A", "B", "A">>
BAA == <<"B", "A", "A">>

Records ==
    {Raw("yes", ABA, "", 3, 2, "Integer32"), Raw("yes", BAA, "01", 8, 3, "Double"),
     Raw("yes", ABA, "01", 3, 0, "Text"), Raw("yes", ABA, "", 0, 1, "Integer32"),
     Raw("yes", <<"A", "", "A">>, "", 3, 1, "Integer32"),
     Raw("yes", BAA, "", 3, 1, "Text"), Raw("no", ABA, "", 3, 1, "Text"),
     Raw("tail", ABA, "", 3, 0, "Text")}

(* What is too short to be a record comes last. *)
BuffersReceived ==
    {b \in UNION {[1..n -> Records] : n \in 1..2} :
        \A i \in DOMAIN b : b[i].parsed = "tail" => i = Len(b)}

-----------------------------------------------------------------------------
(* In the phase "library" the .ini file is of no consequence. *)
Init ==
    /\ ConversionInit
    /\ \/ StartupInit
       \/ /\ StartupAt("library")
          /\ ini = Plainest
          /\ stateFile = FALSE

UsesLibrary ==
    /\ phase = "library"
    /\ LibraryNext
    /\ UNCHANGED startupVars

Converts ==
    /\ phase = "running"
    /\ ProgramNext(Range(writers))
    /\ UNCHANGED startupVars

(* The end of the run takes the buffer with it. *)
Main ==
    /\ StartupNext
    /\ IF phase = "running" /\ phase' # "running"
       THEN /\ packet' = NoPacket
            /\ buffer' = <<>>
            /\ unpacking' = FALSE
            /\ unpacked' = <<>>
            /\ handed' = 0
            /\ sent' = NothingSent
            /\ UNCHANGED identifier
       ELSE UNCHANGED conversionVars

Next == UsesLibrary \/ Converts \/ Main

Spec == Init /\ [][Next]_vars

=============================================================================
