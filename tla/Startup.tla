-------------------------------- MODULE Startup --------------------------------
(***************************************************************************)
(* What main does before and after the program runs: the command line, the *)
(* .ini file and the options it yields, the telemetry providers, the       *)
(* construction of Process with its writers and its SEEDLink client, the   *)
(* ways each can fail, and what is cleaned up on each way out.             *)
(*                                                                         *)
(* A key of the .ini file is Missing when it is not there or cannot be     *)
(* converted: both give the default.  A section is "absent", has an empty  *)
(* host ("empty"), or has a "host"; the writers' sections agree in their   *)
(* other keys.  The text of a message, the name of a host and its port are *)
(* left out, as are the keys that nothing else depends on.                 *)
(***************************************************************************)
EXTENDS StreamSelector, Integers, FiniteSets, SequencesExt

CONSTANTS Missing,          \* a key that is not there
          Inis,             \* the .ini files
          WithGrpc,         \* WITH_OTLP_GRPC
          MaxRecordSize,    \* the longest record the options accept {512}
          DefaultInterval,  \* mStateFileInterval {100}
          InfoLevel         \* verbosity {3}, from which on INFO is logged

Sections == {"absent", "empty", "host"}

ASSUME StartupAssumption ==
    /\ WithGrpc \in BOOLEAN
    /\ MaxRecordSize \in Nat \ {0}
    /\ InfoLevel \in Nat
    /\ \A ini \in Inis :
           /\ ini.single \in Sections
           /\ ini.numbered \in Seq(Sections)
           /\ {ini.httpMetrics, ini.grpcMetrics, ini.httpLogs, ini.grpcLogs}
                  \subseteq Sections
           /\ ini.recordSize # Missing => ini.recordSize \in Int
           /\ ini.reader.host \in Sections
           /\ ini.reader.selectors \in Seq(Seq(Seq(DOMAIN Capital)))
           /\ ini.reader.stateFile \in BOOLEAN
           /\ {ini.flush, ini.reader.deleteOnStop} \subseteq BOOLEAN \cup {Missing}
           /\ ini.verbosity # Missing => ini.verbosity \in Int

VARIABLES phase,       \* where main is
          ini,         \* the .ini file
          options,     \* ProgramOptions
          providers,   \* the telemetry providers that are set
          writers,     \* mDataLinkClients: those that are connected
          client,      \* the SEEDLink client: what it has been told
          code,        \* the exit code
          stateFile    \* is there a state file from an earlier run?

startupVars == <<phase, ini, options, providers, writers, client, code,
                 stateFile>>

Value(key, default) == IF key = Missing THEN default ELSE key

-----------------------------------------------------------------------------
(* The options.  Each operator yields the set of possible results, which   *)
(* is empty when it throws.                                                *)

(* getDataLinkOptions and the setter test the same range. *)
IsRecordSize(size) == size >= 1 /\ size <= MaxRecordSize

getDataLinkOptions(host, section) ==
    LET size == Value(ini.recordSize, MaxRecordSize)
    IN IF host = "host" /\ IsRecordSize(size)
       THEN {[section |-> section, recordSize |-> size,
              flush |-> Value(ini.flush, TRUE)]}
       ELSE {}

(* The sections that are looked at: "DataLink", or else those with a       *)
(* number, up to the first that is not there.                              *)
NumberedSections ==
    {i \in DOMAIN ini.numbered : \A j \in 1..i : ini.numbered[j] # "absent"}

(* The writers' options in the order of their sections. *)
WriterOptions ==
    IF ini.single # "absent" THEN {<<w>> : w \in getDataLinkOptions(ini.single, 0)}
    ELSE LET n == Cardinality(NumberedSections)
             each == [i \in 1..n |-> getDataLinkOptions(ini.numbered[i], i)]
         IN IF \E i \in 1..n : each[i] = {} THEN {}
            ELSE {[i \in 1..n |-> CHOOSE w \in each[i] : TRUE]}

DefaultClient ==
    [selectors |-> <<>>, stateFile |-> FALSE, deleteOnStart |-> FALSE,
     deleteOnStop |-> FALSE, interval |-> DefaultInterval, ping |-> TRUE]

(* data_selector_i, gaps allowed, each a list of selectors. *)
SelectorLines == FlattenSeq(ini.reader.selectors)

AllParse == \A i \in DOMAIN SelectorLines : CanParse(SelectorLines[i])

(* addStreamSelector refuses a selector that is there already. *)
NoneTwice ==
    \A i, j \in DOMAIN SelectorLines :
        i # j => Request(fromString(SelectorLines[i]))
                     # Request(fromString(SelectorLines[j]))

(* What depends on the state file is read only where there is one.  The    *)
(* update interval, ini.reader.updateInterval, is read into a variable that *)
(* has no sign, found not negative, and forgotten.                         *)
getSEEDLinkOptions ==
    IF ini.reader.host = "empty" \/ ~AllParse \/ ~NoneTwice THEN {}
    ELSE {[DefaultClient EXCEPT
              !.selectors = [i \in DOMAIN SelectorLines |-> fromString(SelectorLines[i])],
              !.stateFile = ini.reader.stateFile,
              !.deleteOnStart = ini.reader.stateFile /\ Value(ini.reader.deleteOnStart, @),
              !.deleteOnStop = ini.reader.stateFile /\ Value(ini.reader.deleteOnStop, @),
              !.ping = Value(ini.reader.ping, @)]}

ClientOptions ==
    IF ini.reader.host = "absent" THEN {DefaultClient} ELSE getSEEDLinkOptions

(* A telemetry section of HTTP hides the one of gRPC, host or no host. *)
Exports(http, grpc) == http = "host" \/ (http = "absent" /\ grpc = "host")

TelemetryThrows ==
    \/ ini.httpMetrics = "host" /\ ini.interval <= 0
    \/ ini.httpMetrics = "absent" /\ ini.grpcMetrics # "absent"
           /\ (~WithGrpc \/ ini.interval <= 0)
    \/ ini.httpLogs = "absent" /\ ini.grpcLogs # "absent" /\ ~WithGrpc

DefaultOptions ==
    [writers |-> <<>>, client |-> DefaultClient, metrics |-> FALSE, logs |-> FALSE,
     verbosity |-> InfoLevel]

parseIniFile ==
    IF TelemetryThrows THEN {}
    ELSE {[writers |-> w, client |-> c,
           metrics |-> Exports(ini.httpMetrics, ini.grpcMetrics),
           logs |-> Exports(ini.httpLogs, ini.grpcLogs),
           verbosity |-> Value(ini.verbosity, InfoLevel)] :
             w \in WriterOptions \ {<<>>}, c \in ClientOptions}

-----------------------------------------------------------------------------
(* main, up to the construction of Process. *)

NoClient == [exists |-> FALSE]

StartupAt(p) ==
    /\ phase = p
    /\ options = DefaultOptions
    /\ providers = {}
    /\ writers = <<>>
    /\ client = NoClient
    /\ code = "none"

StartupInit ==
    /\ StartupAt("commandLine")
    /\ ini \in Inis
    /\ stateFile \in BOOLEAN

Leave(result) == phase' = "returning" /\ code' = result

(* --help, a file that does not exist, no file, a file. *)
ParseCommandLine ==
    /\ phase = "commandLine"
    /\ \/ Leave("success")
       \/ Leave("failure")
       \/ phase' = "logger" /\ UNCHANGED code
       \/ phase' = "iniFile" /\ UNCHANGED code
    /\ UNCHANGED <<ini, options, providers, writers, client, stateFile>>

(* The directory of the state file may not be there and not be made. *)
MayFailToParse ==
    \/ parseIniFile = {}
    \/ ini.reader.host = "host" /\ ini.reader.stateFile

ReadIniFile ==
    /\ phase = "iniFile"
    /\ \/ /\ phase' = "logger"
          /\ options' \in parseIniFile
          /\ UNCHANGED code
       \/ /\ MayFailToParse
          /\ Leave("failure")
          /\ UNCHANGED options
    /\ UNCHANGED <<ini, providers, writers, client, stateFile>>

InitializeLogger ==
    /\ phase = "logger"
    /\ phase' = "metrics"
    /\ providers' = IF options.logs THEN {"logs"} ELSE {}
    /\ UNCHANGED <<ini, options, writers, client, code, stateFile>>

(* The exporter cannot be made, and nobody handles that. *)
InitializeLoggerFails ==
    /\ phase = "logger"
    /\ options.logs
    /\ phase' = "died"
    /\ UNCHANGED <<ini, options, providers, writers, client, code, stateFile>>

InitializeMetrics ==
    /\ phase = "metrics"
    /\ phase' = "process"
    /\ providers' = IF options.metrics THEN providers \cup {"metrics"} ELSE providers
    /\ UNCHANGED <<ini, options, writers, client, code, stateFile>>

(* The exporter cannot be made. *)
MetricsFail(left) ==
    /\ phase = "metrics"
    /\ options.metrics
    /\ Leave("failure")
    /\ providers' = left
    /\ UNCHANGED <<ini, options, writers, client, stateFile>>

(* Mutant: the logger is forgotten. *)
MetricsFailOnly == MetricsFail(providers)

InitializeMetricsFails == MetricsFail({})

-----------------------------------------------------------------------------
(* The constructor of Process.  When it throws, what it has made is        *)
(* destroyed before the handler cleans up.                                 *)

ProcessFails ==
    /\ Leave("failure")
    /\ writers' = <<>>
    /\ client' = NoClient
    /\ providers' = {}
    /\ UNCHANGED <<ini, options>>

NoWriters ==
    /\ phase = "process"
    /\ options.writers = <<>>
    /\ ProcessFails
    /\ UNCHANGED stateFile

Connect ==
    /\ phase = "process"
    /\ Len(writers) < Len(options.writers)
    /\ writers' = Append(writers, options.writers[Len(writers) + 1])
    /\ UNCHANGED <<phase, ini, options, providers, client, code, stateFile>>

ConnectFails ==
    /\ phase = "process"
    /\ Len(writers) < Len(options.writers)
    /\ ProcessFails
    /\ UNCHANGED stateFile

AllConnected ==
    /\ phase = "process"
    /\ writers # <<>>
    /\ Len(writers) = Len(options.writers)

(* initialize: the handle, and the state file, which may be there and be   *)
(* removed long before the server is known to answer.                      *)
InitializeClient ==
    /\ AllConnected
    /\ phase' = "selectors"
    /\ client' = [exists |-> TRUE, tried |-> 0, streams |-> {}, refused |-> {},
                  allStations |-> FALSE, stateFile |-> options.client.stateFile,
                  interval |-> options.client.interval,
                  deleteOnStop |-> options.client.deleteOnStop]
    /\ \/ stateFile' = (stateFile /\ ~options.client.deleteOnStart)
       \/ UNCHANGED stateFile     \* it cannot be removed
    /\ UNCHANGED <<ini, options, providers, writers, code>>

(* sl_add_stream takes the selector or not; the next one is tried. *)
AddSelector ==
    /\ phase = "selectors"
    /\ client.tried < Len(options.client.selectors)
    /\ LET request == Request(options.client.selectors[client.tried + 1])
           next == [client EXCEPT !.tried = @ + 1]
       IN \/ client' = [next EXCEPT !.streams = @ \cup {request}]
          \/ client' = [next EXCEPT !.refused = @ \cup {request}]
    /\ UNCHANGED <<phase, ini, options, providers, writers, code, stateFile>>

AllTried ==
    /\ phase = "selectors"
    /\ client.tried = Len(options.client.selectors)

SelectorsDone(all) ==
    /\ AllTried
    /\ phase' = "ping"
    /\ client' = [client EXCEPT !.allStations = all]
    /\ UNCHANGED <<ini, options, providers, writers, code, stateFile>>

(* Mutant: all stations unless every selector was taken. *)
AllStationsOnRefusal == SelectorsDone(client.streams = {} \/ client.refused # {})

(* Uni-station mode when no stream is left, whatever was specified. *)
SetStations == SelectorsDone(client.streams = {})

(* An answer that makes no sense is as good as a good one. *)
Ping ==
    /\ phase = "ping"
    /\ phase' = "start"
    /\ UNCHANGED <<ini, options, providers, writers, client, code, stateFile>>

(* No handle or no address, no uni-station mode, no answer. *)
InitializeFails ==
    /\ \/ AllConnected
       \/ AllTried /\ client.streams = {}
       \/ phase = "ping" /\ options.client.ping
    /\ ProcessFails
    /\ UNCHANGED stateFile

-----------------------------------------------------------------------------
(* main: the run and the ways out.  What the run does is in Relay. *)

Start ==
    /\ phase = "start"
    /\ phase' = "running"
    /\ UNCHANGED <<ini, options, providers, writers, client, code, stateFile>>

(* handleMainThread returns once stop() has destroyed the clients. *)
Finish ==
    /\ phase = "running"
    /\ Leave("success")
    /\ writers' = <<>>
    /\ client' = NoClient
    /\ providers' = {}
    /\ UNCHANGED <<ini, options, stateFile>>

(* The process is still there when the handler cleans up. *)
StartFails ==
    /\ phase = "start"
    /\ Leave("failure")
    /\ providers' = {}
    /\ UNCHANGED <<ini, options, writers, client, stateFile>>

(* Leaving main destroys what is left of the process: stop() says that it  *)
(* terminates the SEEDLink client, if there is one, and the threads may    *)
(* have something to say at any verbosity.  A logger that exports to a     *)
(* provider that is gone takes the program down before anything is         *)
(* destroyed.                                                              *)
Orphaned == client.exists /\ options.logs /\ "logs" \notin providers

Return ==
    /\ phase = "returning"
    /\ ~(Orphaned /\ options.verbosity >= InfoLevel)
    /\ phase' = "exited"
    /\ writers' = <<>>
    /\ client' = NoClient
    /\ UNCHANGED <<ini, options, providers, code, stateFile>>

ReturnDies ==
    /\ phase = "returning"
    /\ Orphaned
    /\ phase' = "died"
    /\ UNCHANGED <<ini, options, providers, writers, client, code, stateFile>>

StartupNext ==
    \/ ParseCommandLine
    \/ ReadIniFile
    \/ InitializeLogger
    \/ InitializeLoggerFails
    \/ InitializeMetrics
    \/ InitializeMetricsFails
    \/ NoWriters
    \/ Connect
    \/ ConnectFails
    \/ InitializeClient
    \/ AddSelector
    \/ SetStations
    \/ Ping
    \/ InitializeFails
    \/ Start
    \/ StartFails
    \/ Finish
    \/ Return
    \/ ReturnDies

-----------------------------------------------------------------------------
(* Properties. *)

(* What runs is what the .ini file says.  The writers are those of the     *)
(* section "DataLink" alone, or of the numbered ones before the first gap, *)
(* with record lengths the packer can use and the flushing asked for.      *)
(* Every selector was tried once, and those the server was not asked for   *)
(* were refused; all stations are asked for only when no selector is left. *)
(* Without a section for the reader it has the defaults.  The exception is *)
(* the update interval of the state file: it is the default, whatever the  *)
(* file says.  Telemetry is provided for what is exported.                 *)
RunsAsConfigured ==
    phase = "running" =>
        LET sections == {writers[i].section : i \in DOMAIN writers}
            reader == ini.reader
            given == reader.host = "host"
            lines == IF given THEN SelectorLines ELSE <<>>
            requests == {Request(fromString(line)) : line \in Range(lines)}
        IN /\ IF ini.single = "host" THEN sections = {0}
              ELSE /\ sections = 1..Len(writers)
                   /\ Len(writers) < Len(ini.numbered) =>
                          ini.numbered[Len(writers) + 1] = "absent"
           /\ \A i \in DOMAIN writers :
                  /\ writers[i].section > 0 => ini.numbered[i] = "host"
                  /\ writers[i].recordSize \in 1..MaxRecordSize
                  /\ ini.recordSize # Missing => writers[i].recordSize = ini.recordSize
                  /\ writers[i].flush = Value(ini.flush, TRUE)
           /\ client.streams \cup client.refused = requests
           /\ client.streams \cap client.refused = {}
           /\ Cardinality(requests) = Len(lines)
           /\ client.allStations <=> client.streams = {}
           /\ client.stateFile = (given /\ reader.stateFile)
           /\ client.deleteOnStop =
                  (given /\ reader.stateFile /\ Value(reader.deleteOnStop, FALSE))
           /\ client.interval = DefaultInterval
           /\ "logs" \in providers <=> Exports(ini.httpLogs, ini.grpcLogs)
           /\ "metrics" \in providers <=> Exports(ini.httpMetrics, ini.grpcMetrics)

(* However main ends, no telemetry provider outlives it; and a program     *)
(* that has run to its end returns: it logs nothing to a provider that is  *)
(* gone.                                                                   *)
CleanedUpAtExit ==
    /\ phase \in {"exited", "died"} => providers = {}
    /\ phase = "died" => code # "success"

=============================================================================
