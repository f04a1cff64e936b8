---------------------------- MODULE SEEDLinkClient ----------------------------
(***************************************************************************)
(* The SEEDLinkClient: the thread of packetToCallback, the thread that     *)
(* calls stop() and then destroys the client, and the state file that      *)
(* outlives both, over several runs of the process and its crashes.        *)
(*                                                                         *)
(* External: the SEEDLink server and its library.  The server numbers its  *)
(* packets 1, 2, 3, ... and keeps them.  The library resumes after the     *)
(* sequence number of the stream; without one (Unset) it starts with the   *)
(* next packet to come, and it does so again whenever it reconnects.       *)
(* sl_savestate truncates the file before it writes it, and may fail: the  *)
(* file cannot be opened and stays as it is, or cannot be written and stays *)
(* torn.  The client never looks at its result.                            *)
(*                                                                         *)
(* One stream is modelled; a buffer with several records counts as one     *)
(* packet.  Whether a packet is too large, and whether it can be decoded,  *)
(* is found out when it comes, and is the same when it is sent again.      *)
(* INFO and keep-alive packets change nothing and are left out.            *)
(***************************************************************************)
EXTENDS Integers, Sequences, FiniteSets, SequencesExt

CONSTANTS Interval,      \* mStateFileUpdateInterval
          MaxPackets,    \* bound: packets the server produces
          MaxLost,       \* bound: packets too large or not decodable
          MaxRuns        \* bound: times the process is started

ASSUME SEEDLinkAssumption ==
    /\ Interval \in Nat
    /\ MaxPackets \in Nat
    /\ MaxLost \in Nat
    /\ MaxRuns \in Nat \ {0}

VARIABLES options,      \* the state file options of the .ini file
          alive,        \* the process runs
          pc,           \* where the thread is
          keepRunning,  \* mKeepRunning
          terminate,    \* mSEEDLinkConnection->terminate
          stopper,      \* where the thread that stops and destroys is
          produced,     \* packets 1..produced exist at the server
          origin,       \* without a sequence number, start after this packet
          seq,          \* the sequence number of the stream, or Unset
          file,         \* the state file
          updateCount,  \* updateStateFile
          gaveUp,       \* why the thread left its loop by itself
          handed,       \* history: packets given to the callback, over all runs
          tooLarge,     \* history: packets too large for the buffer
          undecodable,  \* history: packets that could not be unpacked
          passed,       \* history: packets an Unset start passed over
          runs,         \* how often the process was started
          unsaved,      \* history: a run ended without its last save
          missed        \* history: packets counted for saves never begun

processVars == <<options, alive>>
stopVars == <<keepRunning, terminate, stopper>>
serverVars == <<produced, origin>>
countVars == <<updateCount, gaveUp>>
packetVars == <<handed, tooLarge, undecodable, passed>>
historyVars == <<packetVars, runs, unsaved, missed>>
vars == <<processVars, pc, stopVars, serverVars, seq, file, countVars,
          historyVars>>

Unset == 0                  \* SL_UNSETSEQUENCE

Absent == [kind |-> "absent", seq |-> Unset]
Torn == [kind |-> "torn", seq |-> Unset]
Saved(n) == [kind |-> "saved", seq |-> n]

Finished == {"returned", "threw"}

(* The deletions apply only when there is a state file. *)
Options ==
    {o \in [useStateFile : BOOLEAN, deleteOnStart : BOOLEAN,
            deleteOnStop : BOOLEAN] :
        o.deleteOnStart \/ o.deleteOnStop => o.useStateFile}

(* The process has not been started yet. *)
Init ==
    /\ options \in Options
    /\ alive = FALSE
    /\ pc = "returned"
    /\ keepRunning = FALSE
    /\ terminate = FALSE
    /\ stopper = "gone"
    /\ produced = 0
    /\ origin = 0
    /\ seq = Unset
    /\ file = Absent
    /\ updateCount = 1
    /\ gaveUp = "no"
    /\ handed = <<>>
    /\ tooLarge = {}
    /\ undecodable = {}
    /\ passed = {}
    /\ runs = 0
    /\ unsaved = FALSE
    /\ missed = 0

-----------------------------------------------------------------------------
(* The server. *)

Produce ==
    /\ produced < MaxPackets
    /\ produced' = produced + 1
    /\ UNCHANGED <<processVars, pc, stopVars, origin, seq, file, countVars,
                   historyVars>>

NextPacket == (IF seq = Unset THEN origin ELSE seq) + 1

Decoded == ToSet(handed)
Lost == tooLarge \cup undecodable
Seen == Decoded \cup Lost \cup passed

(* Packets are passed over when the library starts without a number. *)
Subscribe ==
    /\ origin' = produced
    /\ passed' = IF seq' = Unset THEN passed \cup ((1..produced) \ Seen)
                                 ELSE passed
    /\ pc' = "loop"
    /\ UNCHANGED <<processVars, stopVars, produced, file, countVars, handed,
                   tooLarge, undecodable, runs, unsaved, missed>>

(* The link drops, and the library reconnects inside sl_collect. *)
Reconnect == pc = "collect" /\ seq' = seq /\ Subscribe

-----------------------------------------------------------------------------
(* The start of the process: initialize, then start(). *)

Start ==
    /\ ~alive
    /\ runs < MaxRuns
    /\ alive' = TRUE
    /\ runs' = runs + 1
    /\ file' = IF options.deleteOnStart THEN Absent ELSE file
    /\ seq' = Unset
    /\ keepRunning' = TRUE
    /\ terminate' = FALSE
    /\ stopper' = "away"
    /\ updateCount' = 1
    /\ gaveUp' = "no"
    /\ pc' = "recover"
    /\ UNCHANGED <<options, serverVars, packetVars, unsaved, missed>>

-----------------------------------------------------------------------------
(* The thread. *)

Goto(place) ==
    /\ pc' = place
    /\ UNCHANGED <<processVars, stopVars, serverVars, seq, file, countVars,
                   historyVars>>

(* Mutant: the state in the file is not recovered. *)
RecoverNothing == pc = "recover" /\ seq' = Unset /\ Subscribe

(* sl_recoverstate, and the connection made with what it found.  A torn    *)
(* file may also look like one without sequence numbers.                   *)
Recover ==
    /\ pc = "recover"
    /\ seq' = IF options.useStateFile THEN file.seq ELSE Unset
    /\ Subscribe

RecoverFails ==
    pc = "recover" /\ options.useStateFile /\ file.kind = "torn" /\ Goto("threw")

(* Mutant: the loop does not look at mKeepRunning. *)
TestNothing == pc = "loop" /\ Goto("collect")

(* The loop condition is read once per round. *)
TestRunning == pc = "loop" /\ Goto(IF keepRunning THEN "collect" ELSE "purge")

(* The library moves the sequence number before it returns the packet. *)
Collect(place) ==
    /\ pc = "collect"
    /\ NextPacket <= produced
    /\ seq' = NextPacket
    /\ pc' = place
    /\ UNCHANGED <<processVars, stopVars, serverVars, countVars, handed,
                   undecodable, passed, runs, unsaved, missed>>

(* Mutant: the state is saved before the packet is handed on. *)
CollectAndSave ==
    /\ Collect("unpack")
    /\ NextPacket \notin tooLarge
    /\ file' = IF options.useStateFile THEN Saved(NextPacket) ELSE file
    /\ UNCHANGED tooLarge

(* SLPACKET with data. *)
CollectPacket ==
    /\ Collect("unpack")
    /\ NextPacket \notin tooLarge
    /\ UNCHANGED <<file, tooLarge>>

(* SLTOOLARGE: the packet is lost, and not counted for the state file. *)
CollectTooLarge ==
    /\ Collect("loop")
    /\ NextPacket \notin Decoded \cup undecodable
    /\ tooLarge' = tooLarge \cup {NextPacket}
    /\ Cardinality(Lost') <= MaxLost
    /\ UNCHANGED file

(* SLNOPACKET, or a value the loop does not handle. *)
CollectNothing == pc = "collect" /\ Goto("loop")

(* SLTERMINATE, because terminate was set or because the library gives up. *)
CollectTerminate ==
    /\ pc = "collect"
    /\ gaveUp' = IF terminate THEN "asked" ELSE "aborted"
    /\ pc' = "purge"
    /\ UNCHANGED <<processVars, stopVars, serverVars, seq, file, updateCount,
                   historyVars>>

Unpack ==
    /\ pc = "unpack"
    /\ pc' = "count"
    /\ UNCHANGED <<processVars, stopVars, serverVars, seq, file, countVars,
                   tooLarge, passed, runs, unsaved, missed>>

(* miniSEEDToDataPackets and the callback. *)
HandToCallback ==
    /\ Unpack
    /\ seq \notin undecodable
    /\ handed' = Append(handed, seq)
    /\ UNCHANGED undecodable

UnpackFails ==
    /\ Unpack
    /\ seq \notin Decoded
    /\ undecodable' = undecodable \cup {seq}
    /\ Cardinality(Lost') <= MaxLost
    /\ UNCHANGED handed

SaveIsDue == options.useStateFile /\ updateCount > Interval

(* The save begins, or the packet is only counted. *)
CountTo(afterSave) ==
    /\ pc = "count"
    /\ updateCount' = IF SaveIsDue THEN afterSave
                      ELSE updateCount + (IF options.useStateFile THEN 1 ELSE 0)
    /\ file' = IF SaveIsDue THEN Torn ELSE file
    /\ pc' = IF SaveIsDue THEN "save" ELSE "loop"
    /\ UNCHANGED <<processVars, stopVars, serverVars, seq, gaveUp, historyVars>>

(* Mutant: the state is not saved while the thread runs. *)
CountOnly == pc = "count" /\ Goto("loop")

(* The save is due every so many data packets ... *)
CountPacket == CountTo(1)

(* ... but the count starts again as well when the file cannot be opened.  *)
CountUnsaved ==
    /\ pc = "count"
    /\ SaveIsDue
    /\ updateCount' = 1
    /\ missed' = missed + updateCount
    /\ pc' = "loop"
    /\ UNCHANGED <<processVars, stopVars, serverVars, seq, file, gaveUp,
                   packetVars, runs, unsaved>>

WriteFile(from, contents, to) ==
    /\ pc = from
    /\ file' = contents
    /\ pc' = to
    /\ UNCHANGED <<processVars, stopVars, serverVars, seq, countVars, historyVars>>

(* The save is done when the number is in the file; or writing fails. *)
SaveState == WriteFile("save", Saved(seq), "loop")
SaveFails == pc = "save" /\ Goto("loop")

(* After the loop: the state file goes if the options say so. *)
PurgeStateFile ==
    WriteFile("purge", IF options.deleteOnStop THEN Absent ELSE file, "verdict")

PurgeFails ==
    pc = "purge" /\ options.deleteOnStop /\ file # Absent /\ Goto("threw")

(* A thread that finds mKeepRunning still set reports a premature end. *)
Verdict == pc = "verdict" /\ Goto(IF keepRunning THEN "threw" ELSE "returned")

Collecting ==
    \/ Reconnect \/ CollectPacket \/ CollectTooLarge \/ CollectNothing
    \/ CollectTerminate

Thread ==
    /\ alive
    /\ \/ Recover \/ RecoverFails \/ TestRunning \/ Collecting
       \/ HandToCallback \/ UnpackFails \/ CountPacket \/ CountUnsaved
       \/ SaveState \/ SaveFails \/ PurgeStateFile \/ PurgeFails \/ Verdict

-----------------------------------------------------------------------------
(* The main thread: stop(), wait for the future, destroy the client. *)

StopperGoto(from, to) ==
    /\ stopper = from
    /\ stopper' = to
    /\ UNCHANGED <<options, pc, serverVars, seq, countVars, packetVars, runs,
                   missed>>

(* setRunning(false) tests the flag, ... *)
StopTests ==
    /\ alive
    /\ StopperGoto("away", IF keepRunning THEN "terminating" ELSE "storing")
    /\ UNCHANGED <<alive, keepRunning, terminate, file, unsaved>>

(* ... terminates the connection, ... *)
StopTerminates ==
    /\ StopperGoto("terminating", "storing")
    /\ terminate' = TRUE
    /\ UNCHANGED <<alive, keepRunning, file, unsaved>>

(* ... and only then tells the thread. *)
StopStores ==
    /\ StopperGoto("storing", "joining")
    /\ keepRunning' = FALSE
    /\ UNCHANGED <<alive, terminate, file, unsaved>>

(* The future is ready; the destructor stops again, to no effect, and      *)
(* disconnects, which saves the state ...                                  *)
Disconnect ==
    /\ pc \in Finished
    /\ StopperGoto("joining", "saving")
    /\ file' = IF options.useStateFile THEN Torn ELSE file
    /\ UNCHANGED <<alive, keepRunning, terminate, unsaved>>

ExitSaving(number) ==
    /\ StopperGoto("saving", "gone")
    /\ file' = IF options.useStateFile THEN Saved(number) ELSE file
    /\ alive' = FALSE
    /\ UNCHANGED <<keepRunning, terminate, unsaved>>

(* Mutant: the number saved is that of the packet before the last. *)
ExitSavesStale == ExitSaving(IF seq = Unset THEN Unset ELSE seq - 1)

(* ... before the process ends, ... *)
Exit == ExitSaving(seq)

(* ... or fails to, at opening or at writing, and the process ends anyway. *)
ExitUnsaved ==
    /\ options.useStateFile
    /\ pc \in Finished
    /\ StopperGoto("joining", "gone") \/ StopperGoto("saving", "gone")
    /\ alive' = FALSE
    /\ unsaved' = TRUE
    /\ UNCHANGED <<keepRunning, terminate, file>>

Stop ==
    /\ alive
    /\ \/ StopTerminates \/ StopStores \/ Disconnect \/ Exit \/ ExitUnsaved

(* The process dies at any point; the file stays as it is. *)
Crash ==
    /\ alive
    /\ alive' = FALSE
    /\ pc' = "returned"
    /\ stopper' = "crashed"
    /\ unsaved' = TRUE
    /\ UNCHANGED <<options, keepRunning, terminate, serverVars, seq, file,
                   countVars, packetVars, runs, missed>>

Next == Produce \/ Start \/ Thread \/ StopTests \/ Stop \/ Crash

(* The thread is scheduled, library calls return, and a stop that began    *)
(* goes on.  Nobody need start or stop the process.                        *)
Spec == Init /\ [][Next]_vars /\ WF_vars(Thread) /\ WF_vars(Stop)

-----------------------------------------------------------------------------
(* Properties. *)

(* No packet is missed between two packets the client collected, over all  *)
(* runs: each was handed to the callback, could not be decoded, or came    *)
(* while the client had no sequence number to resume from.  The state file *)
(* is never ahead of the callback, wherever the process crashes.           *)
NoGap ==
    \A n \in Decoded : 1..n \subseteq Seen

(* As long as every run ended with its last save, no packet is handed to   *)
(* the callback twice, in however many runs and whichever of the saves     *)
(* before the last failed: the destructor saves the state after the thread *)
(* has ended.                                                              *)
NoDuplicateWhenSaved ==
    ~unsaved => \A i, j \in 1..Len(handed) : i < j => handed[i] < handed[j]

(* What the server can be made to send again: at most Interval + 1 decoded *)
(* packets lie beyond the number in a state file, and those counted for    *)
(* the saves that failed because the file could not be opened: the count   *)
(* starts again whether or not the state was saved.                        *)
RedeliveryBound ==
    options.useStateFile /\ file.kind = "saved" /\ file.seq # Unset =>
        Cardinality({n \in Decoded : n > file.seq}) <= Interval + 1 + missed

(* The state file is kept from run to run, and each run left its last      *)
(* number in it.                                                           *)
Resumes ==
    /\ options.useStateFile
    /\ ~options.deleteOnStart /\ ~options.deleteOnStop
    /\ ~unsaved

(* Each run goes on where the last one stopped: packets are passed over    *)
(* only before the first one that was ever handed on.                      *)
NothingSkipped ==
    Resumes => \A n \in passed, m \in Decoded : n < m

(* stop() and the destruction end, whatever the thread is doing. *)
StopEnds ==
    stopper \in {"terminating", "storing", "joining", "saving"} ~> ~alive

-----------------------------------------------------------------------------
(* Claims of the documentation and of comments that the code does not meet.*)

(* "Setting this to true will result in the state file being deleted on    *)
(* application shut down" (seedLinkClientOptions.hpp): after a clean       *)
(* shutdown there is no state file.                                        *)
DeletedOnStop ==
    options.deleteOnStop /\ stopper = "gone" => file = Absent

(* "Tell the scraping thread to quit if it hasn't already given up because *)
(* it received a terminate request" (setRunning): giving up on request is  *)
(* an orderly end, so such a thread does not throw "Premature end".  (It    *)
(* may throw because it cannot delete the state file.)                     *)
AskedMeansOrderly ==
    gaveUp = "asked" /\ ~options.deleteOnStop => pc # "threw"

(* "After this many packets are written the state file will be updated"    *)
(* (seedLinkClientOptions.hpp): while the thread polls, no more than       *)
(* Interval - 1 decoded packets are newer than the last update, when no    *)
(* update failed.                                                          *)
UpdatedOnTime ==
    options.useStateFile /\ alive /\ pc = "loop" /\ file.kind = "saved" /\ missed = 0 =>
        Cardinality({n \in Decoded : n > file.seq}) < Interval

=============================================================================
