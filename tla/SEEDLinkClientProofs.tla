------------------------- MODULE SEEDLinkClientProofs -------------------------
(***************************************************************************)
(* The safety properties of SEEDLinkClient for every value of the          *)
(* constants: any number of packets, runs, crashes and reconnections.      *)
(***************************************************************************)
EXTENDS SEEDLinkClient, FiniteSetTheorems, WellFoundedInduction, TLAPS

Places == {"recover", "loop", "collect", "unpack", "count", "save", "purge",
           "verdict", "returned", "threw"}

Files == {Absent, Torn} \cup {Saved(n) : n \in Nat}

(* Where the places are, what is known there, and who has the file. *)
TypeInv ==
    /\ options \in Options
    /\ alive \in BOOLEAN
    /\ pc \in Places
    /\ produced \in Nat
    /\ origin \in Nat /\ origin <= produced
    /\ seq \in Nat /\ seq <= produced
    /\ file \in Files
    /\ file.seq \in Nat /\ file.seq <= produced
    /\ updateCount \in Nat /\ 1 <= updateCount /\ updateCount <= Interval + 1
    /\ handed \in Seq(Nat)
    /\ \A n \in Decoded : n \in Nat /\ 1 <= n /\ n <= produced
    /\ \A n \in passed : n \in Nat /\ n <= produced
    /\ unsaved \in BOOLEAN
    /\ missed \in Nat

PlacesInv ==
    /\ pc = "recover" => seq = Unset
    /\ pc \in {"unpack", "count", "save"} => seq # Unset
    /\ pc = "save" => options.useStateFile
    /\ stopper = "saving" => pc \in Finished
    /\ stopper = "gone" => ~alive
    /\ ~options.useStateFile => file = Absent

(* Everything before the place the client is at, or would resume from, is  *)
(* accounted for.                                                          *)
GapInv ==
    /\ \A n \in Decoded : 1..n \subseteq Seen
    /\ 1..file.seq \subseteq Seen
    /\ alive => 1..seq \subseteq (IF pc = "unpack" THEN Seen \cup {seq} ELSE Seen)
    /\ alive /\ seq = Unset /\ pc \in {"loop", "collect"} => 1..origin \subseteq Seen

(* A start without a number is after all that was handed on; so is, as     *)
(* long as every run was saved at its end, the client's place and a number *)
(* in the file.                                                            *)
OrderInv ==
    /\ alive /\ seq = Unset /\ pc \in {"loop", "collect"} =>
           \A n \in Decoded : n <= origin
    /\ ~unsaved =>
           /\ \A i, j \in 1..Len(handed) : i < j => handed[i] < handed[j]
           /\ alive /\ seq # Unset =>
                  \A n \in Decoded : n <= seq /\ (pc = "unpack" => n # seq)
           /\ (~alive \/ pc = "recover") /\ file.seq # Unset =>
                  \A n \in Decoded : n <= file.seq

(* The packets after x up to n, except those in T, which are too large. *)
Sent(T, x, n) == (x + 1 .. n) \ T

(* How far the client may get ahead of a number it saved. *)
Reach == Interval + 1 + missed

(* Whatever was decoded after x is within reach of it. *)
Near(x) ==
    \A n \in Decoded : n > x => Cardinality(Sent(tooLarge, x, n)) <= Reach

(* A packet that is in hand and not counted yet. *)
Weight(place) == IF place \in {"unpack", "count"} THEN 1 ELSE 0

(* updateCount counts the packets since the file was written, or should    *)
(* have been; missed counts those before that.                             *)
RedeliveryInv ==
    /\ Decoded \cap tooLarge = {}
    /\ alive /\ pc = "unpack" => seq \notin tooLarge
    /\ file.seq # Unset => Near(file.seq)
    /\ alive /\ options.useStateFile /\ seq # Unset => Near(seq)
    /\ alive /\ pc # "recover" /\ file.seq # Unset =>
           /\ file.seq <= seq
           /\ Cardinality(Sent(tooLarge, file.seq, seq)) <=
                  updateCount - 1 + Weight(pc) + missed

(* While the client resumes where it stopped: without a number nothing was *)
(* handed on yet, and what was passed over is before its place.            *)
SkipInv ==
    Resumes =>
        /\ \A n \in passed, m \in Decoded : n < m
        /\ alive /\ pc # "recover" /\ seq = Unset => Decoded = {}
        /\ alive /\ seq # Unset => \A n \in passed : n < seq
        /\ alive /\ seq = Unset /\ pc \in {"loop", "collect"} =>
               \A n \in passed : n <= origin
        /\ (~alive \/ pc = "recover") /\ file.seq = Unset => Decoded = {}
        /\ (~alive \/ pc = "recover") /\ file.seq # Unset =>
               \A n \in passed : n < file.seq

-----------------------------------------------------------------------------
(* Facts about the data. *)

(* The file as a record.                                                   *)
LEMMA FileFacts ==
    /\ Absent.seq = Unset /\ Absent.kind = "absent"
    /\ Torn.seq = Unset /\ Torn.kind = "torn"
    /\ \A n : Saved(n).seq = n /\ Saved(n).kind = "saved"
    /\ \A f \in Files : f.kind = "saved" => f = Saved(f.seq)
    /\ Absent \in Files /\ Torn \in Files /\ \A n \in Nat : Saved(n) \in Files
<1>1. /\ Absent.seq = Unset /\ Absent.kind = "absent"
      /\ Torn.seq = Unset /\ Torn.kind = "torn"
  BY DEF Absent, Torn
<1>2. \A n : Saved(n).seq = n /\ Saved(n).kind = "saved"
  BY DEF Saved
<1>3. Absent \in Files /\ Torn \in Files /\ \A n \in Nat : Saved(n) \in Files
  BY Zenon DEF Files
<1>4. ASSUME NEW f \in Files, f.kind = "saved"
      PROVE  f = Saved(f.seq)
  <2>1. f # Absent /\ f # Torn
    BY <1>1, <1>4
  <2>2. PICK n \in Nat : f = Saved(n)
    BY <2>1, Zenon DEF Files
  <2>3. QED
    BY <1>2, <2>2
<1>5. QED
  BY <1>1, <1>2, <1>3, <1>4

(* One more packet handed on.                                              *)
LEMMA DecodedAppend ==
    ASSUME handed \in Seq(Nat), NEW n \in Nat, handed' = Append(handed, n)
    PROVE  Decoded' = Decoded \cup {n}
<1>1. /\ DOMAIN handed' = 1..(Len(handed) + 1)
      /\ DOMAIN handed = 1..Len(handed)
      /\ \A i \in 1..Len(handed) : handed'[i] = handed[i]
      /\ handed'[Len(handed) + 1] = n
  OBVIOUS
<1>2. Decoded' = {handed'[i] : i \in DOMAIN handed'}
  BY DEF Decoded, ToSet
<1>3. Decoded = {handed[i] : i \in DOMAIN handed}
  BY DEF Decoded, ToSet
<1>4. Len(handed) \in Nat
  OBVIOUS
<1>5. QED
  BY <1>1, <1>2, <1>3, <1>4

(* What was handed on at some index was decoded.                           *)
LEMMA DecodedAt ==
    ASSUME handed \in Seq(Nat), NEW i \in 1..Len(handed)
    PROVE  handed[i] \in Decoded
BY DEF Decoded, ToSet

(* The sets of packets that are sent are finite, and what can be said of   *)
(* them.                                                                   *)
LEMMA SentFinite ==
    ASSUME NEW T, NEW x \in Nat, NEW n \in Nat
    PROVE  /\ IsFiniteSet(Sent(T, x, n))
           /\ Cardinality(Sent(T, x, n)) \in Nat
<1>1. IsFiniteSet(x + 1 .. n)
  BY FS_Interval
<1>2. Sent(T, x, n) \subseteq x + 1 .. n
  BY DEF Sent
<1>3. IsFiniteSet(Sent(T, x, n))
  BY <1>1, <1>2, FS_Subset
<1>4. QED
  BY <1>3, FS_CardinalityType

(* Fewer of them when they begin later, or when more are too large.        *)
LEMMA SentLater ==
    ASSUME NEW T, NEW x \in Nat, NEW y \in Nat, NEW n \in Nat, x <= y
    PROVE  Cardinality(Sent(T, y, n)) <= Cardinality(Sent(T, x, n))
<1>1. Sent(T, y, n) \subseteq Sent(T, x, n)
  BY DEF Sent
<1>2. QED
  BY <1>1, SentFinite, FS_Subset

(* The packets up to one are that one and those before it.                 *)
LEMMA UpTo == \A k \in Nat : \A n \in 1..k : n \in 1..(k - 1) \/ n = k
OBVIOUS

(* Numbers that are bounded have a greatest one.                           *)
LEMMA GreatestNumber ==
    ASSUME NEW D, NEW b \in Nat, D # {}, \A n \in D : n \in Nat /\ n <= b
    PROVE  \E m \in D : \A n \in D : n <= m
<1> DEFINE R == OpToRel(<, Nat)
           T == {b - n : n \in D}
<1>1. IsWellFoundedOn(R, Nat)
  BY NatLessThanWellFounded
<1>2. T \subseteq Nat /\ T # {}
  OBVIOUS
<1>3. PICK x \in T : \A y \in T : ~(<<y, x>> \in R)
  <2> HIDE DEF R, T
  <2>1. QED
    BY <1>1, <1>2, WFMin
<1>4. \A y \in T : y < x => <<y, x>> \in R
  BY <1>2 DEF OpToRel
<1>5. \A y \in T : ~(y < x)
  <2> HIDE DEF R, T
  <2>1. QED
    BY <1>3, <1>4, Zenon
<1>6. PICK m \in D : x = b - m
  OBVIOUS
<1>7. ASSUME NEW n \in D
      PROVE  n <= m
  <2>1. ~(b - n < b - m)
    BY <1>5, <1>6
  <2>2. n \in Nat /\ m \in Nat
    OBVIOUS
  <2>3. QED
    BY <2>1, <2>2
<1>8. QED
  BY <1>7

-----------------------------------------------------------------------------
(* Types and places. *)

(* The process has not been started.                                       *)
LEMMA TypeInitially == Init => TypeInv /\ PlacesInv
<1> SUFFICES ASSUME Init PROVE TypeInv /\ PlacesInv
  OBVIOUS
<1>1. Interval + 1 \in Nat /\ 1 <= Interval + 1
  BY SEEDLinkAssumption
<1>2. Decoded = {} /\ handed \in Seq(Nat)
  BY DEF Init, Decoded, ToSet
<1>3. file \in Files /\ file.seq = 0
  BY FileFacts DEF Init, Unset
<1>4. PlacesInv
  BY DEF Init, PlacesInv
<1>5. /\ options \in Options
      /\ alive \in BOOLEAN
      /\ pc \in Places
      /\ unsaved \in BOOLEAN
  BY DEF Init, Places
<1>6. /\ produced = 0 /\ origin = 0 /\ seq = 0 /\ updateCount = 1 /\ missed = 0
      /\ passed = {}
  BY DEF Init, Unset
<1>7. TypeInv
  BY <1>1, <1>2, <1>3, <1>5, <1>6 DEF TypeInv
<1>8. QED
  BY <1>4, <1>7

(* The types and places of every step.                                     *)
LEMMA TypeStep == TypeInv /\ PlacesInv /\ [Next]_vars => TypeInv' /\ PlacesInv'
<1> SUFFICES ASSUME TypeInv, PlacesInv, [Next]_vars
             PROVE  TypeInv' /\ PlacesInv'
  OBVIOUS
<1> USE DEF processVars, stopVars, serverVars, countVars, historyVars, packetVars
<1>0. /\ Interval \in Nat
      /\ UNCHANGED handed => UNCHANGED Decoded
  BY SEEDLinkAssumption DEF Decoded
<1>1. CASE Produce
  <2>1. PlacesInv'
    BY <1>1 DEF Produce, PlacesInv
  <2>2. QED
    BY <1>0, <1>1, <2>1 DEF Produce, TypeInv
<1>2. CASE Start
  <2>1. file' \in Files /\ file'.seq \in Nat /\ file'.seq <= produced
    <3>1. file' = Absent \/ file' = file
      BY <1>2 DEF Start
    <3>2. QED
      BY <3>1, FileFacts DEF TypeInv, Unset
  <2>2. QED
    BY <1>0, <1>2, <2>1 DEF Start, TypeInv, PlacesInv, Places, Unset
<1>3. CASE alive /\ Recover
  <2>1. /\ seq' \in Nat /\ seq' <= produced
        /\ origin' = produced
        /\ \A n \in passed' : n \in Nat /\ n <= produced
    BY <1>3 DEF Recover, Subscribe, TypeInv, Unset
  <2>2. PlacesInv'
    BY <1>3 DEF Recover, Subscribe, PlacesInv, Finished
  <2>3. pc' \in Places
    BY <1>3 DEF Recover, Subscribe, Places
  <2>4. QED
    BY <1>0, <1>3, <2>1, <2>2, <2>3 DEF Recover, Subscribe, TypeInv
<1>4. CASE alive /\ RecoverFails
  BY <1>0, <1>4 DEF RecoverFails, Goto, TypeInv, PlacesInv, Places, Finished
<1>5. CASE alive /\ TestRunning
  BY <1>0, <1>5 DEF TestRunning, Goto, TypeInv, PlacesInv, Places, Finished
<1>6. CASE alive /\ Reconnect
  <2>1. \A n \in passed' : n \in Nat /\ n <= produced
    BY <1>6 DEF Reconnect, Subscribe, TypeInv
  <2>2. QED
    BY <2>1, <1>0, <1>6 DEF Reconnect, Subscribe, TypeInv, PlacesInv, Places, Finished
<1>7. CASE alive /\ (CollectPacket \/ CollectTooLarge)
  <2>1. /\ pc = "collect"
        /\ NextPacket <= produced
        /\ seq' = NextPacket
        /\ pc' \in {"unpack", "loop"}
        /\ UNCHANGED <<options, alive, stopper, produced, origin, file,
                       updateCount, handed, passed, unsaved, missed>>
    BY <1>7 DEF CollectPacket, CollectTooLarge, Collect
  <2>2. NextPacket \in Nat /\ 1 <= NextPacket
    BY DEF NextPacket, TypeInv, Unset
  <2>3. PlacesInv'
    BY <1>7, <2>1, <2>2 DEF PlacesInv, Finished, Unset
  <2>4. pc' \in Places
    BY <2>1 DEF Places
  <2>5. QED
    BY <1>0, <2>1, <2>2, <2>3, <2>4 DEF TypeInv
<1>8. CASE alive /\ CollectNothing
  BY <1>0, <1>8 DEF CollectNothing, Goto, TypeInv, PlacesInv, Places, Finished
<1>9. CASE alive /\ CollectTerminate
  BY <1>0, <1>9 DEF CollectTerminate, TypeInv, PlacesInv, Places, Finished
<1>10. CASE alive /\ HandToCallback
  <2>1. Decoded' = Decoded \cup {seq}
    BY <1>10, DecodedAppend DEF HandToCallback, TypeInv
  <2>2. handed' \in Seq(Nat)
    BY <1>10 DEF HandToCallback, TypeInv
  <2>3. QED
    BY <1>10, <2>1, <2>2
       DEF HandToCallback, Unpack, TypeInv, PlacesInv, Places, Finished, Unset
<1>11. CASE alive /\ UnpackFails
  BY <1>0, <1>11 DEF UnpackFails, Unpack, TypeInv, PlacesInv, Places, Finished
<1>12. CASE alive /\ CountPacket
  <2>1. updateCount' \in Nat /\ 1 <= updateCount' /\ updateCount' <= Interval + 1
    BY <1>0, <1>12 DEF CountPacket, CountTo, SaveIsDue, TypeInv
  <2>2. file' \in Files /\ file'.seq \in Nat /\ file'.seq <= produced
    BY <1>12, FileFacts DEF CountPacket, CountTo, TypeInv, Unset
  <2>3. QED
    BY <1>0, <1>12, <2>1, <2>2
       DEF CountPacket, CountTo, SaveIsDue, TypeInv, PlacesInv, Places, Finished
<1>13. CASE alive /\ SaveState
  <2>1. file' \in Files /\ file'.seq \in Nat /\ file'.seq <= produced
    BY <1>13, FileFacts DEF SaveState, WriteFile, TypeInv
  <2>2. QED
    BY <1>0, <1>13, <2>1 DEF SaveState, WriteFile, TypeInv, PlacesInv, Places, Finished
<1>14. CASE alive /\ PurgeStateFile
  <2>1. file' \in Files /\ file'.seq \in Nat /\ file'.seq <= produced
    BY <1>14, FileFacts DEF PurgeStateFile, WriteFile, TypeInv, Unset
  <2>2. QED
    BY <1>0, <1>14, <2>1
       DEF PurgeStateFile, WriteFile, TypeInv, PlacesInv, Places, Finished, Options
<1>15. CASE alive /\ PurgeFails
  BY <1>0, <1>15 DEF PurgeFails, Goto, TypeInv, PlacesInv, Places, Finished
<1>16. CASE alive /\ Verdict
  BY <1>0, <1>16 DEF Verdict, Goto, TypeInv, PlacesInv, Places, Finished
<1>17. CASE StopTests
  BY <1>0, <1>17 DEF StopTests, StopperGoto, TypeInv, PlacesInv
<1>18. CASE alive /\ StopTerminates
  BY <1>0, <1>18 DEF StopTerminates, StopperGoto, TypeInv, PlacesInv
<1>19. CASE alive /\ StopStores
  BY <1>0, <1>19 DEF StopStores, StopperGoto, TypeInv, PlacesInv
<1>20. CASE alive /\ Disconnect
  <2>1. file' \in Files /\ file'.seq \in Nat /\ file'.seq <= produced
    BY <1>20, FileFacts DEF Disconnect, TypeInv, Unset
  <2>2. QED
    BY <1>0, <1>20, <2>1 DEF Disconnect, StopperGoto, TypeInv, PlacesInv
<1>21. CASE alive /\ Exit
  <2>1. file' \in Files /\ file'.seq \in Nat /\ file'.seq <= produced
    BY <1>21, FileFacts DEF Exit, ExitSaving, TypeInv
  <2>2. QED
    BY <1>0, <1>21, <2>1 DEF Exit, ExitSaving, StopperGoto, TypeInv, PlacesInv
<1>22. CASE Crash
  <2>1. /\ ~alive'
        /\ pc' = "returned"
        /\ stopper' = "crashed"
        /\ unsaved' = TRUE
        /\ UNCHANGED <<options, produced, origin, seq, file, updateCount, handed,
                       passed, missed>>
    BY <1>22 DEF Crash
  <2>2. PlacesInv'
    BY <2>1 DEF PlacesInv, Finished
  <2>3. pc' \in Places /\ alive' \in BOOLEAN
    BY <1>22 DEF Crash, Places
  <2>4. QED
    BY <1>0, <2>1, <2>2, <2>3 DEF TypeInv
<1>23. CASE UNCHANGED vars
  BY <1>0, <1>23 DEF vars, TypeInv, PlacesInv
<1>24. CASE alive /\ CountUnsaved
  <2>1. missed' \in Nat /\ updateCount' = 1
    BY <1>24 DEF CountUnsaved, TypeInv
  <2>2. QED
    BY <1>0, <1>24, <2>1
       DEF CountUnsaved, TypeInv, PlacesInv, Places, Finished
<1>25. CASE alive /\ SaveFails
  BY <1>0, <1>25 DEF SaveFails, Goto, TypeInv, PlacesInv, Places, Finished
<1>26. CASE alive /\ ExitUnsaved
  BY <1>0, <1>26 DEF ExitUnsaved, StopperGoto, TypeInv, PlacesInv
<1>27. QED
  BY <1>1, <1>2, <1>3, <1>4, <1>5, <1>6, <1>7, <1>8, <1>9, <1>10, <1>11, <1>12,
     <1>13, <1>14, <1>15, <1>16, <1>17, <1>18, <1>19, <1>20, <1>21, <1>22, <1>23,
     <1>24, <1>25, <1>26
     DEF Next, Thread, Collecting, Stop

-----------------------------------------------------------------------------
(* Steps that neither move the client nor settle the fate of a packet. *)

(* What such a step may do: the file may be lost, the process may end      *)
(* without a save, and a packet may be counted.                            *)
Quiet ==
    /\ UNCHANGED <<handed, tooLarge, undecodable, passed, options>>
    /\ produced <= produced'
    /\ missed <= missed'
    /\ file' = file \/ file'.seq = Unset
    /\ ~alive' \/ pc' = "recover" => file' = file
    /\ alive' =>
           /\ alive
           /\ UNCHANGED <<seq, origin>>
           /\ pc' = "unpack" <=> pc = "unpack"
           /\ pc' = "recover" => pc = "recover"
           /\ pc' # "recover" => pc # "recover" \/ file.seq = Unset
           /\ seq = Unset /\ pc' \in {"loop", "collect"} => pc \in {"loop", "collect"}
           /\ pc' # "recover" /\ file'.seq # Unset =>
                  /\ pc # "recover"
                  /\ updateCount + Weight(pc) + missed
                         <= updateCount' + Weight(pc') + missed'
    /\ ~unsaved' => ~unsaved /\ alive' = alive

(* The sets of packets change with the history only.                       *)
LEMMA SetsUnchanged ==
    /\ UNCHANGED handed => UNCHANGED Decoded
    /\ UNCHANGED <<handed, tooLarge, undecodable, passed>> => UNCHANGED Seen
BY DEF Decoded, Seen, Lost

(* A quiet step keeps what is accounted for.                               *)
LEMMA QuietGap ==
    ASSUME TypeInv, Quiet, GapInv
    PROVE  GapInv'
<1>1. UNCHANGED <<Decoded, Seen>>
  BY SetsUnchanged DEF Quiet
<1>2. 1..file'.seq \subseteq Seen
  BY DEF Quiet, GapInv, Unset
<1>3. alive' => 1..seq' \subseteq (IF pc' = "unpack" THEN Seen \cup {seq'} ELSE Seen)
  BY DEF Quiet, GapInv
<1>4. alive' /\ seq' = Unset /\ pc' \in {"loop", "collect"} => 1..origin' \subseteq Seen
  BY DEF Quiet, GapInv
<1>5. QED
  BY <1>1, <1>2, <1>3, <1>4 DEF GapInv

(* A quiet step keeps the order.                                           *)
LEMMA QuietOrder ==
    ASSUME TypeInv, Quiet, OrderInv
    PROVE  OrderInv'
<1>1. UNCHANGED <<Decoded, handed>>
  BY SetsUnchanged DEF Quiet
<1>2. alive' /\ seq' = Unset /\ pc' \in {"loop", "collect"} =>
          \A n \in Decoded : n <= origin'
  BY DEF Quiet, OrderInv
<1>3. ASSUME ~unsaved'
      PROVE  /\ \A i, j \in 1..Len(handed) : i < j => handed[i] < handed[j]
             /\ alive' /\ seq' # Unset =>
                    \A n \in Decoded : n <= seq' /\ (pc' = "unpack" => n # seq')
             /\ (~alive' \/ pc' = "recover") /\ file'.seq # Unset =>
                    \A n \in Decoded : n <= file'.seq
  <2>1. ~unsaved /\ alive' = alive
    BY <1>3 DEF Quiet
  <2>2. \A i, j \in 1..Len(handed) : i < j => handed[i] < handed[j]
    BY <2>1 DEF OrderInv
  <2>3. alive' /\ seq' # Unset =>
            \A n \in Decoded : n <= seq' /\ (pc' = "unpack" => n # seq')
    BY <2>1 DEF Quiet, OrderInv
  <2>4. ASSUME ~alive' \/ pc' = "recover", file'.seq # Unset
        PROVE  \A n \in Decoded : n <= file'.seq
    <3>1. file' = file
      BY <2>4 DEF Quiet
    <3>2. ~alive \/ pc = "recover"
      BY <2>1, <2>4 DEF Quiet
    <3>3. QED
      BY <2>1, <2>4, <3>1, <3>2 DEF OrderInv
  <2>5. QED
    BY <2>2, <2>3, <2>4
<1>4. QED
  BY <1>1, <1>2, <1>3 DEF OrderInv

(* A quiet step keeps what was passed over before the client's place.      *)
LEMMA QuietSkip ==
    ASSUME TypeInv, Quiet, SkipInv
    PROVE  SkipInv'
<1> SUFFICES ASSUME Resumes'
             PROVE  SkipInv'
  BY DEF SkipInv
<1>1. UNCHANGED <<Decoded, passed>>
  BY SetsUnchanged DEF Quiet
<1>2. Resumes /\ alive' = alive
  BY DEF Quiet, Resumes
<1>3. alive' =>
          /\ pc' # "recover" /\ seq' = Unset => Decoded = {}
          /\ seq' # Unset => \A n \in passed : n < seq'
          /\ seq' = Unset /\ pc' \in {"loop", "collect"} =>
                 \A n \in passed : n <= origin'
  BY <1>2 DEF Quiet, SkipInv
<1>4. ~alive' \/ pc' = "recover" =>
          /\ file'.seq = Unset => Decoded = {}
          /\ file'.seq # Unset => \A n \in passed : n < file'.seq
  BY <1>2 DEF Quiet, SkipInv
<1>5. QED
  BY <1>1, <1>2, <1>3, <1>4 DEF SkipInv

(* The reach is a number, which only failed saves change.                  *)
LEMMA ReachFacts ==
    TypeInv => /\ Reach \in Nat /\ missed \in Nat
               /\ UNCHANGED missed => UNCHANGED Reach
BY SEEDLinkAssumption DEF TypeInv, Reach

(* More saves that failed: more is within reach.                           *)
LEMMA NearLater ==
    ASSUME TypeInv, TypeInv', UNCHANGED <<handed, tooLarge>>, missed <= missed',
           NEW x \in Nat, Near(x)
    PROVE  \A n \in Decoded : n > x => Cardinality(Sent(tooLarge, x, n)) <= Reach'
<1> SUFFICES ASSUME NEW n \in Decoded, n > x
             PROVE  Cardinality(Sent(tooLarge, x, n)) <= Reach'
  OBVIOUS
<1>1. Cardinality(Sent(tooLarge, x, n)) <= Interval + 1 + missed
  BY DEF Near, Reach
<1>2. /\ Interval \in Nat /\ missed \in Nat /\ missed' \in Nat
      /\ Cardinality(Sent(tooLarge, x, n)) \in Nat
  BY SentFinite, SEEDLinkAssumption DEF TypeInv
<1>3. QED
  BY <1>1, <1>2 DEF Reach

(* A quiet step keeps the distance to the number in the file.              *)
LEMMA QuietRedelivery ==
    ASSUME TypeInv, TypeInv', Quiet, RedeliveryInv
    PROVE  RedeliveryInv'
<1>1. /\ UNCHANGED <<Decoded, tooLarge, options>>
  BY SetsUnchanged DEF Quiet
<1>2. \A x \in Nat : Near(x) =>
          \A n \in Decoded' : n > x => Cardinality(Sent(tooLarge', x, n)) <= Reach'
  BY <1>1, NearLater DEF Quiet
<1>3. Decoded \cap tooLarge = {}
  BY DEF RedeliveryInv
<1>4. file'.seq # Unset => file' = file /\ Near(file.seq)
  BY DEF Quiet, RedeliveryInv
<1>5. alive' /\ options.useStateFile /\ seq' # Unset => Near(seq')
  BY DEF Quiet, RedeliveryInv
<1>6. ASSUME alive', pc' # "recover", file'.seq # Unset
      PROVE  /\ file'.seq <= seq'
             /\ Cardinality(Sent(tooLarge, file'.seq, seq')) <= updateCount' - 1 + Weight(pc') + missed'
  <2>1. /\ file' = file /\ alive /\ pc # "recover" /\ seq' = seq
        /\ updateCount + Weight(pc) + missed <= updateCount' + Weight(pc') + missed'
    BY <1>6 DEF Quiet
  <2>2. /\ file.seq <= seq
        /\ Cardinality(Sent(tooLarge, file.seq, seq)) <= updateCount - 1 + Weight(pc) + missed
    BY <1>6, <2>1 DEF RedeliveryInv
  <2>3. Cardinality(Sent(tooLarge, file.seq, seq)) \in Nat /\ updateCount \in Nat
        /\ missed \in Nat /\ missed' \in Nat
        /\ updateCount' \in Nat /\ Weight(pc) \in Nat /\ Weight(pc') \in Nat
    BY SentFinite DEF TypeInv, Weight
  <2>4. QED
    BY <2>1, <2>2, <2>3
<1>7. pc' = "unpack" /\ alive' => seq' \notin tooLarge
  BY DEF Quiet, RedeliveryInv
<1>8. file'.seq # Unset => Near(file.seq)'
  BY <1>1, <1>2, <1>4 DEF Near, TypeInv
<1>9. alive' /\ options.useStateFile /\ seq' # Unset => Near(seq)'
  BY <1>1, <1>2, <1>5 DEF Near, TypeInv
<1>10. QED
  BY <1>1, <1>3, <1>6, <1>7, <1>8, <1>9 DEF RedeliveryInv

(* The quiet steps.                                                        *)
LEMMA QuietSteps ==
    ASSUME TypeInv, PlacesInv, TypeInv',
           \/ Produce
           \/ alive /\ (\/ RecoverFails \/ TestRunning \/ CollectNothing
                        \/ CollectTerminate \/ CountPacket \/ CountUnsaved
                        \/ SaveFails \/ PurgeStateFile \/ PurgeFails \/ Verdict)
           \/ StopTests
           \/ alive /\ (StopTerminates \/ StopStores \/ Disconnect \/ ExitUnsaved)
           \/ Crash
           \/ UNCHANGED vars
    PROVE  Quiet
<1> USE DEF processVars, stopVars, serverVars, countVars, historyVars, packetVars
<1> DEFINE same == /\ UNCHANGED <<handed, tooLarge, undecodable, passed, options>>
                   /\ UNCHANGED <<alive, seq, origin, updateCount, unsaved, missed>>
<1>0. /\ produced \in Nat /\ updateCount \in Nat /\ missed \in Nat /\ Weight(pc) \in Nat
  BY DEF TypeInv, Weight
<1>1. CASE Produce
  <2>1. same /\ pc' = pc /\ file' = file
    BY <1>1 DEF Produce
  <2>2. produced <= produced'
    BY <1>0, <1>1 DEF Produce
  <2>3. QED
    BY <1>0, <2>1, <2>2 DEF Quiet
<1>2. CASE alive /\ RecoverFails
  <2>1. file.seq = Unset
    <3>1. file = Absent \/ file = Torn \/ \E n \in Nat : file = Saved(n)
      BY Zenon DEF TypeInv, Files
    <3>2. file.kind = "torn"
      BY <1>2 DEF RecoverFails
    <3>3. QED
      BY <3>1, <3>2, FileFacts
  <2>2. produced' = produced /\ same /\ file' = file /\ pc = "recover" /\ pc' = "threw"
    BY <1>2 DEF RecoverFails, Goto
  <2>3. QED
    BY <1>0, <2>1, <2>2 DEF Quiet
<1>3. CASE alive /\ (TestRunning \/ CollectNothing \/ PurgeFails \/ Verdict)
  <2>1. /\ same /\ produced' = produced
        /\ file' = file
        /\ pc \in {"loop", "collect", "purge", "verdict"}
        /\ pc' \notin {"unpack", "recover", "count"}
        /\ pc' \in {"loop", "collect"} => pc \in {"loop", "collect"}
    BY <1>3 DEF TestRunning, CollectNothing, PurgeFails, Verdict, Goto
  <2>2. Weight(pc) = 0 /\ Weight(pc') = 0
    BY <2>1 DEF Weight
  <2>3. pc # "unpack" /\ pc # "recover" /\ pc' # "unpack" /\ pc' # "recover"
    BY <2>1
  <2>4. QED
    BY <1>0, <2>1, <2>2, <2>3 DEF Quiet
<1>4. CASE alive /\ CollectTerminate
  <2>1. produced' = produced /\ same /\ file' = file /\ pc = "collect" /\ pc' = "purge"
    BY <1>4 DEF CollectTerminate
  <2>2. QED
    BY <1>0, <2>1 DEF Quiet, Weight
<1>5. CASE alive /\ CountPacket
  <2>1. /\ UNCHANGED <<handed, tooLarge, undecodable, passed, options>>
        /\ UNCHANGED <<alive, seq, origin, produced, unsaved, missed>>
        /\ pc = "count"
        /\ pc' \in {"save", "loop"}
        /\ seq # Unset
    BY <1>5 DEF CountPacket, CountTo, PlacesInv
  <2>2. CASE SaveIsDue
    <3>1. file'.seq = Unset
      BY <1>5, <2>2, FileFacts DEF CountPacket, CountTo
    <3>2. alive' /\ pc' # "recover" /\ pc' # "unpack" /\ pc # "recover" /\ pc # "unpack"
      BY <1>5, <2>1
    <3>3. QED
      BY <1>0, <2>1, <3>1, <3>2 DEF Quiet
  <2>3. CASE ~SaveIsDue
    <3>1. /\ file' = file
          /\ updateCount' = updateCount + (IF options.useStateFile THEN 1 ELSE 0)
      BY <1>5, <2>3 DEF CountPacket, CountTo
    <3>2. file.seq # Unset => options.useStateFile
      BY FileFacts DEF PlacesInv
    <3>3. Weight(pc) = 1 /\ Weight(pc') = 0 /\ updateCount \in Nat
      BY <2>1 DEF Weight, TypeInv
    <3>4. file'.seq # Unset => updateCount + Weight(pc) + missed <= updateCount' + Weight(pc') + missed
      BY <1>0, <3>1, <3>2, <3>3
    <3>5. QED
      BY <1>0, <2>1, <3>1, <3>4 DEF Quiet
  <2>4. QED
    BY <2>2, <2>3
<1>6. CASE alive /\ PurgeStateFile
  <2>1. /\ same /\ produced' = produced
        /\ pc = "purge" /\ pc' = "verdict"
        /\ file' = Absent \/ file' = file
    BY <1>6 DEF PurgeStateFile, WriteFile
  <2>2. file' = file \/ file'.seq = Unset
    BY <2>1, FileFacts
  <2>3. Weight(pc) = 0 /\ Weight(pc') = 0
    BY <2>1 DEF Weight
  <2>4. alive' /\ pc' # "recover" /\ pc' # "unpack"
    BY <1>6, <2>1
  <2>5. QED
    BY <1>0, <2>1, <2>2, <2>3, <2>4 DEF Quiet
<1>7. CASE StopTests \/ (alive /\ (StopTerminates \/ StopStores \/ Disconnect))
  <2>1. /\ same /\ produced' = produced
        /\ pc' = pc
        /\ (file' = Torn /\ pc \in Finished) \/ file' = file
        /\ alive
    BY <1>7 DEF StopTests, StopTerminates, StopStores, Disconnect, StopperGoto
  <2>2. file' = file \/ file'.seq = Unset
    BY <2>1, FileFacts
  <2>3. updateCount \in Nat /\ Weight(pc) \in Nat
    BY DEF TypeInv, Weight
  <2>4. QED
    BY <1>0, <2>1, <2>2, <2>3 DEF Quiet, Finished
<1>8. CASE Crash
  <2>1. /\ UNCHANGED <<handed, tooLarge, undecodable, passed, options, file>>
        /\ ~alive'
        /\ unsaved' = TRUE
        /\ UNCHANGED <<produced, missed>>
    BY <1>8 DEF Crash, TypeInv
  <2>2. QED
    BY <1>0, <2>1 DEF Quiet
<1>9. CASE UNCHANGED vars
  <2>1. produced' = produced /\ same /\ pc' = pc /\ file' = file
    BY <1>9 DEF vars
  <2>2. updateCount \in Nat /\ Weight(pc) \in Nat
    BY DEF TypeInv, Weight
  <2>3. QED
    BY <1>0, <2>1, <2>2 DEF Quiet
<1>10. CASE alive /\ CountUnsaved
  <2>1. /\ UNCHANGED <<handed, tooLarge, undecodable, passed, options, file>>
        /\ UNCHANGED <<alive, seq, origin, produced, unsaved>>
        /\ pc = "count" /\ pc' = "loop" /\ seq # Unset
        /\ updateCount' = 1
        /\ missed' = missed + updateCount
    BY <1>10 DEF CountUnsaved, PlacesInv
  <2>2. Weight(pc) = 1 /\ Weight(pc') = 0
    BY <2>1 DEF Weight
  <2>3. updateCount + Weight(pc) + missed <= updateCount' + Weight(pc') + missed'
    BY <1>0, <2>1, <2>2
  <2>4. QED
    BY <1>0, <2>1, <2>3 DEF Quiet
<1>11. CASE alive /\ SaveFails
  <2>1. /\ same /\ produced' = produced
        /\ file' = file
        /\ pc = "save" /\ pc' = "loop" /\ seq # Unset
    BY <1>11 DEF SaveFails, Goto, PlacesInv
  <2>2. Weight(pc) = 0 /\ Weight(pc') = 0
    BY <2>1 DEF Weight
  <2>3. QED
    BY <1>0, <2>1, <2>2 DEF Quiet
<1>12. CASE alive /\ ExitUnsaved
  <2>1. /\ UNCHANGED <<handed, tooLarge, undecodable, passed, options, file>>
        /\ ~alive'
        /\ unsaved' = TRUE
        /\ UNCHANGED <<produced, missed>>
    BY <1>12 DEF ExitUnsaved, StopperGoto
  <2>2. QED
    BY <1>0, <2>1 DEF Quiet
<1>13. QED
  BY <1>1, <1>2, <1>3, <1>4, <1>5, <1>6, <1>7, <1>8, <1>9, <1>10, <1>11, <1>12

-----------------------------------------------------------------------------
(* The steps that move the client. *)

SafeInv == GapInv /\ OrderInv /\ RedeliveryInv /\ SkipInv

(* The process starts with what the file holds, if it is not deleted.      *)
LEMMA SafeStart ==
    ASSUME TypeInv, PlacesInv, SafeInv, Start
    PROVE  SafeInv'
<1>1. /\ ~alive
      /\ pc' = "recover"
      /\ seq' = Unset
      /\ file' = file \/ file' = Absent
      /\ UNCHANGED <<handed, tooLarge, undecodable, passed, options, unsaved, missed>>
  BY DEF Start, packetVars
<1>2. /\ UNCHANGED <<Decoded, Seen>>
  BY <1>1, SetsUnchanged
<1>3. file' = file \/ file'.seq = Unset
  BY <1>1, FileFacts
<1>4. GapInv'
  <2>1. 1..seq' \subseteq Seen /\ 1..file'.seq \subseteq Seen
    BY <1>1, <1>3 DEF SafeInv, GapInv, Unset
  <2>2. QED
    BY <1>1, <1>2, <2>1 DEF SafeInv, GapInv
<1>5. OrderInv'
  BY <1>1, <1>2, <1>3 DEF SafeInv, OrderInv
<1>6. RedeliveryInv'
  BY <1>1, <1>2, <1>3, ReachFacts DEF SafeInv, RedeliveryInv, Near
<1>7. SkipInv'
  <2>1. Resumes' => Resumes /\ file' = file
    BY <1>1 DEF Start, Resumes
  <2>2. QED
    BY <1>1, <1>2, <2>1 DEF SafeInv, SkipInv
<1>8. QED
  BY <1>4, <1>5, <1>6, <1>7 DEF SafeInv

(* A connection without a number passes over what the server has, and what *)
(* it has includes all that was handed on.                                 *)
LEMMA SafeSubscribe ==
    ASSUME TypeInv, PlacesInv, SafeInv, alive,
           Recover \/ Reconnect
    PROVE  SafeInv'
<1>1. /\ origin' = produced
      /\ passed' = IF seq' = Unset THEN passed \cup ((1..produced) \ Seen) ELSE passed
      /\ pc' = "loop"
      /\ pc \in {"recover", "collect"}
      /\ UNCHANGED <<alive, options, produced, file, updateCount, handed, tooLarge,
                     undecodable, unsaved, missed>>
  BY DEF Recover, Reconnect, Subscribe, processVars, countVars
<1>2. /\ seq' = seq \/ (pc = "recover" /\ seq' = file.seq)
      /\ pc = "recover" => seq' = file.seq
      /\ pc = "collect" => seq' = seq
  <2>1. ~options.useStateFile => file.seq = Unset
    BY FileFacts DEF PlacesInv
  <2>2. QED
    BY <2>1 DEF Recover, Reconnect
<1>3. /\ UNCHANGED <<Decoded, tooLarge>>
  BY <1>1, SetsUnchanged
<1>4. Seen \subseteq Seen' /\ (seq' = Unset => 1..produced \subseteq Seen')
  BY <1>1, <1>3 DEF Seen, Lost
<1>5. GapInv'
  <2>1. 1..seq' \subseteq Seen
    BY <1>1, <1>2 DEF SafeInv, GapInv
  <2>2. \A n \in Decoded : 1..n \subseteq Seen
    BY DEF SafeInv, GapInv
  <2>3. 1..file.seq \subseteq Seen
    BY DEF SafeInv, GapInv
  <2>4. QED
    BY <1>1, <1>3, <1>4, <2>1, <2>2, <2>3 DEF GapInv
<1>6. OrderInv'
  <2>1. \A n \in Decoded : n <= origin'
    BY <1>1 DEF TypeInv
  <2>2. ASSUME ~unsaved'
        PROVE  /\ \A i, j \in 1..Len(handed) : i < j => handed[i] < handed[j]
               /\ seq' # Unset => \A n \in Decoded : n <= seq'
    <3>1. ~unsaved
      BY <1>1, <2>2
    <3>2. QED
      BY <1>1, <1>2, <3>1 DEF SafeInv, OrderInv
  <2>3. QED
    BY <1>1, <1>3, <2>1, <2>2 DEF OrderInv
<1>7. RedeliveryInv'
  <2>1. \A x : Near(x)' <=> Near(x)
    BY <1>1, <1>3, ReachFacts DEF Near
  <2>2. /\ file.seq # Unset => Near(file.seq)
        /\ Decoded \cap tooLarge = {}
    BY DEF SafeInv, RedeliveryInv
  <2>3. options.useStateFile /\ seq' # Unset => Near(seq')
    BY <1>1, <1>2 DEF SafeInv, RedeliveryInv
  <2>4. ASSUME file.seq # Unset
        PROVE  /\ file.seq <= seq'
               /\ Cardinality(Sent(tooLarge, file.seq, seq')) <= updateCount - 1 + Weight("loop") + missed
    <3>1. CASE pc = "collect"
      <4>1. Weight("loop") = Weight(pc)
        BY <3>1 DEF Weight
      <4>2. QED
        BY <1>2, <2>4, <3>1, <4>1 DEF SafeInv, RedeliveryInv
    <3>2. CASE pc = "recover"
      <4>1. seq' = file.seq /\ file.seq \in Nat
        BY <1>2, <3>2 DEF TypeInv
      <4>2. Sent(tooLarge, file.seq, seq') = {}
        BY <4>1 DEF Sent
      <4>3. Cardinality(Sent(tooLarge, file.seq, seq')) = 0
        BY <4>2, FS_EmptySet
      <4>4. 0 <= updateCount - 1 + Weight("loop") + missed
        BY ReachFacts DEF TypeInv, Weight
      <4>5. QED
        BY <4>1, <4>3, <4>4
    <3>3. QED
      BY <1>1, <3>1, <3>2
  <2> HIDE DEF Weight
  <2>5. QED
    BY <1>1, <1>3, <2>1, <2>2, <2>3, <2>4, ReachFacts DEF RedeliveryInv, Near
<1>8. SkipInv'
  <2> SUFFICES ASSUME Resumes'
               PROVE  SkipInv'
    BY DEF SkipInv
  <2>1. Resumes
    BY <1>1 DEF Resumes
  <2>2. CASE seq' = Unset
    <3>1. Decoded = {}
      BY <1>1, <1>2, <2>1, <2>2 DEF SafeInv, SkipInv
    <3>2. \A n \in passed' : n <= origin'
      BY <1>1, <2>2 DEF TypeInv
    <3>3. QED
      BY <1>1, <1>3, <2>2, <3>1, <3>2 DEF SkipInv
  <2>3. CASE seq' # Unset
    <3>1. passed' = passed
      BY <1>1, <2>3
    <3>2. \A n \in passed : n < seq'
      BY <1>1, <1>2, <2>1, <2>3 DEF SafeInv, SkipInv
    <3>3. QED
      BY <1>1, <1>3, <2>1, <2>3, <3>1, <3>2 DEF SafeInv, SkipInv
  <2>4. QED
    BY <2>2, <2>3
<1>9. QED
  BY <1>5, <1>6, <1>7, <1>8 DEF SafeInv

(* A packet is collected: the client moves by one, or from where it        *)
(* started without a number.                                               *)
LEMMA SafeCollect ==
    ASSUME TypeInv, PlacesInv, SafeInv, alive,
           CollectPacket \/ CollectTooLarge
    PROVE  SafeInv'
<1>1. /\ pc = "collect"
      /\ seq' = NextPacket
      /\ UNCHANGED <<alive, options, origin, file, updateCount, handed,
                     undecodable, passed, unsaved, missed>>
  BY DEF CollectPacket, CollectTooLarge, Collect, processVars, serverVars, countVars
<1>2. \/ pc' = "unpack" /\ tooLarge' = tooLarge /\ seq' \notin tooLarge
      \/ pc' = "loop" /\ tooLarge' = tooLarge \cup {seq'} /\ seq' \notin Decoded
  BY DEF CollectPacket, CollectTooLarge, Collect
<1>3. /\ UNCHANGED Decoded
      /\ Seen' = Seen \cup tooLarge'
      /\ Seen \subseteq Seen'
  <2>1. UNCHANGED Decoded
    BY <1>1, SetsUnchanged
  <2>2. QED
    BY <1>1, <1>2, <2>1 DEF Seen, Lost
<1>4. /\ seq' \in Nat
      /\ seq' # Unset
      /\ seq = Unset => seq' = origin + 1
      /\ seq # Unset => seq' = seq + 1
      /\ seq \in Nat /\ origin \in Nat
  BY <1>1 DEF NextPacket, TypeInv, Unset
<1>5. GapInv'
  <2>1. 1..(seq' - 1) \subseteq Seen
    BY <1>1, <1>4 DEF SafeInv, GapInv
  <2>2. 1..seq' \subseteq Seen \cup {seq'}
    <3>1. seq' \in Nat
      BY <1>4
    <3>2. \A n \in 1..seq' : n \in 1..(seq' - 1) \/ n = seq'
      BY <3>1, UpTo
    <3>3. QED
      BY <2>1, <3>2
  <2>3. pc' = "loop" => seq' \in Seen'
    BY <1>2, <1>3
  <2>4. 1..seq' \subseteq (IF pc' = "unpack" THEN Seen' \cup {seq'} ELSE Seen')
    BY <1>2, <1>3, <2>2, <2>3
  <2>5. \A n \in Decoded : 1..n \subseteq Seen
    BY DEF SafeInv, GapInv
  <2>6. 1..file.seq \subseteq Seen
    BY DEF SafeInv, GapInv
  <2>7. QED
    BY <1>1, <1>3, <1>4, <2>4, <2>5, <2>6 DEF GapInv
<1>6. OrderInv'
  <2>1. ASSUME ~unsaved'
        PROVE  /\ \A i, j \in 1..Len(handed) : i < j => handed[i] < handed[j]
               /\ \A n \in Decoded : n <= seq' /\ n # seq'
    <3>1. ~unsaved
      BY <1>1, <2>1
    <3>2. \A n \in Decoded : n \in Nat
      BY DEF TypeInv
    <3>3. seq = Unset => \A n \in Decoded : n <= origin
      BY <1>1 DEF SafeInv, OrderInv
    <3>4. seq # Unset => \A n \in Decoded : n <= seq
      BY <3>1 DEF SafeInv, OrderInv
    <3>5. \A n \in Decoded : n <= seq' /\ n # seq'
      BY <1>4, <3>2, <3>3, <3>4
    <3>6. QED
      BY <3>1, <3>5 DEF SafeInv, OrderInv
  <2>2. QED
    BY <1>1, <1>2, <1>3, <1>4, <2>1 DEF OrderInv
<1>7. \A x, n \in Nat : /\ Cardinality(Sent(tooLarge', x, n)) <= Cardinality(Sent(tooLarge, x, n))
                         /\ Cardinality(Sent(tooLarge', x, n)) \in Nat
  <2> TAKE x, n \in Nat
  <2>1. Sent(tooLarge', x, n) \subseteq Sent(tooLarge, x, n)
    BY <1>2 DEF Sent
  <2>2. QED
    BY <2>1, SentFinite, FS_Subset, FS_CardinalityType
<1>8. options.useStateFile => Near(seq')
  <2>1. CASE seq = Unset
    <3>1. \A n \in Decoded : n <= origin /\ n \in Nat
      BY <1>1, <2>1 DEF SafeInv, OrderInv, TypeInv
    <3>2. \A n \in Decoded : ~(n > seq')
      BY <1>4, <2>1, <3>1
    <3>3. QED
      BY <3>2 DEF Near
  <2>2. CASE seq # Unset
    <3> SUFFICES ASSUME options.useStateFile, NEW n \in Decoded, n > seq'
                 PROVE  Cardinality(Sent(tooLarge, seq', n)) <= Reach
      BY DEF Near
    <3>1. n \in Nat /\ n > seq /\ seq <= seq'
      BY <1>4, <2>2 DEF TypeInv
    <3>2. Cardinality(Sent(tooLarge, seq, n)) <= Reach
      BY <2>2, <3>1 DEF SafeInv, RedeliveryInv, Near
    <3>3. Cardinality(Sent(tooLarge, seq', n)) <= Cardinality(Sent(tooLarge, seq, n))
      BY <1>4, <3>1, SentLater
    <3>4. Cardinality(Sent(tooLarge, seq, n)) \in Nat /\ Cardinality(Sent(tooLarge, seq', n)) \in Nat
      BY <1>4, <3>1, SentFinite
    <3>5. QED
      BY <3>2, <3>3, <3>4, ReachFacts
  <2>3. QED
    BY <2>1, <2>2
<1>9. ASSUME file.seq # Unset
      PROVE  /\ file.seq <= seq'
             /\ Cardinality(Sent(tooLarge', file.seq, seq')) <= updateCount - 1 + Weight(pc') + missed
  <2> DEFINE f == file.seq
  <2>1. /\ f <= seq
        /\ Cardinality(Sent(tooLarge, f, seq)) <= updateCount - 1 + Weight(pc) + missed
    BY <1>1, <1>9 DEF SafeInv, RedeliveryInv
  <2>2. f \in Nat /\ f # 0 /\ updateCount \in Nat /\ missed \in Nat
    BY <1>9 DEF TypeInv, Unset
  <2> HIDE DEF f
  <2>3. seq' = seq + 1 /\ f <= seq'
    BY <1>4, <2>1, <2>2 DEF Unset
  <2>4. IsFiniteSet(Sent(tooLarge, f, seq)) /\ Cardinality(Sent(tooLarge, f, seq)) \in Nat
    BY <1>4, <2>2, SentFinite
  <2>5. Weight(pc) = 0
    BY <1>1 DEF Weight
  <2>6. CASE pc' = "loop"
    <3>1. Sent(tooLarge', f, seq') \subseteq Sent(tooLarge, f, seq)
      BY <1>2, <1>4, <2>2, <2>3, <2>6 DEF Sent
    <3>2. /\ Cardinality(Sent(tooLarge', f, seq')) <= Cardinality(Sent(tooLarge, f, seq))
          /\ Cardinality(Sent(tooLarge', f, seq')) \in Nat
      BY <2>4, <3>1, FS_Subset, FS_CardinalityType
    <3>3. Weight(pc') = 0
      BY <2>6 DEF Weight
    <3>4. QED
      BY <2>1, <2>2, <2>3, <2>4, <2>5, <3>2, <3>3 DEF f
  <2>7. CASE pc' = "unpack"
    <3>1. Sent(tooLarge', f, seq') \subseteq Sent(tooLarge, f, seq) \cup {seq'}
      BY <1>2, <1>4, <2>2, <2>3, <2>7 DEF Sent
    <3>2. /\ IsFiniteSet(Sent(tooLarge, f, seq) \cup {seq'})
          /\ Cardinality(Sent(tooLarge, f, seq) \cup {seq'}) <= Cardinality(Sent(tooLarge, f, seq)) + 1
          /\ Cardinality(Sent(tooLarge, f, seq) \cup {seq'}) \in Nat
      BY <2>4, FS_AddElement, FS_CardinalityType
    <3>3. /\ Cardinality(Sent(tooLarge', f, seq')) <= Cardinality(Sent(tooLarge, f, seq) \cup {seq'})
          /\ Cardinality(Sent(tooLarge', f, seq')) \in Nat
      BY <3>1, <3>2, FS_Subset, FS_CardinalityType
    <3>4. Weight(pc') = 1
      BY <2>7 DEF Weight
    <3>5. QED
      BY <2>1, <2>2, <2>3, <2>4, <2>5, <3>2, <3>3, <3>4 DEF f
  <2>8. QED
    BY <1>2, <2>6, <2>7
<1>10. RedeliveryInv'
  <2>1. Decoded' \cap tooLarge' = {}
    BY <1>2, <1>3 DEF SafeInv, RedeliveryInv
  <2>2. pc' = "unpack" => seq' \notin tooLarge'
    BY <1>2
  <2>3. ASSUME file.seq # Unset, NEW n \in Decoded, n > file.seq
        PROVE  Cardinality(Sent(tooLarge', file.seq, n)) <= Reach
    <3>1. n \in Nat /\ file.seq \in Nat /\ Reach \in Nat
      BY ReachFacts DEF TypeInv
    <3>2. Cardinality(Sent(tooLarge, file.seq, n)) <= Reach
      BY <2>3 DEF SafeInv, RedeliveryInv, Near
    <3>3. /\ Cardinality(Sent(tooLarge', file.seq, n))
                 <= Cardinality(Sent(tooLarge, file.seq, n))
          /\ Cardinality(Sent(tooLarge', file.seq, n)) \in Nat
      BY <1>7, <3>1
    <3>4. Cardinality(Sent(tooLarge, file.seq, n)) \in Nat
      BY <3>1, SentFinite
    <3>5. QED
      BY <3>1, <3>2, <3>3, <3>4
  <2>4. ASSUME options.useStateFile, NEW n \in Decoded, n > seq'
        PROVE  Cardinality(Sent(tooLarge', seq', n)) <= Reach
    <3>1. n \in Nat /\ seq' \in Nat /\ Reach \in Nat
      BY <1>4, ReachFacts DEF TypeInv
    <3>2. Cardinality(Sent(tooLarge, seq', n)) <= Reach
      BY <1>8, <2>4 DEF Near
    <3>3. /\ Cardinality(Sent(tooLarge', seq', n))
                 <= Cardinality(Sent(tooLarge, seq', n))
          /\ Cardinality(Sent(tooLarge', seq', n)) \in Nat
      BY <1>7, <3>1
    <3>4. Cardinality(Sent(tooLarge, seq', n)) \in Nat
      BY <3>1, SentFinite
    <3>5. QED
      BY <3>1, <3>2, <3>3, <3>4
  <2>5. /\ file'.seq # Unset => Near(file.seq)'
        /\ options.useStateFile => Near(seq)'
    BY <1>1, <1>3, <2>3, <2>4, ReachFacts DEF Near
  <2>6. QED
    BY <1>1, <1>9, <2>1, <2>2, <2>5 DEF RedeliveryInv
<1>11. SkipInv'
  <2> SUFFICES ASSUME Resumes'
               PROVE  SkipInv'
    BY DEF SkipInv
  <2>1. Resumes /\ passed' = passed /\ Decoded' = Decoded
    BY <1>1, <1>3 DEF Resumes
  <2>2. \A n \in passed, m \in Decoded : n < m
    BY <2>1 DEF SafeInv, SkipInv
  <2>3. \A n \in passed : n < seq'
    BY <1>1, <1>4, <2>1 DEF SafeInv, SkipInv, TypeInv
  <2>4. QED
    BY <1>1, <1>2, <1>4, <2>1, <2>2, <2>3 DEF SkipInv
<1>12. QED
  BY <1>5, <1>6, <1>10, <1>11 DEF SafeInv

(* A packet in hand is given to the callback, or given up.                 *)
LEMMA SafeUnpack ==
    ASSUME TypeInv, PlacesInv, SafeInv, alive,
           HandToCallback \/ UnpackFails
    PROVE  SafeInv'
<1>1. /\ pc = "unpack" /\ pc' = "count"
      /\ UNCHANGED <<alive, options, origin, seq, file, updateCount, tooLarge,
                     passed, unsaved, missed>>
  BY DEF HandToCallback, UnpackFails, Unpack, processVars, serverVars, countVars
<1>2. /\ seq \in Nat /\ seq # Unset
      /\ file.seq \in Nat /\ handed \in Seq(Nat)
      /\ updateCount \in Nat /\ updateCount <= Interval + 1
      /\ Interval \in Nat /\ missed \in Nat /\ Reach = Interval + 1 + missed
  BY <1>1, SEEDLinkAssumption DEF TypeInv, PlacesInv, Reach
<1>3. \/ handed' = Append(handed, seq) /\ Decoded' = Decoded \cup {seq} /\ UNCHANGED undecodable
      \/ handed' = handed /\ Decoded' = Decoded /\ undecodable' = undecodable \cup {seq}
  BY <1>2, DecodedAppend, SetsUnchanged DEF HandToCallback, UnpackFails
<1>4. Seen' = Seen \cup {seq}
  BY <1>1, <1>3 DEF Seen, Lost
<1>5. GapInv'
  <2>1. 1..seq \subseteq Seen'
    BY <1>1, <1>4 DEF SafeInv, GapInv
  <2>2. \A n \in Decoded' : 1..n \subseteq Seen'
    BY <1>3, <1>4, <2>1 DEF SafeInv, GapInv
  <2>3. 1..file.seq \subseteq Seen'
    BY <1>4 DEF SafeInv, GapInv
  <2>4. QED
    BY <1>1, <1>2, <2>1, <2>2, <2>3 DEF GapInv
<1>6. OrderInv'
  <2>1. ASSUME ~unsaved'
        PROVE  /\ \A i, j \in 1..Len(handed') : i < j => handed'[i] < handed'[j]
               /\ \A n \in Decoded' : n <= seq
    <3>1. ~unsaved
      BY <1>1, <2>1
    <3>2. \A n \in Decoded : n \in Nat /\ n <= seq /\ n # seq
      BY <1>1, <1>2, <3>1 DEF SafeInv, OrderInv, TypeInv
    <3>3. \A i, j \in 1..Len(handed) : i < j => handed[i] < handed[j]
      BY <3>1 DEF SafeInv, OrderInv
    <3>4. \A i \in 1..Len(handed) : handed[i] \in Nat /\ handed[i] < seq
      BY <1>2, <3>2, DecodedAt
    <3>5. \A n \in Decoded' : n <= seq
      BY <1>2, <1>3, <3>2
    <3>6. CASE handed' = Append(handed, seq)
      <4>1. /\ Len(handed) \in Nat
            /\ Len(handed') = Len(handed) + 1
            /\ \A i \in 1..Len(handed) : handed'[i] = handed[i]
            /\ handed'[Len(handed) + 1] = seq
        BY <1>2, <3>6
      <4>2. ASSUME NEW i \in 1..Len(handed'), NEW j \in 1..Len(handed'), i < j
            PROVE  handed'[i] < handed'[j]
        <5>1. i \in 1..Len(handed)
          BY <4>1, <4>2
        <5>2. j \in 1..Len(handed) \/ j = Len(handed) + 1
          BY <4>1
        <5>3. QED
          BY <3>3, <3>4, <4>1, <4>2, <5>1, <5>2
      <4>3. QED
        BY <3>5, <4>2
    <3>7. QED
      BY <1>3, <3>3, <3>5, <3>6
  <2>2. QED
    BY <1>1, <1>2, <2>1 DEF OrderInv
<1>7. RedeliveryInv'
  <2>1. Decoded' \cap tooLarge = {}
    BY <1>1, <1>3 DEF SafeInv, RedeliveryInv
  <2>2. file.seq # Unset =>
            /\ file.seq <= seq
            /\ Cardinality(Sent(tooLarge, file.seq, seq)) <= updateCount - 1 + 1 + missed
    BY <1>1 DEF SafeInv, RedeliveryInv, Weight
  <2>3. Cardinality(Sent(tooLarge, file.seq, seq)) \in Nat
    BY <1>2, SentFinite
  <2>4. ASSUME file.seq # Unset, NEW n \in Decoded', n > file.seq
        PROVE  Cardinality(Sent(tooLarge, file.seq, n)) <= Reach
    <3>1. CASE n \in Decoded
      BY <2>4, <3>1 DEF SafeInv, RedeliveryInv, Near
    <3>2. CASE n = seq
      BY <1>2, <2>2, <2>3, <2>4, <3>2
    <3>3. QED
      BY <1>3, <3>1, <3>2
  <2>5. ASSUME options.useStateFile, NEW n \in Decoded', n > seq
        PROVE  Cardinality(Sent(tooLarge, seq, n)) <= Reach
    <3>1. n \in Decoded
      BY <1>2, <1>3, <2>5
    <3>2. QED
      BY <1>2, <2>5, <3>1 DEF SafeInv, RedeliveryInv, Near
  <2>6. /\ file'.seq # Unset => Near(file.seq)'
        /\ options.useStateFile => Near(seq)'
    BY <1>1, <2>4, <2>5, ReachFacts DEF Near
  <2>7. Weight(pc') = 1
    BY <1>1 DEF Weight
  <2>8. QED
    BY <1>1, <2>1, <2>2, <2>6, <2>7 DEF RedeliveryInv
<1>8. SkipInv'
  <2>1. Resumes' => Resumes
    BY <1>1 DEF Resumes
  <2>2. Resumes' => \A n \in passed, m \in Decoded' : n < m
    BY <1>1, <1>2, <1>3, <2>1 DEF SafeInv, SkipInv
  <2>3. Resumes' => \A n \in passed : n < seq
    BY <1>1, <1>2, <2>1 DEF SafeInv, SkipInv
  <2>4. QED
    BY <1>1, <1>2, <2>2, <2>3 DEF SkipInv
<1>9. QED
  BY <1>5, <1>6, <1>7, <1>8 DEF SafeInv

(* The thread saves what it has handed on.                                 *)
LEMMA SafeSave ==
    ASSUME TypeInv, PlacesInv, SafeInv, alive, SaveState
    PROVE  SafeInv'
<1>1. /\ pc = "save" /\ pc' = "loop"
      /\ file'.seq = seq
      /\ UNCHANGED <<alive, options, origin, seq, updateCount, handed, tooLarge,
                     undecodable, passed, unsaved, missed>>
  BY FileFacts DEF SaveState, WriteFile, processVars, serverVars, countVars,
                   historyVars, packetVars
<1>2. UNCHANGED <<Decoded, Seen>>
  BY <1>1, SetsUnchanged
<1>3. /\ seq \in Nat /\ seq # Unset /\ options.useStateFile
      /\ updateCount \in Nat /\ 1 <= updateCount /\ missed \in Nat
  BY <1>1 DEF TypeInv, PlacesInv
<1>4. GapInv'
  <2>1. 1..seq \subseteq Seen
    BY <1>1 DEF SafeInv, GapInv
  <2>2. \A n \in Decoded : 1..n \subseteq Seen
    BY DEF SafeInv, GapInv
  <2>3. QED
    BY <1>1, <1>2, <1>3, <2>1, <2>2 DEF GapInv
<1>5. OrderInv'
  <2>1. ~unsaved =>
            /\ \A i, j \in 1..Len(handed) : i < j => handed[i] < handed[j]
            /\ \A n \in Decoded : n <= seq
    BY <1>3 DEF SafeInv, OrderInv
  <2>2. QED
    BY <1>1, <1>2, <1>3, <2>1 DEF OrderInv
<1>6. RedeliveryInv'
  <2>1. Sent(tooLarge, seq, seq) = {}
    BY <1>3 DEF Sent
  <2>2. Cardinality(Sent(tooLarge, seq, seq)) = 0
    BY <2>1, FS_EmptySet
  <2>3. 0 <= updateCount - 1 + Weight(pc') + missed
    BY <1>1, <1>3 DEF Weight
  <2>4. Near(seq) /\ Decoded \cap tooLarge = {}
    BY <1>3 DEF SafeInv, RedeliveryInv
  <2>5. Near(seq)'
    BY <1>1, <1>2, <2>4, ReachFacts DEF Near
  <2>6. Near(file.seq)'
    BY <1>1, <1>2, <2>4, ReachFacts DEF Near
  <2>7. QED
    BY <1>1, <1>2, <1>3, <2>2, <2>3, <2>4, <2>5, <2>6 DEF RedeliveryInv
<1>7. SkipInv'
  <2>1. Resumes' => Resumes
    BY <1>1 DEF Resumes
  <2>2. QED
    BY <1>1, <1>2, <1>3, <2>1 DEF SafeInv, SkipInv
<1>8. QED
  BY <1>4, <1>5, <1>6, <1>7 DEF SafeInv

(* The destructor saves when the thread has ended.                         *)
LEMMA SafeExit ==
    ASSUME TypeInv, PlacesInv, SafeInv, alive, Exit
    PROVE  SafeInv'
<1>1. /\ stopper = "saving"
      /\ ~alive'
      /\ file' = IF options.useStateFile THEN Saved(seq) ELSE file
      /\ UNCHANGED <<options, pc, origin, seq, updateCount, handed, tooLarge,
                     undecodable, passed, unsaved, missed>>
  BY DEF Exit, ExitSaving, StopperGoto, serverVars, countVars, historyVars, packetVars
<1>2. UNCHANGED <<Decoded, Seen>>
  BY <1>1, SetsUnchanged
<1>3. pc # "unpack"
  BY <1>1 DEF PlacesInv, Finished
<1>4. IF options.useStateFile THEN file'.seq = seq ELSE file'.seq = Unset
  BY <1>1, FileFacts DEF PlacesInv
<1>5. GapInv'
  <2>1. 1..seq \subseteq Seen
    BY <1>3 DEF SafeInv, GapInv
  <2>2. 1..file'.seq \subseteq Seen
    BY <1>4, <2>1 DEF Unset
  <2>3. \A n \in Decoded : 1..n \subseteq Seen
    BY DEF SafeInv, GapInv
  <2>4. QED
    BY <1>1, <1>2, <2>2, <2>3 DEF GapInv
<1>6. OrderInv'
  <2>1. ~unsaved =>
            /\ \A i, j \in 1..Len(handed) : i < j => handed[i] < handed[j]
            /\ seq # Unset => \A n \in Decoded : n <= seq
    BY DEF SafeInv, OrderInv
  <2>2. file'.seq # Unset => file'.seq = seq
    BY <1>4
  <2>3. QED
    BY <1>1, <1>2, <2>1, <2>2 DEF OrderInv
<1>7. RedeliveryInv'
  <2>1. Decoded \cap tooLarge = {}
    BY DEF SafeInv, RedeliveryInv
  <2>2. file'.seq # Unset => file'.seq = seq /\ Near(seq)
    BY <1>4 DEF SafeInv, RedeliveryInv
  <2>3. file'.seq # Unset => Near(file.seq)'
    BY <1>1, <1>2, <2>2, ReachFacts DEF Near
  <2>4. QED
    BY <1>1, <1>2, <2>1, <2>3 DEF RedeliveryInv
<1>8. SkipInv'
  <2>1. Resumes' => Resumes /\ file'.seq = seq
    BY <1>1, <1>4 DEF Resumes
  <2>2. pc # "recover"
    BY <1>1 DEF PlacesInv, Finished
  <2>3. QED
    BY <1>1, <1>2, <2>1, <2>2 DEF SafeInv, SkipInv
<1>9. QED
  BY <1>5, <1>6, <1>7, <1>8 DEF SafeInv

-----------------------------------------------------------------------------
(* The invariant. *)

IInv == TypeInv /\ PlacesInv /\ SafeInv

(* Before the first start.                                                 *)
LEMMA IInvInitially == Init => IInv
<1> SUFFICES ASSUME Init PROVE IInv
  OBVIOUS
<1>1. TypeInv /\ PlacesInv
  BY TypeInitially
<1>2. /\ ~alive
      /\ handed = <<>>
      /\ tooLarge = {}
      /\ file.seq = 0
      /\ passed = {}
  BY FileFacts DEF Init, Unset
<1>3. Decoded = {}
  BY <1>2 DEF Decoded, ToSet
<1>4. GapInv
  BY <1>2, <1>3 DEF GapInv
<1>5. OrderInv
  BY <1>2, <1>3 DEF OrderInv
<1>6. RedeliveryInv
  BY <1>2, <1>3 DEF RedeliveryInv, Unset
<1>7. SkipInv
  BY <1>2, <1>3 DEF SkipInv
<1>8. QED
  BY <1>1, <1>4, <1>5, <1>6, <1>7 DEF IInv, SafeInv

(* Every step.                                                             *)
LEMMA IInvStep == IInv /\ [Next]_vars => IInv'
<1>1. SUFFICES ASSUME TypeInv, PlacesInv, SafeInv, [Next]_vars, TypeInv', PlacesInv'
               PROVE  SafeInv'
  BY TypeStep DEF IInv
<1>2. CASE Start
  BY <1>1, <1>2, SafeStart
<1>3. CASE alive /\ (Recover \/ Reconnect)
  BY <1>1, <1>3, SafeSubscribe
<1>4. CASE alive /\ (CollectPacket \/ CollectTooLarge)
  BY <1>1, <1>4, SafeCollect
<1>5. CASE alive /\ (HandToCallback \/ UnpackFails)
  BY <1>1, <1>5, SafeUnpack
<1>6. CASE alive /\ SaveState
  BY <1>1, <1>6, SafeSave
<1>7. CASE alive /\ Exit
  BY <1>1, <1>7, SafeExit
<1>8. CASE \/ Produce
           \/ alive /\ (\/ RecoverFails \/ TestRunning \/ CollectNothing
                        \/ CollectTerminate \/ CountPacket \/ CountUnsaved
                        \/ SaveFails \/ PurgeStateFile \/ PurgeFails \/ Verdict)
           \/ StopTests
           \/ alive /\ (StopTerminates \/ StopStores \/ Disconnect \/ ExitUnsaved)
           \/ Crash
           \/ UNCHANGED vars
  <2>1. Quiet
    BY <1>1, <1>8, QuietSteps
  <2>2. QED
    BY <1>1, <2>1, QuietGap, QuietOrder, QuietRedelivery, QuietSkip DEF SafeInv
<1>9. QED
  BY <1>1, <1>2, <1>3, <1>4, <1>5, <1>6, <1>7, <1>8 DEF Next, Thread, Collecting, Stop

(* The inductive invariant holds throughout.                               *)
THEOREM Invariance == Spec => []IInv
<1>1. Init => IInv
  BY IInvInitially
<1>2. IInv /\ [Next]_vars => IInv'
  BY IInvStep
<1>3. QED
  BY <1>1, <1>2, PTL DEF Spec

(* Whatever crashes, stops, reconnections and torn files there were, the   *)
(* client misses no packet between two packets it handed on.               *)
THEOREM NeverAGap == Spec => []NoGap
<1>1. IInv => NoGap
  BY DEF IInv, SafeInv, GapInv, NoGap
<1>2. QED
  BY <1>1, Invariance, PTL

(* As long as every run was saved at its end, every packet is handed on    *)
(* once, over all runs, whichever of the saves in between failed.          *)
THEOREM NeverADuplicate == Spec => []NoDuplicateWhenSaved
<1>1. IInv => NoDuplicateWhenSaved
  BY DEF IInv, SafeInv, OrderInv, NoDuplicateWhenSaved
<1>2. QED
  BY <1>1, Invariance, PTL

(* The server sends again at most Interval + 1 packets that were handed on,*)
(* and those counted for the saves that failed, however many were too      *)
(* large in between.                                                       *)
THEOREM RedeliveryBounded == Spec => []RedeliveryBound
<1>1. ASSUME IInv
      PROVE  RedeliveryBound
  <2> SUFFICES ASSUME file.seq # Unset
               PROVE  Cardinality({n \in Decoded : n > file.seq}) <= Reach
    BY DEF RedeliveryBound, Reach
  <2> DEFINE D == {n \in Decoded : n > file.seq}
  <2>1. /\ Reach \in Nat /\ file.seq \in Nat /\ produced \in Nat
        /\ \A n \in D : n \in Nat /\ n <= produced /\ n > file.seq /\ n \in Decoded
        /\ Near(file.seq)
        /\ Decoded \cap tooLarge = {}
    BY <1>1, ReachFacts DEF IInv, TypeInv, SafeInv, RedeliveryInv
  <2> HIDE DEF D
  <2>2. CASE D = {}
    <3>1. Cardinality(D) = 0
      BY <2>2, FS_EmptySet
    <3>2. QED
      BY <2>1, <3>1 DEF D
  <2>3. CASE D # {}
    <3>1. PICK m \in D : \A n \in D : n <= m
      BY <2>1, <2>3, GreatestNumber
    <3>2. D \subseteq Sent(tooLarge, file.seq, m)
      BY <2>1, <3>1 DEF Sent
    <3>3. /\ IsFiniteSet(Sent(tooLarge, file.seq, m))
          /\ Cardinality(Sent(tooLarge, file.seq, m)) \in Nat
      BY <2>1, <3>1, SentFinite
    <3>4. /\ Cardinality(D) <= Cardinality(Sent(tooLarge, file.seq, m))
          /\ Cardinality(D) \in Nat
      BY <3>2, <3>3, FS_Subset, FS_CardinalityType
    <3>5. Cardinality(Sent(tooLarge, file.seq, m)) <= Reach
      BY <2>1, <3>1 DEF Near
    <3>6. QED
      BY <2>1, <3>3, <3>4, <3>5 DEF D
  <2>4. QED
    BY <2>2, <2>3
<1>2. QED
  BY <1>1, Invariance, PTL

(* A client that keeps its state file, and was saved at the end of every   *)
(* run, passes over no packet once it has handed one on.                   *)
THEOREM NeverASkip == Spec => []NothingSkipped
<1>1. IInv => NothingSkipped
  BY DEF IInv, SafeInv, SkipInv, NothingSkipped
<1>2. QED
  BY <1>1, Invariance, PTL

=============================================================================
