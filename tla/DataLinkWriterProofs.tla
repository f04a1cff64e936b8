------------------------- MODULE DataLinkWriterProofs -------------------------
(***************************************************************************)
(* What the writer thread of a DataLinkClient guarantees for every queue   *)
(* size, every limit on write failures and every list of reconnection      *)
(* waits: it writes in order and at most once, counts what it writes, pops *)
(* only over an open connection, and heeds stop() promptly.                *)
(***************************************************************************)
EXTENDS DataLinkWriter, TLAPS

-----------------------------------------------------------------------------
(* The inductive invariant. *)

Reconnecting == {"wait", "falling", "asleep", "connect"}

BatchRecords == [id : Records, empty : BOOLEAN]

LateRecords == [pops : Nat, timeouts : Nat, connects : Nat]

(* What the sequences hold. *)
DataInv ==
    /\ queue \in Seq(1..MaxPackets)
    /\ batch \in Seq(BatchRecords)
    /\ attempted \in Seq(Records)
    /\ sent \in Seq(Records)
    /\ late \in LateRecords

(* What a place in runWriter says of the loops around it. *)
PlaceInv ==
    /\ pc = "write" => batch # <<>>
    /\ pc # "threw" => failures < MaxWriteFailures
    /\ pc \in Reconnecting => attempt >= 1

(* How far stop() is. *)
StopInv ==
    /\ keepRunning <=> stopper = "away"
    /\ terminate <=> stopper \in {"flagged", "returned"}

(* Why a stopped writer cannot do any of it again. *)
LateInv ==
    /\ keepRunning => late.pops = 0 /\ late.connects = 0
    /\ ~terminate => late.timeouts = 0
    /\ late.pops > 0 => pc \notin Reconnecting \cup {"pop"}
    /\ late.timeouts > 0 => pc \notin {"falling", "asleep"}
    /\ pc \in Reconnecting => late.connects < attempt

IInv ==
    /\ TypeOK
    /\ DataInv
    /\ PlaceInv
    /\ ConnectedWhenPopping
    /\ WritesCounted
    /\ StopInv
    /\ LateInv
    /\ StopIsPrompt

(* Why records go out in order: so do the packets behind them, whatever    *)
(* the relay evicts, and the queue is still ahead of the packet in hand.   *)
OrderInv ==
    /\ \A i, j \in 1..Len(queue) : i < j => queue[i] < queue[j]
    /\ \A j \in 1..Len(queue) : queue[j] <= offered
    /\ \A i, j \in 1..Len(batch) : i < j => Before(batch[i].id, batch[j].id)
    /\ \A i \in 1..Len(batch) :
           /\ batch[i].id[1] <= offered
           /\ \A j \in 1..Len(queue) : batch[i].id[1] < queue[j]
    /\ \A i \in 1..Len(sent) :
           /\ sent[i][1] <= offered
           /\ \A j \in 1..Len(queue) : sent[i][1] < queue[j]
    /\ \A i \in 1..Len(sent), j \in 1..Len(batch) : Before(sent[i], batch[j].id)
    /\ SentInOrder

(* What consecutiveWriteFailures counts: the records given to dl_write     *)
(* since the last one it accepted.                                         *)
RunInv ==
    /\ failures <= Len(attempted)
    /\ \A i \in (Len(attempted) - failures + 1)..Len(attempted) :
           attempted[i] \notin ToSet(sent)
    /\ failures < Len(attempted) =>
           attempted[Len(attempted) - failures] \in ToSet(sent)
    /\ reason = "writes" <=> failures = MaxWriteFailures

-----------------------------------------------------------------------------
(* The parts of a step. *)

(* The head of a sequence and the rest of it. *)
LEMMA TailOf ==
    ASSUME NEW S, NEW s \in Seq(S), s # <<>>
    PROVE  /\ Tail(s) \in Seq(S)
           /\ Head(s) \in S
           /\ Head(s) = s[1]
           /\ Len(s) \in Nat \ {0}
           /\ Len(Tail(s)) = Len(s) - 1
           /\ \A i \in 1..Len(Tail(s)) : Tail(s)[i] = s[i + 1]
OBVIOUS

(* A sequence and one element more. *)
LEMMA AppendOf ==
    ASSUME NEW S, NEW s \in Seq(S), NEW e \in S
    PROVE  /\ Append(s, e) \in Seq(S)
           /\ Len(Append(s, e)) = Len(s) + 1
           /\ Append(s, e)[Len(s) + 1] = e
           /\ \A i \in 1..Len(s) : Append(s, e)[i] = s[i]
OBVIOUS

(* The records made of a packet carry its number. *)
LEMMA BatchesOf ==
    ASSUME NEW p \in 1..MaxPackets, NEW b \in Batches(p)
    PROVE  /\ b \in Seq(BatchRecords)
           /\ \A k \in 1..Len(b) : b[k].id = <<p, k>>
<1> USE WriterAssumption
<1>1. PICK n \in 0..MaxRecords :
        b \in { [k \in 1..n |-> [id |-> <<p, k>>, empty |-> k \in blank]] :
                    blank \in SUBSET (1..n) }
  BY DEF Batches
<1>2. PICK blank \in SUBSET (1..n) :
        b = [k \in 1..n |-> [id |-> <<p, k>>, empty |-> k \in blank]]
  BY <1>1
<1>3. \A k \in 1..n : [id |-> <<p, k>>, empty |-> k \in blank] \in BatchRecords
  BY DEF BatchRecords, Records
<1>4. b \in [1..n -> BatchRecords]
  BY <1>2, <1>3
<1>5. b \in Seq(BatchRecords) /\ Len(b) = n
  BY <1>2, <1>4
<1> QED BY <1>2, <1>5

(* Every element of a batch carries the identifier of a record.            *)
LEMMA BatchIds ==
    ASSUME NEW b \in Seq(BatchRecords)
    PROVE  \A i \in DOMAIN b : b[i].id \in Records
<1> TAKE i \in DOMAIN b
<1>1. b[i] \in BatchRecords
  OBVIOUS
<1> QED BY <1>1 DEF BatchRecords

(* What is left of a batch, and what is taken from it.                     *)
LEMMA RestOfBatch ==
    ASSUME DataInv, batch # <<>>
    PROVE  /\ Tail(batch) \in Seq(BatchRecords)
           /\ \A i \in DOMAIN Tail(batch) : Tail(batch)[i].id \in Records
           /\ Head(batch).id \in Records
<1>1. batch \in Seq(BatchRecords)
  BY DEF DataInv
<1>2. Tail(batch) \in Seq(BatchRecords) /\ Head(batch) \in BatchRecords
  BY <1>1, TailOf
<1> QED BY <1>2, BatchIds DEF BatchRecords

(* What a step does to the record of what was done after stop(). *)
LEMMA LateFields ==
    ASSUME NEW r \in LateRecords, NEW n \in Nat
    PROVE  /\ [r EXCEPT !.pops = @ + n] \in LateRecords
           /\ [r EXCEPT !.pops = @ + n].pops = r.pops + n
           /\ [r EXCEPT !.pops = @ + n].timeouts = r.timeouts
           /\ [r EXCEPT !.pops = @ + n].connects = r.connects
           /\ [r EXCEPT !.timeouts = @ + n] \in LateRecords
           /\ [r EXCEPT !.timeouts = @ + n].pops = r.pops
           /\ [r EXCEPT !.timeouts = @ + n].timeouts = r.timeouts + n
           /\ [r EXCEPT !.timeouts = @ + n].connects = r.connects
           /\ [r EXCEPT !.connects = @ + n] \in LateRecords
           /\ [r EXCEPT !.connects = @ + n].pops = r.pops
           /\ [r EXCEPT !.connects = @ + n].timeouts = r.timeouts
           /\ [r EXCEPT !.connects = @ + n].connects = r.connects + n
BY DEF LateRecords

-----------------------------------------------------------------------------
(* The control of the writer. *)

(* A constructed client is connected, and nothing has been written.        *)
LEMMA InitInv == Init => IInv
<1> SUFFICES ASSUME Init PROVE IInv
  OBVIOUS
<1> USE WriterAssumption
<1>1. TypeOK
  <2>1. \A i \in DOMAIN batch : batch[i].id \in Records
    BY DEF Init
  <2>2. Len(queue) <= MaxQueue
    BY DEF Init
  <2>3. /\ 0 \in 0..ReconnectAttempts
        /\ 0 \in 0..MaxWriteFailures
        /\ 0 \in 0..MaxPackets
    OBVIOUS
  <2>4. {written, failed, invalid} \subseteq Nat
    BY DEF Init
  <2>5. /\ pc = "top" /\ link = "open" /\ attempt = 0 /\ failures = 0
        /\ keepRunning = TRUE /\ terminate = FALSE /\ stopper = "away"
        /\ offered = 0 /\ reason = "none"
    BY DEF Init
  <2> QED BY <2>1, <2>2, <2>3, <2>4, <2>5 DEF TypeOK, Finished
<1>2. DataInv
  BY DEF Init, DataInv, LateRecords
<1>3. PlaceInv /\ ConnectedWhenPopping /\ WritesCounted
  BY DEF Init, PlaceInv, ConnectedWhenPopping, WritesCounted, Reconnecting
<1>4. StopInv /\ LateInv /\ StopIsPrompt
  BY DEF Init, StopInv, LateInv, StopIsPrompt, Reconnecting
<1> QED BY <1>1, <1>2, <1>3, <1>4 DEF IInv

(* Every step of the writer, of the relay and of stop() keeps them.        *)
LEMMA StepInv == IInv /\ [Next]_vars => IInv'
<1> SUFFICES ASSUME IInv, [Next]_vars PROVE IInv'
  OBVIOUS
<1> USE WriterAssumption
<1> USE DEF IInv, Finished, Reconnecting, linkVars, counterVars, historyVars,
           stopVars, queueVars, writerVars
<1>0. /\ late \in LateRecords
      /\ late.pops \in Nat /\ late.timeouts \in Nat /\ late.connects \in Nat
      /\ written \in Nat /\ failed \in Nat /\ failures \in Nat
  BY DEF TypeOK, DataInv, LateRecords
<1>1. CASE Enqueue
  <2>1. offered + 1 \in 1..MaxPackets
    BY <1>1 DEF Enqueue, TypeOK
  <2>2. queue' \in Seq(1..MaxPackets) /\ Len(queue') <= MaxQueue
    <3>1. CASE Len(queue) < MaxQueue /\ queue' = Append(queue, offered + 1)
      BY <2>1, <3>1, AppendOf DEF DataInv
    <3>2. CASE queue # <<>> /\ queue' = Append(Tail(queue), offered + 1)
      <4>1. /\ Tail(queue) \in Seq(1..MaxPackets)
            /\ Len(Tail(queue)) = Len(queue) - 1
        BY <3>2, TailOf DEF DataInv
      <4>2. /\ Append(Tail(queue), offered + 1) \in Seq(1..MaxPackets)
            /\ Len(Append(Tail(queue), offered + 1)) = Len(Tail(queue)) + 1
        BY <2>1, <4>1, AppendOf
      <4> QED BY <3>2, <4>1, <4>2 DEF TypeOK, DataInv
    <3>3. CASE queue # <<>> /\ queue' = Tail(queue)
      <4>1. /\ Tail(queue) \in Seq(1..MaxPackets)
            /\ Len(Tail(queue)) = Len(queue) - 1
        BY <3>3, TailOf DEF DataInv
      <4> QED BY <3>3, <4>1 DEF TypeOK, DataInv
    <3>4. CASE UNCHANGED queue
      BY <3>4 DEF TypeOK, DataInv
    <3> QED BY <1>1, <3>1, <3>2, <3>3, <3>4 DEF Enqueue
  <2> QED BY <1>1, <2>1, <2>2
       DEF Enqueue, TypeOK, DataInv, PlaceInv, ConnectedWhenPopping,
           WritesCounted, StopInv, LateInv, StopIsPrompt
<1>2. CASE Return
  BY <1>2
     DEF Return, Goto, TypeOK, DataInv, PlaceInv, ConnectedWhenPopping,
         WritesCounted, StopInv, LateInv, StopIsPrompt
<1>3. CASE EvaluatePredicate
  BY <1>3
     DEF EvaluatePredicate, Goto, TypeOK, DataInv, PlaceInv,
         ConnectedWhenPopping, WritesCounted, StopInv, LateInv, StopIsPrompt
<1>4. CASE FallAsleep
  BY <1>4
     DEF FallAsleep, Goto, TypeOK, DataInv, PlaceInv, ConnectedWhenPopping,
         WritesCounted, StopInv, LateInv, StopIsPrompt
<1>5. CASE PopNothing
  BY <1>5
     DEF PopNothing, Goto, TypeOK, DataInv, PlaceInv, ConnectedWhenPopping,
         WritesCounted, StopInv, LateInv, StopIsPrompt
<1>6. CASE TestConnection
  BY <1>6
     DEF TestConnection, TypeOK, DataInv, PlaceInv, ConnectedWhenPopping,
         WritesCounted, StopInv, LateInv, StopIsPrompt
<1>7. CASE Timeout
  <2>1. /\ late' \in LateRecords
        /\ late'.pops = late.pops /\ late'.connects = late.connects
        /\ late'.timeouts = late.timeouts + (IF terminate THEN 1 ELSE 0)
    <3>1. (IF terminate THEN 1 ELSE 0) \in Nat
      OBVIOUS
    <3> QED BY <1>0, <1>7, <3>1, LateFields DEF Timeout
  <2>2. TypeOK'
    BY <1>0, <1>7, <2>1 DEF Timeout, PlaceInv, TypeOK
  <2>3. DataInv'
    BY <1>0, <1>7, <2>1 DEF Timeout, DataInv
  <2>4. PlaceInv' /\ ConnectedWhenPopping' /\ WritesCounted'
    BY <1>0, <1>7, <2>1
       DEF Timeout, TypeOK, PlaceInv, ConnectedWhenPopping, WritesCounted
  <2>5. StopInv' /\ LateInv' /\ StopIsPrompt'
    BY <1>0, <1>7, <2>1
       DEF Timeout, TypeOK, PlaceInv, StopInv, LateInv, StopIsPrompt
  <2> QED BY <2>2, <2>3, <2>4, <2>5
<1>8. CASE ConnectSucceeds
  <2>1. /\ late' \in LateRecords
        /\ late'.pops = late.pops /\ late'.timeouts = late.timeouts
        /\ late'.connects = late.connects + (IF keepRunning THEN 0 ELSE 1)
    <3>1. (IF keepRunning THEN 0 ELSE 1) \in Nat
      OBVIOUS
    <3> QED BY <1>0, <1>8, <3>1, LateFields DEF ConnectSucceeds, Connect
  <2>2. TypeOK'
    BY <1>0, <1>8, <2>1 DEF ConnectSucceeds, Connect, PlaceInv, TypeOK
  <2>3. DataInv'
    BY <1>0, <1>8, <2>1 DEF ConnectSucceeds, Connect, DataInv
  <2>4. PlaceInv' /\ ConnectedWhenPopping' /\ WritesCounted'
    BY <1>0, <1>8, <2>1
       DEF ConnectSucceeds, Connect, TypeOK, PlaceInv, ConnectedWhenPopping,
           WritesCounted
  <2>5. StopInv' /\ LateInv' /\ StopIsPrompt'
    BY <1>0, <1>8, <2>1
       DEF ConnectSucceeds, Connect, TypeOK, PlaceInv, StopInv, LateInv,
           StopIsPrompt
  <2> QED BY <2>2, <2>3, <2>4, <2>5
<1>9. CASE ConnectFails
  <2>1. /\ late' \in LateRecords
        /\ late'.pops = late.pops /\ late'.timeouts = late.timeouts
        /\ late'.connects = late.connects + (IF keepRunning THEN 0 ELSE 1)
    <3>1. (IF keepRunning THEN 0 ELSE 1) \in Nat
      OBVIOUS
    <3> QED BY <1>0, <1>9, <3>1, LateFields DEF ConnectFails, Connect
  <2>2. CASE attempt < ReconnectAttempts
    <3>1. ConnectAgain
      BY <1>9, <2>2 DEF ConnectFails
    <3>2. TypeOK'
      BY <1>0, <1>9, <2>1, <2>2, <3>1
         DEF ConnectFails, ConnectAgain, Connect, PlaceInv, TypeOK
    <3>3. DataInv'
      BY <1>0, <1>9, <2>1, <2>2, <3>1
         DEF ConnectFails, ConnectAgain, Connect, DataInv
    <3>4. PlaceInv' /\ ConnectedWhenPopping' /\ WritesCounted'
      BY <1>0, <1>9, <2>1, <2>2, <3>1
         DEF ConnectFails, ConnectAgain, Connect, TypeOK, PlaceInv,
             ConnectedWhenPopping, WritesCounted
    <3>5. StopInv' /\ LateInv' /\ StopIsPrompt'
      BY <1>0, <1>9, <2>1, <2>2, <3>1
         DEF ConnectFails, ConnectAgain, Connect, TypeOK, PlaceInv, StopInv,
             LateInv, StopIsPrompt
    <3> QED BY <3>2, <3>3, <3>4, <3>5
  <2>3. CASE ~(attempt < ReconnectAttempts)
    <3>1. GiveUpConnecting
      BY <1>9, <2>3 DEF ConnectFails
    <3>2. TypeOK'
      BY <1>0, <1>9, <2>1, <2>3, <3>1
         DEF ConnectFails, GiveUpConnecting, Connect, PlaceInv, TypeOK
    <3>3. DataInv'
      BY <1>0, <1>9, <2>1, <2>3, <3>1
         DEF ConnectFails, GiveUpConnecting, Connect, DataInv
    <3>4. PlaceInv' /\ ConnectedWhenPopping' /\ WritesCounted'
      BY <1>0, <1>9, <2>1, <2>3, <3>1
         DEF ConnectFails, GiveUpConnecting, Connect, TypeOK, PlaceInv,
             ConnectedWhenPopping, WritesCounted
    <3>5. StopInv' /\ LateInv' /\ StopIsPrompt'
      BY <1>0, <1>9, <2>1, <2>3, <3>1
         DEF ConnectFails, GiveUpConnecting, Connect, TypeOK, PlaceInv,
             StopInv, LateInv, StopIsPrompt
    <3> QED BY <3>2, <3>3, <3>4, <3>5
  <2> QED BY <2>2, <2>3
<1>10. CASE StopStores
  BY <1>10
     DEF StopStores, TypeOK, DataInv, PlaceInv, ConnectedWhenPopping,
         WritesCounted, StopInv, LateInv, StopIsPrompt
<1>11. CASE StopFlags
  BY <1>11
     DEF StopFlags, TypeOK, DataInv, PlaceInv, ConnectedWhenPopping,
         WritesCounted, StopInv, LateInv, StopIsPrompt
<1>12. CASE StopNotifies
  BY <1>12
     DEF StopNotifies, TypeOK, DataInv, PlaceInv, ConnectedWhenPopping,
         WritesCounted, StopInv, LateInv, StopIsPrompt
<1>13. CASE UNCHANGED vars
  BY <1>13
     DEF vars, TypeOK, DataInv, PlaceInv, ConnectedWhenPopping, WritesCounted,
         StopInv, LateInv, StopIsPrompt
<1>14. CASE PopInvalid \/ PopPacket
  <2>1. Pop
    BY <1>14 DEF PopInvalid, PopPacket
  <2>2. /\ late' \in LateRecords
        /\ late'.timeouts = late.timeouts /\ late'.connects = late.connects
        /\ late'.pops = late.pops + (IF keepRunning THEN 0 ELSE 1)
    <3>1. (IF keepRunning THEN 0 ELSE 1) \in Nat
      OBVIOUS
    <3> QED BY <1>0, <2>1, <3>1, LateFields DEF Pop
  <2>3. /\ queue' \in Seq(1..MaxPackets)
        /\ Len(queue') <= MaxQueue
        /\ Head(queue) \in 1..MaxPackets
    <3>1. queue \in Seq(1..MaxPackets) /\ queue # <<>> /\ queue' = Tail(queue)
      BY <2>1 DEF Pop, DataInv
    <3>2. /\ Tail(queue) \in Seq(1..MaxPackets)
          /\ Head(queue) \in 1..MaxPackets
          /\ Len(queue) \in Nat /\ Len(Tail(queue)) = Len(queue) - 1
      BY <3>1, TailOf
    <3> QED BY <3>1, <3>2 DEF TypeOK
  <2>4. /\ batch' \in Seq(BatchRecords)
        /\ invalid' \in Nat
        /\ pc' \in {"top", "write"}
        /\ pc' = "write" => batch' # <<>>
    <3>1. batch \in Seq(BatchRecords) /\ invalid \in Nat
      BY DEF DataInv, TypeOK
    <3>2. CASE PopInvalid
      BY <3>1, <3>2 DEF PopInvalid
    <3>3. CASE PopPacket
      BY <2>3, <3>1, <3>3, BatchesOf DEF PopPacket
    <3> QED BY <1>14, <3>2, <3>3
  <2>5. \A i \in DOMAIN batch' : batch'[i].id \in Records
    BY <2>4, BatchIds
  <2>6. /\ pc = "pop"
        /\ UNCHANGED <<link, attempt, failures, keepRunning, terminate,
                       stopper, offered, written, failed, reason, attempted, sent>>
    BY <2>1 DEF Pop
  <2>7. TypeOK'
    BY <2>3, <2>4, <2>5, <2>6 DEF TypeOK
  <2>8. DataInv'
    BY <2>2, <2>3, <2>4, <2>6 DEF DataInv
  <2>9. PlaceInv' /\ ConnectedWhenPopping' /\ WritesCounted'
    BY <2>4, <2>6 DEF PlaceInv, ConnectedWhenPopping, WritesCounted
  <2>10. StopInv' /\ LateInv' /\ StopIsPrompt'
    BY <1>0, <2>2, <2>4, <2>6 DEF StopInv, LateInv, StopIsPrompt
  <2> QED BY <2>7, <2>8, <2>9, <2>10
<1>15. CASE SkipEmpty
  <2>1. /\ pc = "write" /\ NextRecord
        /\ UNCHANGED <<attempt, invalid, late, keepRunning, terminate, stopper,
                       offered, queue, link, failures, written, failed, reason,
                       attempted, sent>>
    BY <1>15 DEF SkipEmpty
  <2>2. /\ batch' \in Seq(BatchRecords)
        /\ \A i \in DOMAIN batch' : batch'[i].id \in Records
        /\ pc' \in {"top", "write"}
        /\ pc' = "write" => batch' # <<>>
    BY <2>1, RestOfBatch DEF NextRecord, PlaceInv
  <2>3. TypeOK'
    BY <1>0, <2>1, <2>2 DEF TypeOK, PlaceInv
  <2>4. DataInv'
    BY <1>0, <2>1, <2>2 DEF DataInv
  <2>5. PlaceInv' /\ ConnectedWhenPopping' /\ WritesCounted'
    BY <1>0, <2>1, <2>2
       DEF TypeOK, DataInv, PlaceInv, ConnectedWhenPopping, WritesCounted
  <2>6. StopInv' /\ LateInv' /\ StopIsPrompt'
    BY <1>0, <2>1, <2>2 DEF StopInv, LateInv, StopIsPrompt
  <2> QED BY <2>3, <2>4, <2>5, <2>6
<1>16. CASE WriteSucceeds
  <2>1. /\ pc = "write" /\ NextRecord
        /\ attempted' = Append(attempted, Head(batch).id)
        /\ sent' = Append(sent, Head(batch).id)
        /\ failures' = 0 /\ written' = written + 1
        /\ UNCHANGED <<attempt, invalid, late, keepRunning, terminate, stopper,
                       offered, queue, link, failed, reason>>
    BY <1>16 DEF WriteSucceeds, Accepted, WriteRecord
  <2>2. /\ batch' \in Seq(BatchRecords)
        /\ \A i \in DOMAIN batch' : batch'[i].id \in Records
        /\ pc' \in {"top", "write"}
        /\ pc' = "write" => batch' # <<>>
    BY <2>1, RestOfBatch DEF NextRecord, PlaceInv
  <2>3. Head(batch).id \in Records
    BY <2>1, RestOfBatch DEF PlaceInv
  <2>4. /\ attempted' \in Seq(Records) /\ sent' \in Seq(Records)
        /\ Len(attempted') = Len(attempted) + 1 /\ Len(sent') = Len(sent) + 1
        /\ Len(attempted) \in Nat /\ Len(sent) \in Nat
    BY <2>1, <2>3, AppendOf DEF DataInv
  <2>5. TypeOK'
    BY <1>0, <2>1, <2>2, <2>4 DEF TypeOK, PlaceInv
  <2>6. DataInv'
    BY <1>0, <2>1, <2>2, <2>4 DEF DataInv
  <2>7. PlaceInv' /\ ConnectedWhenPopping' /\ WritesCounted'
    BY <1>0, <2>1, <2>2, <2>4
       DEF TypeOK, DataInv, PlaceInv, ConnectedWhenPopping, WritesCounted
  <2>8. StopInv' /\ LateInv' /\ StopIsPrompt'
    BY <1>0, <2>1, <2>2, <2>4 DEF StopInv, LateInv, StopIsPrompt
  <2> QED BY <2>5, <2>6, <2>7, <2>8
<1>17. CASE WriteFails
  <2>1. /\ pc = "write" /\ batch' = Tail(batch)
        /\ attempted' = Append(attempted, Head(batch).id)
        /\ failures' = failures + 1 /\ failed' = failed + 1
        /\ UNCHANGED <<attempt, invalid, late, keepRunning, terminate, stopper,
                       offered, queue, written, sent>>
    BY <1>17 DEF WriteFails, CountFailure, WriteRecord, NextRecord
  <2>2. /\ batch' \in Seq(BatchRecords)
        /\ \A i \in DOMAIN batch' : batch'[i].id \in Records
        /\ Head(batch).id \in Records
    BY <2>1, RestOfBatch DEF PlaceInv
  <2>3. /\ attempted' \in Seq(Records)
        /\ Len(attempted') = Len(attempted) + 1
        /\ Len(attempted) \in Nat /\ Len(sent) \in Nat
    BY <2>1, <2>2, AppendOf DEF DataInv
  <2>4. \/ /\ failures + 1 >= MaxWriteFailures
           /\ pc' = "threw" /\ reason' = "writes" /\ link' = "closed"
        \/ /\ failures + 1 < MaxWriteFailures
           /\ pc' = "top" \/ (pc' = "write" /\ batch' # <<>>)
           /\ link' \in {link, "closed"} /\ reason' = reason
    <3>1. failures \in Nat
      BY DEF TypeOK
    <3>2. CASE failures + 1 >= MaxWriteFailures
      BY <1>17, <2>1, <3>2 DEF WriteFails, CountFailure
    <3>3. CASE ~(failures + 1 >= MaxWriteFailures)
      <4>1. NextRecord /\ link' \in {link, "closed"} /\ reason' = reason
        BY <1>17, <2>1, <3>3 DEF WriteFails, CountFailure
      <4> QED BY <2>1, <3>1, <3>3, <4>1 DEF NextRecord
    <3> QED BY <3>2, <3>3
  <2>5. TypeOK'
    BY <1>0, <2>1, <2>2, <2>3, <2>4 DEF TypeOK, PlaceInv
  <2>6. DataInv'
    BY <1>0, <2>1, <2>2, <2>3, <2>4 DEF DataInv
  <2>7. PlaceInv' /\ ConnectedWhenPopping'
    BY <1>0, <2>1, <2>2, <2>4 DEF PlaceInv, ConnectedWhenPopping
  <2>8. WritesCounted'
    BY <1>0, <2>1, <2>3 DEF WritesCounted
  <2>9. StopInv' /\ LateInv' /\ StopIsPrompt'
    BY <1>0, <2>1, <2>4 DEF StopInv, LateInv, StopIsPrompt
  <2> QED BY <2>5, <2>6, <2>7, <2>8, <2>9
<1> QED BY <1>1, <1>2, <1>3, <1>4, <1>5, <1>6, <1>7, <1>8, <1>9, <1>10,
           <1>11, <1>12, <1>13, <1>14, <1>15, <1>16, <1>17
     DEF Next, Writer, Stop

-----------------------------------------------------------------------------
(* The order of the records. *)

(* The elements of the sequences are numbers and records.                  *)
LEMMA ElementTypes ==
    ASSUME DataInv
    PROVE  /\ Len(queue) \in Nat /\ Len(batch) \in Nat /\ Len(sent) \in Nat
           /\ \A j \in 1..Len(queue) : queue[j] \in Nat
           /\ \A i \in 1..Len(batch) :
                  /\ batch[i].id \in Records
                  /\ batch[i].id[1] \in Nat /\ batch[i].id[2] \in Nat
           /\ \A i \in 1..Len(sent) :
                  /\ sent[i] \in Records
                  /\ sent[i][1] \in Nat /\ sent[i][2] \in Nat
<1> USE WriterAssumption
<1>1. \A r \in Records : r[1] \in Nat /\ r[2] \in Nat
  BY DEF Records
<1>2. \A i \in 1..Len(batch) : batch[i].id \in Records
  BY BatchIds DEF DataInv
<1>3. \A i \in 1..Len(sent) : sent[i] \in Records
  BY DEF DataInv
<1>4. /\ Len(queue) \in Nat /\ Len(batch) \in Nat /\ Len(sent) \in Nat
      /\ \A j \in 1..Len(queue) : queue[j] \in Nat
  BY DEF DataInv
<1> QED BY <1>1, <1>2, <1>3, <1>4

(* A newer packet enters behind every record, and the oldest may go.       *)
LEMMA EnqueueKeepsOrder ==
    ASSUME IInv, OrderInv, Enqueue
    PROVE  OrderInv'
<1> USE WriterAssumption
<1>1. DataInv /\ offered \in Nat /\ offered' = offered + 1
  BY DEF IInv, TypeOK, Enqueue
<1>2. UNCHANGED <<batch, sent>>
  BY DEF Enqueue, writerVars, historyVars
<1>3. PICK d \in {0, 1}, e \in {0, 1} :
        /\ Len(queue') = Len(queue) - d + e
        /\ \A j \in 1..(Len(queue) - d) : queue'[j] = queue[j + d]
        /\ e = 1 => queue'[Len(queue) - d + 1] = offered + 1
  <2>1. CASE queue' = Append(queue, offered + 1)
    <3>1. offered + 1 \in 1..MaxPackets
      BY DEF Enqueue, IInv, TypeOK
    <3>2. /\ Len(queue') = Len(queue) - 0 + 1
          /\ \A j \in 1..(Len(queue) - 0) : queue'[j] = queue[j + 0]
          /\ queue'[Len(queue) - 0 + 1] = offered + 1
      BY <1>1, <2>1, <3>1, ElementTypes, AppendOf DEF DataInv
    <3> QED BY <3>2
  <2>2. CASE queue # <<>> /\ queue' = Append(Tail(queue), offered + 1)
    <3>1. offered + 1 \in 1..MaxPackets
      BY DEF Enqueue, IInv, TypeOK
    <3>2. /\ Tail(queue) \in Seq(1..MaxPackets)
          /\ Len(Tail(queue)) = Len(queue) - 1
          /\ \A j \in 1..Len(Tail(queue)) : Tail(queue)[j] = queue[j + 1]
      BY <1>1, <2>2, TailOf DEF DataInv
    <3>3. /\ Len(queue') = Len(Tail(queue)) + 1
          /\ \A j \in 1..Len(Tail(queue)) : queue'[j] = Tail(queue)[j]
          /\ queue'[Len(Tail(queue)) + 1] = offered + 1
      BY <2>2, <3>1, <3>2, AppendOf
    <3>4. /\ Len(queue') = Len(queue) - 1 + 1
          /\ \A j \in 1..(Len(queue) - 1) : queue'[j] = queue[j + 1]
          /\ queue'[Len(queue) - 1 + 1] = offered + 1
      BY <3>2, <3>3
    <3> QED BY <3>4
  <2>3. CASE queue # <<>> /\ queue' = Tail(queue)
    <3>1. /\ Len(queue') = Len(queue) - 1 + 0
          /\ \A j \in 1..(Len(queue) - 1) : queue'[j] = queue[j + 1]
      BY <1>1, <2>3, ElementTypes, TailOf DEF DataInv
    <3> QED BY <3>1
  <2>4. CASE UNCHANGED queue
    <3>1. /\ Len(queue') = Len(queue) - 0 + 0
          /\ \A j \in 1..(Len(queue) - 0) : queue'[j] = queue[j + 0]
      BY <1>1, <2>4, ElementTypes
    <3> QED BY <3>1
  <2> QED BY <2>1, <2>2, <2>3, <2>4 DEF Enqueue
<1>4. \A j \in 1..Len(queue') :
        \/ j + d \in 1..Len(queue) /\ queue'[j] = queue[j + d]
        \/ j = Len(queue) - d + 1 /\ queue'[j] = offered + 1
  BY <1>1, <1>3, ElementTypes
<1>5. \A j \in 1..Len(queue') : queue'[j] <= offered'
  BY <1>1, <1>4, ElementTypes DEF OrderInv
<1>6. \A i, j \in 1..Len(queue') : i < j => queue'[i] < queue'[j]
  <2> SUFFICES ASSUME NEW i \in 1..Len(queue'), NEW j \in 1..Len(queue'), i < j
               PROVE  queue'[i] < queue'[j]
    OBVIOUS
  <2>1. i + d \in 1..Len(queue) /\ queue'[i] = queue[i + d]
    BY <1>1, <1>3, <1>4, ElementTypes
  <2>2. CASE j + d \in 1..Len(queue) /\ queue'[j] = queue[j + d]
    BY <1>1, <1>3, <2>1, <2>2, ElementTypes DEF OrderInv
  <2>3. CASE queue'[j] = offered + 1
    BY <1>1, <2>1, <2>3, ElementTypes DEF OrderInv
  <2> QED BY <1>4, <2>2, <2>3
<1>7. \A n \in Nat :
        n <= offered /\ (\A j \in 1..Len(queue) : n < queue[j])
          => n <= offered' /\ (\A j \in 1..Len(queue') : n < queue'[j])
  BY <1>1, <1>4, ElementTypes
<1>8. /\ \A i \in 1..Len(batch') :
             /\ batch'[i].id[1] <= offered'
             /\ \A j \in 1..Len(queue') : batch'[i].id[1] < queue'[j]
      /\ \A i \in 1..Len(sent') :
             /\ sent'[i][1] <= offered'
             /\ \A j \in 1..Len(queue') : sent'[i][1] < queue'[j]
  BY <1>1, <1>2, <1>7, ElementTypes DEF OrderInv
<1> QED BY <1>2, <1>5, <1>6, <1>8 DEF OrderInv, SentInOrder, Before

(* A popped packet comes after every record sent, and before the rest.     *)
LEMMA PopKeepsOrder ==
    ASSUME IInv, OrderInv, PopInvalid \/ PopPacket
    PROVE  OrderInv'
<1> USE WriterAssumption
<1>1. /\ DataInv /\ offered \in Nat /\ queue # <<>>
      /\ queue' = Tail(queue) /\ UNCHANGED <<sent, offered>>
  BY DEF PopInvalid, PopPacket, Pop, IInv, TypeOK
<1>2. /\ Head(queue) = queue[1] /\ Head(queue) \in 1..MaxPackets
      /\ Len(queue') = Len(queue) - 1
      /\ \A j \in 1..Len(queue') : queue'[j] = queue[j + 1]
  BY <1>1, TailOf DEF DataInv
<1>3. \A j \in 1..Len(queue') : j + 1 \in 1..Len(queue) /\ 1 < j + 1
  BY <1>1, <1>2, ElementTypes
<1>4. 1 \in 1..Len(queue)
  BY <1>1, <1>2, TailOf DEF DataInv
<1>5. /\ \A j \in 1..Len(queue') : queue'[j] <= offered' /\ queue[1] < queue'[j]
      /\ \A i, j \in 1..Len(queue') : i < j => queue'[i] < queue'[j]
  BY <1>1, <1>2, <1>3, <1>4, ElementTypes DEF OrderInv
<1>6. \A i \in 1..Len(sent') :
        /\ sent'[i][1] <= offered'
        /\ \A j \in 1..Len(queue') : sent'[i][1] < queue'[j]
  BY <1>1, <1>2, <1>3 DEF OrderInv
<1>7. CASE PopInvalid
  <2>1. batch' = batch
    BY <1>7 DEF PopInvalid
  <2>2. \A i \in 1..Len(batch') :
          /\ batch'[i].id[1] <= offered'
          /\ \A j \in 1..Len(queue') : batch'[i].id[1] < queue'[j]
    BY <1>1, <1>2, <1>3, <2>1 DEF OrderInv
  <2> QED BY <1>1, <1>5, <1>6, <2>1, <2>2 DEF OrderInv, SentInOrder, Before
<1>8. CASE PopPacket
  <2>1. /\ batch' \in Seq(BatchRecords)
        /\ \A k \in 1..Len(batch') : batch'[k].id = <<queue[1], k>>
    BY <1>2, <1>8, BatchesOf DEF PopPacket
  <2>2. \A i \in 1..Len(batch') :
          /\ batch'[i].id[1] <= offered'
          /\ \A j \in 1..Len(queue') : batch'[i].id[1] < queue'[j]
    BY <1>1, <1>4, <1>5, <2>1 DEF OrderInv
  <2>3. \A i, j \in 1..Len(batch') : i < j => Before(batch'[i].id, batch'[j].id)
    BY <2>1 DEF Before
  <2>4. \A i \in 1..Len(sent'), j \in 1..Len(batch') : Before(sent'[i], batch'[j].id)
    BY <1>1, <1>4, <2>1 DEF OrderInv, Before
  <2> QED BY <1>1, <1>5, <1>6, <2>2, <2>3, <2>4
       DEF OrderInv, SentInOrder, Before
<1> QED BY <1>7, <1>8

(* The next record leaves the batch, and is sent after all others or not.  *)
LEMMA NextRecordKeepsOrder ==
    ASSUME IInv, OrderInv, batch # <<>>, batch' = Tail(batch),
           sent' = sent \/ sent' = Append(sent, Head(batch).id),
           UNCHANGED <<queue, offered>>
    PROVE  OrderInv'
<1>1. DataInv
  BY DEF IInv
<1>2. /\ Head(batch) = batch[1] /\ 1 \in 1..Len(batch)
      /\ Len(batch') = Len(batch) - 1
      /\ \A j \in 1..Len(batch') : batch'[j] = batch[j + 1]
  BY <1>1, TailOf DEF DataInv
<1>3. \A j \in 1..Len(batch') : j + 1 \in 1..Len(batch) /\ 1 < j + 1
  BY <1>1, <1>2, ElementTypes
<1>4. /\ \A i, j \in 1..Len(batch') : i < j => Before(batch'[i].id, batch'[j].id)
      /\ \A j \in 1..Len(batch') : Before(batch[1].id, batch'[j].id)
      /\ \A i \in 1..Len(batch') :
             /\ batch'[i].id[1] <= offered'
             /\ \A j \in 1..Len(queue') : batch'[i].id[1] < queue'[j]
      /\ \A i \in 1..Len(sent), j \in 1..Len(batch') : Before(sent[i], batch'[j].id)
  BY <1>2, <1>3 DEF OrderInv
<1>5. CASE sent' = sent
  BY <1>4, <1>5 DEF OrderInv, SentInOrder, Before
<1>6. CASE sent' = Append(sent, Head(batch).id)
  <2>1. /\ Len(sent') = Len(sent) + 1 /\ Len(sent) \in Nat
        /\ sent'[Len(sent) + 1] = batch[1].id
        /\ \A i \in 1..Len(sent) : sent'[i] = sent[i]
    BY <1>1, <1>2, <1>6, ElementTypes, AppendOf DEF DataInv
  <2>2. \A i \in 1..Len(sent') : i \in 1..Len(sent) \/ i = Len(sent) + 1
    BY <2>1
  <2>3. \A i \in 1..Len(sent') :
          /\ sent'[i][1] <= offered'
          /\ \A j \in 1..Len(queue') : sent'[i][1] < queue'[j]
    BY <1>2, <2>1, <2>2 DEF OrderInv
  <2>4. \A i \in 1..Len(sent'), j \in 1..Len(batch') : Before(sent'[i], batch'[j].id)
    BY <1>4, <2>1, <2>2
  <2>5. \A i, j \in 1..Len(sent') : i < j => Before(sent'[i], sent'[j])
    <3> SUFFICES ASSUME NEW i \in 1..Len(sent'), NEW j \in 1..Len(sent'), i < j
                 PROVE  Before(sent'[i], sent'[j])
      OBVIOUS
    <3>1. i \in 1..Len(sent) /\ sent'[i] = sent[i]
      BY <2>1, <2>2
    <3>2. CASE j \in 1..Len(sent)
      BY <2>1, <3>1, <3>2 DEF OrderInv, SentInOrder
    <3>3. CASE j = Len(sent) + 1
      BY <1>2, <2>1, <3>1, <3>3 DEF OrderInv
    <3> QED BY <2>2, <3>2, <3>3
  <2> QED BY <1>4, <2>3, <2>4, <2>5 DEF OrderInv, SentInOrder, Before
<1> QED BY <1>5, <1>6

(* No other step touches the sequences.                                    *)
LEMMA StepOrder == IInv /\ OrderInv /\ [Next]_vars => OrderInv'
<1> SUFFICES ASSUME IInv, OrderInv, [Next]_vars PROVE OrderInv'
  OBVIOUS
<1>1. CASE Enqueue
  BY <1>1, EnqueueKeepsOrder
<1>2. CASE PopInvalid \/ PopPacket
  BY <1>2, PopKeepsOrder
<1>3. CASE SkipEmpty \/ WriteSucceeds \/ WriteFails
  <2>1. batch # <<>>
    BY <1>3 DEF SkipEmpty, WriteSucceeds, Accepted, WriteFails, CountFailure,
                WriteRecord, IInv, PlaceInv
  <2>2. /\ batch' = Tail(batch)
        /\ sent' = sent \/ sent' = Append(sent, Head(batch).id)
        /\ UNCHANGED <<queue, offered>>
    BY <1>3 DEF SkipEmpty, WriteSucceeds, Accepted, WriteFails, CountFailure,
                WriteRecord, NextRecord, historyVars, queueVars
  <2> QED BY <2>1, <2>2, NextRecordKeepsOrder
<1>4. CASE \/ Return \/ TestConnection \/ EvaluatePredicate \/ FallAsleep
           \/ Timeout \/ ConnectSucceeds \/ ConnectFails \/ PopNothing
           \/ StopStores \/ Stop \/ UNCHANGED vars
  <2>1. UNCHANGED <<queue, offered, batch, sent>>
    BY <1>4
       DEF Return, TestConnection, EvaluatePredicate, FallAsleep, Timeout,
           ConnectSucceeds, ConnectFails, Connect, PopNothing, Goto,
           StopStores, Stop, StopFlags, StopNotifies, vars, writerVars,
           historyVars, queueVars
  <2> QED BY <2>1 DEF OrderInv, SentInOrder, Before
<1> QED BY <1>1, <1>2, <1>3, <1>4 DEF Next, Writer

-----------------------------------------------------------------------------
(* The run of failures. *)

(* A record that fails, or succeeds, is none of those sent before it.      *)
LEMMA HeadIsNew ==
    ASSUME IInv, OrderInv, pc = "write"
    PROVE  /\ Head(batch).id \in Records
           /\ Head(batch).id \notin ToSet(sent)
<1>1. DataInv /\ batch # <<>>
  BY DEF IInv, PlaceInv
<1>2. Head(batch) = batch[1] /\ 1 \in 1..Len(batch)
  BY <1>1, TailOf DEF DataInv
<1>3. \A i \in 1..Len(sent) : sent[i] # Head(batch).id
  <2>1. \A i \in 1..Len(sent) : Before(sent[i], batch[1].id)
    BY <1>2 DEF OrderInv
  <2>2. \A i \in 1..Len(sent) : sent[i][1] \in Nat /\ sent[i][2] \in Nat
    BY <1>1, ElementTypes
  <2> QED BY <1>2, <2>1, <2>2 DEF Before
<1>4. ToSet(sent) = {sent[i] : i \in 1..Len(sent)}
  BY <1>1 DEF ToSet, DataInv
<1> QED BY <1>1, <1>2, <1>3, <1>4, ElementTypes

(* consecutiveWriteFailures is the length of the last run of failures.     *)
LEMMA StepRun == IInv /\ OrderInv /\ RunInv /\ [Next]_vars => RunInv'
<1> SUFFICES ASSUME IInv, OrderInv, RunInv, [Next]_vars PROVE RunInv'
  OBVIOUS
<1> USE WriterAssumption
<1>0. /\ DataInv /\ failures \in Nat /\ Len(attempted) \in Nat
      /\ pc # "threw" => failures < MaxWriteFailures
  BY DEF IInv, TypeOK, DataInv, PlaceInv
<1>1. CASE WriteSucceeds
  <2>1. /\ pc = "write" /\ failures' = 0 /\ reason' = reason
        /\ attempted' = Append(attempted, Head(batch).id)
        /\ sent' = Append(sent, Head(batch).id)
    BY <1>1 DEF WriteSucceeds, Accepted, WriteRecord
  <2>2. /\ Len(attempted') = Len(attempted) + 1
        /\ attempted'[Len(attempted) + 1] = Head(batch).id
    BY <1>0, <2>1, HeadIsNew, AppendOf DEF DataInv
  <2>3. Head(batch).id \in ToSet(sent')
    <3>1. /\ sent' \in Seq(Records) /\ Len(sent') = Len(sent) + 1
          /\ Len(sent) \in Nat /\ sent'[Len(sent) + 1] = Head(batch).id
      BY <1>0, <2>1, HeadIsNew, AppendOf DEF DataInv
    <3>2. Len(sent) + 1 \in DOMAIN sent'
      BY <3>1
    <3> QED BY <3>1, <3>2 DEF ToSet
  <2>4. reason # "writes"
    BY <1>0, <2>1 DEF RunInv
  <2> QED BY <1>0, <2>1, <2>2, <2>3, <2>4 DEF RunInv
<1>2. CASE WriteFails
  <2>1. /\ pc = "write" /\ failures' = failures + 1 /\ sent' = sent
        /\ attempted' = Append(attempted, Head(batch).id)
        /\ reason' = IF failures + 1 >= MaxWriteFailures
                     THEN "writes" ELSE reason
    BY <1>2 DEF WriteFails, CountFailure, WriteRecord
  <2>2. /\ Len(attempted') = Len(attempted) + 1
        /\ attempted'[Len(attempted) + 1] = Head(batch).id
        /\ \A i \in 1..Len(attempted) : attempted'[i] = attempted[i]
    BY <1>0, <2>1, HeadIsNew, AppendOf DEF DataInv
  <2>3. failures' <= Len(attempted')
    BY <1>0, <2>1, <2>2 DEF RunInv
  <2>4. \A i \in (Len(attempted') - failures' + 1)..Len(attempted') :
          attempted'[i] \notin ToSet(sent')
    <3> TAKE i \in (Len(attempted') - failures' + 1)..Len(attempted')
    <3>1. CASE i = Len(attempted) + 1
      BY <2>1, <2>2, <3>1, HeadIsNew
    <3>2. CASE i # Len(attempted) + 1
      <4>1. /\ i \in (Len(attempted) - failures + 1)..Len(attempted)
            /\ i \in 1..Len(attempted)
        BY <1>0, <2>1, <2>2, <3>2 DEF RunInv
      <4> QED BY <2>1, <2>2, <4>1 DEF RunInv
    <3> QED BY <3>1, <3>2
  <2>5. failures' < Len(attempted') =>
          attempted'[Len(attempted') - failures'] \in ToSet(sent')
    <3> HAVE failures' < Len(attempted')
    <3>1. /\ failures < Len(attempted)
          /\ Len(attempted') - failures' = Len(attempted) - failures
          /\ Len(attempted) - failures \in 1..Len(attempted)
      BY <1>0, <2>1, <2>2 DEF RunInv
    <3> QED BY <2>1, <2>2, <3>1 DEF RunInv
  <2>6. reason' = "writes" <=> failures' = MaxWriteFailures
    BY <1>0, <2>1 DEF RunInv
  <2> QED BY <2>3, <2>4, <2>5, <2>6 DEF RunInv
<1>3. CASE ConnectFails
  <2>1. /\ UNCHANGED <<failures, attempted, sent>>
        /\ pc = "connect" /\ reason' \in {reason, "connection"}
    BY <1>3 DEF ConnectFails, Connect, ConnectAgain, GiveUpConnecting
  <2>2. failures # MaxWriteFailures
    BY <1>0, <2>1
  <2> QED BY <2>1, <2>2 DEF RunInv
<1>4. CASE \/ Enqueue \/ Return \/ TestConnection \/ EvaluatePredicate
           \/ FallAsleep \/ Timeout \/ ConnectSucceeds \/ PopNothing
           \/ PopInvalid \/ PopPacket \/ SkipEmpty
           \/ StopStores \/ Stop \/ UNCHANGED vars
  <2>1. UNCHANGED <<failures, attempted, sent, reason>>
    BY <1>4
       DEF Enqueue, Return, TestConnection, EvaluatePredicate, FallAsleep,
           Timeout, ConnectSucceeds, Connect, PopNothing, PopInvalid,
           PopPacket, Pop, SkipEmpty, Goto, StopStores, Stop, StopFlags,
           StopNotifies, vars, writerVars, linkVars, historyVars
  <2> QED BY <2>1 DEF RunInv
<1> QED BY <1>1, <1>2, <1>3, <1>4 DEF Next, Writer

(* The thread gives up on writing exactly when the run is long enough.     *)
LEMMA RunExplains ==
    ASSUME IInv, RunInv
    PROVE  GivesUpExactly
<1> USE WriterAssumption
<1>1. /\ failures \in 0..MaxWriteFailures /\ Len(attempted) \in Nat
  BY DEF IInv, TypeOK, DataInv
<1>2. failures = MaxWriteFailures => LastWritesFailed
  BY <1>1 DEF RunInv, LastWritesFailed
<1>3. LastWritesFailed => failures = MaxWriteFailures
  <2> SUFFICES ASSUME LastWritesFailed, failures < MaxWriteFailures PROVE FALSE
    BY <1>1
  <2>1. /\ Len(attempted) - failures
              \in (Len(attempted) - MaxWriteFailures + 1)..Len(attempted)
        /\ failures < Len(attempted)
    BY <1>1 DEF LastWritesFailed
  <2> QED BY <2>1 DEF RunInv, LastWritesFailed
<1> QED BY <1>2, <1>3 DEF RunInv, GivesUpExactly

-----------------------------------------------------------------------------
(* The theorems. *)

Inv == IInv /\ OrderInv /\ RunInv

(* The three together are inductive.                                       *)
THEOREM Invariance == Spec => []Inv
<1>1. Init => Inv
  <2> SUFFICES ASSUME Init PROVE OrderInv /\ RunInv
    BY InitInv DEF Inv
  <2>1. /\ Len(queue) = 0 /\ Len(batch) = 0 /\ Len(sent) = 0
        /\ Len(attempted) = 0 /\ failures = 0 /\ reason = "none"
    BY DEF Init
  <2>2. OrderInv
    BY <2>1 DEF OrderInv, SentInOrder
  <2>3. RunInv
    BY <2>1, WriterAssumption DEF RunInv
  <2> QED BY <2>2, <2>3
<1>2. Inv /\ [Next]_vars => Inv'
  BY StepInv, StepOrder, StepRun DEF Inv
<1> QED BY <1>1, <1>2, PTL DEF Spec

(* The variables keep their types: the indices of mReconnectInterval stay  *)
(* within it, and the queue within its maximum.                            *)
THEOREM TypeCorrect == Spec => []TypeOK
<1>1. Inv => TypeOK
  BY DEF Inv, IInv
<1> QED BY Invariance, <1>1, PTL

(* Records go out in order and at most once, for every queue size, every   *)
(* eviction and every pattern of failures and reconnections.               *)
THEOREM WritesInOrder == Spec => []SentInOrder
<1>1. Inv => SentInOrder
  BY DEF Inv, OrderInv
<1> QED BY Invariance, <1>1, PTL

(* No packet is popped without a connection, and no client is used freed.  *)
THEOREM PopsConnected == Spec => []ConnectedWhenPopping
<1>1. Inv => ConnectedWhenPopping
  BY DEF Inv, IInv
<1> QED BY Invariance, <1>1, PTL

(* The thread gives up after MaxWriteFailures failures in a row, and only  *)
(* then, for every limit.                                                  *)
THEOREM GivesUpOnTime == Spec => []GivesUpExactly
<1>1. Inv => GivesUpExactly
  BY RunExplains DEF Inv
<1> QED BY Invariance, <1>1, PTL

(* The exported counters agree with what was given to dl_write.            *)
THEOREM CountersAgree == Spec => []WritesCounted
<1>1. Inv => WritesCounted
  BY DEF Inv, IInv
<1> QED BY Invariance, <1>1, PTL

(* The writer heeds stop() after one packet, one wait and what remains of  *)
(* one reconnection, for every list of waits.                              *)
THEOREM HeedsStop == Spec => []StopIsPrompt
<1>1. Inv => StopIsPrompt
  BY DEF Inv, IInv
<1> QED BY Invariance, <1>1, PTL

=============================================================================
