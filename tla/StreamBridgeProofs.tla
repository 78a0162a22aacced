------------------------- MODULE StreamBridgeProofs -------------------------
(***************************************************************************)
(* Proofs about StreamBridge for every set of clients, every capacity and  *)
(* every number of events: the types and the absence of lost wakeups, and  *)
(* that the bridge implements the contract EventLog.  Both follow from     *)
(* BridgeInv, which every action preserves.                                *)
(***************************************************************************)
EXTENDS StreamBridge, SequenceTheorems, TLAPS

USE CapacityAssumption, EventsAssumption DEF Stream, End

(* The initial state satisfies the invariant. *)
LEMMA InitEstablishes == Init => BridgeInv
  BY DEF Init, BridgeInv, TypeOK, StreamsInv, RetainedInv, ReaderInv,
         NothingSkipped, LastEventId, NoLostWakeup

(* Appending n + 1 to the events b + 1 .. n and dropping the d oldest       *)
(* leaves b + d + 1 .. n + 1.                                              *)
LEMMA TrimmedAppend ==
  ASSUME NEW old \in Seq(Nat), NEW n \in Nat, NEW b \in Nat, NEW d \in {0, 1},
         b + Len(old) = n, \A i \in 1 .. Len(old) : old[i] = b + i
  PROVE  LET log == Append(old, n + 1)
             new == SubSeq(log, d + 1, Len(log))
         IN  /\ new \in Seq(Nat)
             /\ Len(new) = Len(old) + 1 - d
             /\ \A i \in 1 .. Len(new) : new[i] = b + d + i
<1>. DEFINE log == Append(old, n + 1)
            new == SubSeq(log, d + 1, Len(log))
<1>1. Len(old) \in Nat
  OBVIOUS
<1>2. /\ Len(log) = Len(old) + 1
      /\ \A i \in 1 .. Len(old) : log[i] = old[i]
      /\ log[Len(old) + 1] = n + 1
  BY AppendProperties
<1>. HIDE DEF log
<1>3. \A i \in 1 .. Len(log) : log[i] = b + i
  BY <1>1, <1>2
<1>4. d + 1 \in Int /\ Len(log) \in Int /\ \A i \in d + 1 .. Len(log) : log[i] \in Nat
  BY <1>1, <1>2, <1>3
<1>5. /\ new \in Seq(Nat)
      /\ Len(new) = IF d + 1 <= Len(log) THEN Len(log) - (d + 1) + 1 ELSE 0
      /\ \A i \in 1 .. Len(log) - (d + 1) + 1 : new[i] = log[d + 1 + i - 1]
  BY <1>4, SubSeqProperties
<1>. HIDE DEF new
<1>6. Len(new) = Len(old) + 1 - d
  BY <1>1, <1>2, <1>5
<1>7. \A i \in 1 .. Len(new) : new[i] = b + d + i
  BY <1>1, <1>2, <1>3, <1>5, <1>6
<1>8. QED
  BY <1>5, <1>6, <1>7 DEF log, new

(* publish appends one event to stream 1, and drops the oldest when the    *)
(* log was full.                                                           *)
LEMMA PublishedLog ==
  ASSUME BridgeInv, Publish
  PROVE  /\ Opened = 1 /\ made' = 1 /\ current' = 1
         /\ published' = published + 1
         /\ \/ /\ start'[1] = start[1]
               /\ Len(events'[1]) = Len(events[1]) + 1
               /\ Len(events[1]) < Capacity
            \/ /\ start'[1] = start[1] + 1
               /\ Len(events'[1]) = Len(events[1])
               /\ Len(events[1]) = Capacity
         /\ \A i \in 1 .. Len(events'[1]) : events'[1][i] = start'[1] + i
         /\ events' \in [Stream -> Seq(Nat)] /\ start' \in [Stream -> Nat]
         /\ events'[2] = events[2] /\ start'[2] = start[2]
<1>1. Opened = 1 /\ made' = 1 /\ current' = 1
  BY DEF Publish, OpenStream, Opened, BridgeInv, TypeOK, StreamsInv
<1>2. /\ events \in [Stream -> Seq(Nat)] /\ start \in [Stream -> Nat]
      /\ published \in Nat /\ Len(events[1]) <= Capacity
  BY DEF BridgeInv, TypeOK
<1>3. events[1] \in Seq(Nat) /\ Len(events[1]) \in Nat /\ start[1] \in Nat
  BY <1>2
<1>4. start[1] + Len(events[1]) = published
      /\ \A i \in 1 .. Len(events[1]) : events[1][i] = start[1] + i
  BY DEF BridgeInv, RetainedInv
<1>. DEFINE log == Append(events[1], published + 1)
            new == SubSeq(log, Overflow(1) + 1, Len(log))
<1>5. \/ Overflow(1) = 0 /\ Len(events[1]) < Capacity
      \/ Overflow(1) = 1 /\ Len(events[1]) = Capacity
  BY <1>2, <1>3 DEF Overflow
<1>6. /\ new \in Seq(Nat)
      /\ Len(new) = Len(events[1]) + 1 - Overflow(1)
      /\ \A i \in 1 .. Len(new) : new[i] = start[1] + Overflow(1) + i
  <2>1. Overflow(1) \in {0, 1}
    BY <1>5
  <2>2. QED
    BY ONLY <2>1, <1>2, <1>3, <1>4, TrimmedAppend, ZenonT(60)
<1>7. /\ events' = [events EXCEPT ![1] = new]
      /\ start' = [start EXCEPT ![1] = @ + Overflow(1)]
      /\ published' = published + 1
  BY <1>1 DEF Publish
<1>. HIDE DEF new
<1>8. /\ events'[1] = new /\ events'[2] = events[2]
      /\ events' \in [Stream -> Seq(Nat)]
  BY <1>2, <1>6, <1>7
<1>9. /\ start'[1] = start[1] + Overflow(1) /\ start'[2] = start[2]
      /\ start' \in [Stream -> Nat]
  BY <1>2, <1>3, <1>5, <1>7
<1>10. \A i \in 1 .. Len(events'[1]) : events'[1][i] = start'[1] + i
  BY <1>6, <1>8, <1>9
<1>11. Len(events'[1]) = Len(events[1]) + 1 - Overflow(1)
  BY <1>6, <1>8
<1>12. QED
  BY <1>1, <1>3, <1>5, <1>7, <1>8, <1>9, <1>10, <1>11

(* An event is published. *)
LEMMA PublishPreserves ==
  ASSUME BridgeInv, Publish
  PROVE  BridgeInv'
<1>1. TypeOK'
  <2>1. \A s \in Stream : Len(events'[s]) <= Capacity
    BY PublishedLog DEF BridgeInv, TypeOK
  <2>2. UNCHANGED <<ended, worker, stream, next, hand, got, told>>
    BY DEF Publish
  <2>3. reader' \in [Client -> {"off", "reading", "waiting", "holding"}]
    BY DEF BridgeInv, TypeOK, Publish, Notify
  <2>4. published' \in Nat /\ made' \in {0} \cup Stream /\ current' \in {0} \cup Stream
    BY PublishedLog DEF BridgeInv, TypeOK
  <2>5. QED
    BY <2>1, <2>2, <2>3, <2>4, PublishedLog DEF BridgeInv, TypeOK
<1>2. StreamsInv'
  BY PublishedLog DEF BridgeInv, TypeOK, StreamsInv, Publish
<1>3. RetainedInv'
  <2>1. Len(events[1]) \in Nat /\ start[1] \in Nat /\ published \in Nat
    BY DEF BridgeInv, TypeOK
  <2>2. RetainedInv
    BY DEF BridgeInv
  <2>3. Len(events[1]) < Capacity => start[1] = 0
    BY <2>1, <2>2 DEF RetainedInv
  <2>4. start'[1] + Len(events'[1]) = published'
    <3>1. start[1] + Len(events[1]) = published
      BY <2>2 DEF RetainedInv
    <3>2. /\ published' = published + 1
          /\ \/ start'[1] = start[1] /\ Len(events'[1]) = Len(events[1]) + 1
             \/ start'[1] = start[1] + 1 /\ Len(events'[1]) = Len(events[1])
      BY PublishedLog
    <3>3. QED
      BY ONLY <2>1, <3>1, <3>2
  <2>5. start'[1] = 0 \/ Len(events'[1]) = Capacity
    BY <2>1, <2>3, PublishedLog
  <2>6. QED
    BY <2>4, <2>5, PublishedLog DEF RetainedInv
<1>4. ReaderInv'
  <2>1. UNCHANGED <<got, hand, next, stream, told, ended>>
    BY DEF Publish
  <2>2. ASSUME NEW c \in Client
        PROVE  reader'[c] = reader[c] \/ (reader[c] = "waiting" /\ reader'[c] = "reading")
    BY DEF BridgeInv, TypeOK, Publish, Notify
  <2>3. start[1] <= start'[1] /\ published <= published' /\ made \in {0, 1} /\ made' = 1
    BY PublishedLog DEF BridgeInv, TypeOK, StreamsInv, Publish
  <2>4. \A c \in Client : LastEventId(c)' = LastEventId(c) /\ LastEventId(c) \in Nat
    BY <2>1 DEF LastEventId, BridgeInv, TypeOK
  <2>5. ~ended[1]
    BY DEF BridgeInv, StreamsInv, Publish
  <2>6. start[1] \in Nat /\ start'[1] \in Nat /\ published \in Nat /\ published' \in Nat
    BY PublishedLog DEF BridgeInv, TypeOK
  <2>7. ASSUME NEW c \in Client, NEW n \in Nat, NothingSkipped(c, n)
        PROVE  NothingSkipped(c, n)'
    BY <2>3, <2>4, <2>6, <2>7 DEF NothingSkipped
  <2>8. \A c \in Client : next[c] \in Nat /\ hand[c] \in Nat /\ (hand[c] # End => hand[c] - 1 \in Nat)
    BY DEF BridgeInv, TypeOK
  <2>9. ReaderInv
    BY DEF BridgeInv
  <2>10. QED
    BY <2>1, <2>2, <2>3, <2>4, <2>5, <2>6, <2>7, <2>8, <2>9 DEF ReaderInv
<1>5. NoLostWakeup'
  <2>1. ASSUME NEW c \in Client, reader'[c] = "waiting"
        PROVE  FALSE
    <3>1. reader[c] = "waiting" /\ stream[c] # 1
      BY <2>1, PublishedLog DEF BridgeInv, TypeOK, Publish, Notify
    <3>2. stream[c] \in 1 .. made /\ made \in {0, 1}
      BY <3>1 DEF BridgeInv, ReaderInv, StreamsInv, Publish
    <3>3. QED
      BY <3>1, <3>2
  <2>2. QED
    BY <2>1 DEF NoLostWakeup
<1>6. QED
  BY <1>1, <1>2, <1>3, <1>4, <1>5 DEF BridgeInv

(* The worker ends the stream. *)
LEMMA PublishEndPreserves ==
  ASSUME BridgeInv, PublishEnd
  PROVE  BridgeInv'
<1>1. Opened = 1 /\ made' = 1 /\ current' = 1 /\ ended' = [ended EXCEPT ![1] = TRUE]
  <2>1. made \in {0, 1} /\ current = made
    BY DEF BridgeInv, StreamsInv, PublishEnd
  <2>2. Opened = 1
    BY <2>1 DEF Opened
  <2>3. made' = 1 /\ current' = 1
    BY <2>1, <2>2 DEF PublishEnd, OpenStream
  <2>4. QED
    BY <2>2, <2>3 DEF PublishEnd
<1>2. TypeOK'
  BY <1>1 DEF BridgeInv, TypeOK, PublishEnd, Notify
<1>3. StreamsInv' /\ RetainedInv'
  BY <1>1 DEF BridgeInv, TypeOK, StreamsInv, RetainedInv, PublishEnd
<1>4. ReaderInv'
  <2>1. UNCHANGED <<got, hand, next, stream, told, published, start>>
    BY DEF PublishEnd
  <2>2. ASSUME NEW c \in Client
        PROVE  reader'[c] = reader[c] \/ (reader[c] = "waiting" /\ reader'[c] = "reading")
    BY DEF BridgeInv, TypeOK, PublishEnd, Notify
  <2>3. made \in {0, 1} /\ made' = 1 /\ ended'[1]
    BY <1>1 DEF BridgeInv, TypeOK, StreamsInv, PublishEnd
  <2>4. ReaderInv
    BY DEF BridgeInv
  <2>5. QED
    BY <2>1, <2>2, <2>3, <2>4 DEF ReaderInv, NothingSkipped, LastEventId
<1>5. NoLostWakeup'
  BY <1>1 DEF BridgeInv, TypeOK, StreamsInv, ReaderInv, NoLostWakeup, PublishEnd, Notify
<1>6. QED
  BY <1>2, <1>3, <1>4, <1>5 DEF BridgeInv

(* The entry of the run is removed; its stream object is left alone. *)
LEMMA CleanupPreserves ==
  ASSUME BridgeInv, Cleanup
  PROVE  BridgeInv'
  BY DEF BridgeInv, TypeOK, StreamsInv, RetainedInv, ReaderInv, NothingSkipped,
         LastEventId, NoLostWakeup, Cleanup, readerVars

(* Where a connection starts: right behind the last received event, or at  *)
(* the earliest retained event when that one was dropped.                  *)
LEMMA ResolvedOffset ==
  ASSUME BridgeInv, NEW c \in Client
  PROVE  /\ ResolveStartOffset(1, LastEventId(c)) \in Nat
         /\ NothingSkipped(c, ResolveStartOffset(1, LastEventId(c)))
         /\ ResolveStartOffset(2, LastEventId(c)) = 0
<1>. DEFINE e == LastEventId(c)
<1>1. e \in Nat /\ e <= published /\ published \in Nat /\ start[1] \in Nat
      /\ Len(events[1]) \in Nat /\ events[1] \in Seq(Nat)
  BY DEF BridgeInv, TypeOK, ReaderInv, LastEventId
<1>2. \A i \in DOMAIN events[1] : events[1][i] = start[1] + i
  <2>1. \A i \in 1 .. Len(events[1]) : events[1][i] = start[1] + i
    BY DEF BridgeInv, RetainedInv
  <2>2. DOMAIN events[1] = 1 .. Len(events[1])
    BY <1>1
  <2>3. QED
    BY <2>1, <2>2
<1>3. DOMAIN events[1] = 1 .. Len(events[1])
  BY <1>1
<1>4. start[1] + Len(events[1]) = published
  BY DEF BridgeInv, RetainedInv
<1>. HIDE DEF e
<1>5. ResolveStartOffset(2, e) = 0
  BY DEF BridgeInv, StreamsInv, ResolveStartOffset
<1>6. CASE \E i \in DOMAIN events[1] : events[1][i] = e
  <2>1. PICK j \in DOMAIN events[1] : j = CHOOSE i \in DOMAIN events[1] : events[1][i] = e
    BY <1>6
  <2>2. events[1][j] = e
    BY <2>1, <1>6
  <2>3. ResolveStartOffset(1, e) = start[1] + j
    BY <2>1, <1>6 DEF ResolveStartOffset
  <2>4. start[1] + j = e
    BY <2>2, <1>2
  <2>5. QED
    BY <2>3, <2>4, <1>1, <1>5 DEF NothingSkipped, e
<1>7. CASE ~ \E i \in DOMAIN events[1] : events[1][i] = e
  <2>1. ResolveStartOffset(1, e) = start[1]
    BY <1>7 DEF ResolveStartOffset
  <2>2. e <= start[1]
    <3>1. SUFFICES ASSUME e > start[1] PROVE FALSE
      BY <1>1
    <3>2. e - start[1] \in 1 .. Len(events[1])
      BY <3>1, <1>1, <1>4
    <3>3. events[1][e - start[1]] = e
      BY <3>2, <1>2, <1>3, <1>1
    <3>4. QED
      BY <3>2, <3>3, <1>3, <1>7
  <2>3. QED
    BY <2>1, <2>2, <1>1, <1>4, <1>5 DEF NothingSkipped, e
<1>8. QED
  BY <1>6, <1>7

(* A client connects. *)
LEMMA ConnectPreserves ==
  ASSUME BridgeInv, NEW c \in Client, Connect(c)
  PROVE  BridgeInv'
<1>1. /\ Opened = 1 \/ Opened = 2
      /\ made' = Opened /\ current' = Opened
  BY DEF BridgeInv, TypeOK, StreamsInv, Connect, OpenStream, Opened
<1>2. StreamsInv'
  BY <1>1 DEF BridgeInv, TypeOK, StreamsInv, Connect, Opened, OpenStream, workerVars
<1>3. RetainedInv'
  BY DEF BridgeInv, RetainedInv, Connect, workerVars
<1>4. next'[c] \in Nat /\ (Opened = 1 => NothingSkipped(c, next'[c]))
  <2>1. next'[c] = ResolveStartOffset(Opened, LastEventId(c))
    BY DEF Connect, BridgeInv, TypeOK
  <2>2. QED
    BY <1>1, <2>1, ResolvedOffset
<1>5. TypeOK'
  <2>1. next' \in [Client -> Nat]
    BY <1>4 DEF BridgeInv, TypeOK, Connect
  <2>2. QED
    BY <1>1, <2>1 DEF BridgeInv, TypeOK, Connect, workerVars
<1>6. ReaderInv'
  <2>1. UNCHANGED <<events, start, ended, published, worker, hand, got, told>>
    BY DEF Connect, workerVars
  <2>2. reader'[c] = "reading" /\ stream'[c] = Opened /\ ~told[c]
    BY DEF Connect, BridgeInv, TypeOK
  <2>3. \A x \in Client : x # c => UNCHANGED <<reader[x], stream[x], next[x]>>
    BY DEF Connect, BridgeInv, TypeOK
  <2>4. made <= made' /\ made \in Nat /\ made' \in Nat
    BY DEF BridgeInv, TypeOK, StreamsInv, Connect, OpenStream
  <2>5. ReaderInv
    BY DEF BridgeInv
  <2>6. QED
    BY <1>1, <1>4, <2>1, <2>2, <2>3, <2>4, <2>5 DEF ReaderInv, NothingSkipped, LastEventId
<1>7. NoLostWakeup'
  BY DEF BridgeInv, TypeOK, NoLostWakeup, Connect
<1>8. QED
  BY <1>2, <1>3, <1>5, <1>6, <1>7 DEF BridgeInv

(* A subscriber takes the lock: on stream 1 it takes the first retained    *)
(* event after its offset, the end, or waits; on stream 2 it waits.        *)
LEMMA ReaderTurnPreserves ==
  ASSUME BridgeInv, NEW c \in Client, ReaderTurn(c)
  PROVE  BridgeInv'
<1>. DEFINE s == stream[c]
            offset == IF next[c] < start[s] THEN start[s] ELSE next[c]
            index == offset - start[s] + 1
<1>1. /\ UNCHANGED <<current, made, events, start, ended, published, worker, stream, got, told>>
      /\ reader[c] = "reading"
  BY DEF ReaderTurn, streamVars, workerVars
<1>2. s \in {1, 2} /\ ~told[c] /\ s \in 1 .. made /\ (s = 1 => NothingSkipped(c, next[c]))
  BY <1>1 DEF BridgeInv, TypeOK, ReaderInv
<1>3. /\ start[s] \in Nat /\ next[c] \in Nat /\ Len(events[s]) \in Nat /\ events[s] \in Seq(Nat)
      /\ published \in Nat /\ LastEventId(c) \in Nat
  BY <1>2 DEF BridgeInv, TypeOK, LastEventId
<1>4. offset \in Nat /\ index \in Nat /\ index >= 1 /\ offset >= start[s]
  BY <1>3
<1>5. s = 2 => Len(events[s]) = 0 /\ ~ended[s]
  BY DEF BridgeInv, StreamsInv
<1>6. s = 1 => /\ start[1] + Len(events[1]) = published
               /\ NothingSkipped(c, offset)
  BY <1>2, <1>3 DEF BridgeInv, RetainedInv, NothingSkipped
<1>7. CASE index <= Len(events[s])
  <2>1. s = 1
    BY <1>2, <1>4, <1>5, <1>7
  <2>2. /\ hand' = [hand EXCEPT ![c] = events[s][index]]
        /\ next' = [next EXCEPT ![c] = offset + 1]
        /\ reader' = [reader EXCEPT ![c] = "holding"]
    BY <1>7 DEF ReaderTurn
  <2>3. events[s][index] = offset + 1
    <3>1. index \in 1 .. Len(events[1])
      BY <1>3, <1>4, <1>7, <2>1
    <3>2. events[1][index] = start[1] + index
      BY <3>1 DEF BridgeInv, RetainedInv
    <3>3. QED
      BY <1>3, <1>4, <2>1, <3>2
  <2>4. offset + 1 <= published /\ offset + 1 # End
    BY <1>3, <1>4, <1>6, <1>7, <2>1
  <2>. HIDE DEF offset, index, s
  <2>5. /\ hand'[c] = offset + 1 /\ next'[c] = offset + 1 /\ reader'[c] = "holding"
        /\ hand' \in [Client -> Nat] /\ next' \in [Client -> Nat]
        /\ \A x \in Client : x # c => UNCHANGED <<hand[x], next[x], reader[x]>>
    BY <1>4, <2>2, <2>3 DEF BridgeInv, TypeOK
  <2>6. TypeOK' /\ StreamsInv' /\ RetainedInv'
    BY <1>1, <2>2, <2>5 DEF BridgeInv, TypeOK, StreamsInv, RetainedInv
  <2>7. ReaderInv'
    <3>1. ReaderInv
      BY DEF BridgeInv
    <3>2. stream[c] = 1
      BY <2>1 DEF s
    <3>3. NothingSkipped(c, offset)
      BY <1>6, <2>1
    <3>4. offset + 1 - 1 = offset
      BY <1>4
    <3>5. QED
      BY <1>1, <1>2, <1>4, <2>4, <2>5, <3>1, <3>2, <3>3, <3>4
      DEF ReaderInv, NothingSkipped, LastEventId, s
  <2>8. NoLostWakeup'
    BY <1>1, <2>5 DEF BridgeInv, NoLostWakeup
  <2>9. QED
    BY <2>6, <2>7, <2>8 DEF BridgeInv
<1>8. CASE ~(index <= Len(events[s]))
  <2>1. /\ hand' = [hand EXCEPT ![c] = End]
        /\ next' = [next EXCEPT ![c] = offset]
        /\ reader' = [reader EXCEPT ![c] = IF ended[s] THEN "holding" ELSE "waiting"]
    BY <1>8 DEF ReaderTurn
  <2>2. offset >= start[s] + Len(events[s])
    BY <1>3, <1>4, <1>8
  <2>3. ended[s] => s = 1 /\ offset = published
    BY <1>2, <1>3, <1>4, <1>5, <1>6, <2>2 DEF NothingSkipped
  <2>. HIDE DEF offset, index
  <2>4. /\ hand'[c] = End /\ next'[c] = offset
        /\ reader'[c] = IF ended[s] THEN "holding" ELSE "waiting"
        /\ hand' \in [Client -> Nat] /\ next' \in [Client -> Nat]
        /\ \A x \in Client : x # c => UNCHANGED <<hand[x], next[x], reader[x]>>
    BY <1>4, <2>1 DEF BridgeInv, TypeOK
  <2>5. TypeOK' /\ StreamsInv' /\ RetainedInv'
    BY <1>1, <2>1, <2>4 DEF BridgeInv, TypeOK, StreamsInv, RetainedInv
  <2>6. ReaderInv'
    <3>1. ReaderInv
      BY DEF BridgeInv
    <3>2. QED
      BY <1>1, <1>2, <1>5, <1>6, <2>3, <2>4, <3>1 DEF ReaderInv, NothingSkipped, LastEventId
  <2>7. NoLostWakeup'
    BY <1>1, <2>2, <2>4 DEF BridgeInv, NoLostWakeup
  <2>8. QED
    BY <2>5, <2>6, <2>7 DEF BridgeInv
<1>9. QED
  BY <1>7, <1>8

(* A heartbeat ends the wait and nothing else. *)
LEMMA HeartbeatPreserves ==
  ASSUME BridgeInv, NEW c \in Client, Heartbeat(c)
  PROVE  BridgeInv'
  BY DEF BridgeInv, TypeOK, StreamsInv, RetainedInv, ReaderInv, NothingSkipped,
         LastEventId, NoLostWakeup, Heartbeat, streamVars, workerVars

(* The client receives what its subscriber held. *)
LEMMA ReceivePreserves ==
  ASSUME BridgeInv, NEW c \in Client, Receive(c)
  PROVE  BridgeInv'
<1>1. /\ UNCHANGED <<current, made, events, start, ended, published, worker, stream, next>>
      /\ reader[c] = "holding" /\ hand' = [hand EXCEPT ![c] = End]
  BY DEF Receive, streamVars, workerVars
<1>2. StreamsInv' /\ RetainedInv'
  BY <1>1 DEF BridgeInv, StreamsInv, RetainedInv
<1>3. CASE hand[c] = End
  <2>1. /\ told' = [told EXCEPT ![c] = TRUE] /\ reader' = [reader EXCEPT ![c] = "off"]
        /\ UNCHANGED got
    BY <1>3 DEF Receive
  <2>2. TypeOK' /\ NoLostWakeup'
    BY <1>1, <2>1 DEF BridgeInv, TypeOK, NoLostWakeup
  <2>3. ReaderInv'
    BY <1>1, <2>1 DEF BridgeInv, TypeOK, ReaderInv, NothingSkipped, LastEventId
  <2>4. QED
    BY <1>2, <2>2, <2>3 DEF BridgeInv
<1>4. CASE hand[c] # End
  <2>1. /\ got' = [got EXCEPT ![c] = Append(@, hand[c])]
        /\ reader' = [reader EXCEPT ![c] = "reading"]
        /\ UNCHANGED told
    BY <1>4 DEF Receive
  <2>2. got[c] \in Seq(Nat) /\ hand[c] \in Nat
    BY DEF BridgeInv, TypeOK
  <2>3. /\ Append(got[c], hand[c]) \in Seq(Nat) /\ Append(got[c], hand[c]) # <<>>
        /\ Append(got[c], hand[c])[Len(Append(got[c], hand[c]))] = hand[c]
    BY ONLY <2>2, AppendProperties
  <2>. DEFINE log == Append(got[c], hand[c])
  <2>. HIDE DEF log
  <2>4. got' \in [Client -> Seq(Nat)] /\ got'[c] = log
        /\ \A x \in Client : x # c => got'[x] = got[x]
    BY <2>1, <2>3 DEF BridgeInv, TypeOK, log
  <2>5. LastEventId(c)' = hand[c] /\ \A x \in Client : x # c => LastEventId(x)' = LastEventId(x)
    BY <2>3, <2>4 DEF LastEventId, log
  <2>6. /\ reader'[c] = "reading" /\ \A x \in Client : x # c => reader'[x] = reader[x]
        /\ \A x \in Client : x # c => hand'[x] = hand[x]
    BY <1>1, <2>1 DEF BridgeInv, TypeOK
  <2>7. TypeOK' /\ NoLostWakeup'
    BY <1>1, <2>1, <2>4, <2>6 DEF BridgeInv, TypeOK, NoLostWakeup
  <2>8. next[c] = hand[c] /\ hand[c] <= published /\ stream[c] \in 1 .. made /\ ~told[c]
    BY <1>1, <1>4 DEF BridgeInv, ReaderInv
  <2>9. ReaderInv
    BY DEF BridgeInv
  <2>10. hand[c] \in Nat /\ published \in Nat /\ start[1] \in Nat
    BY DEF BridgeInv, TypeOK
  <2>11. ReaderInv'
    BY ONLY <1>1, <2>1, <2>5, <2>6, <2>8, <2>9, <2>10 DEF ReaderInv, NothingSkipped
  <2>12. QED
    BY <1>2, <2>7, <2>11 DEF BridgeInv
<1>5. QED
  BY <1>3, <1>4

(* A connection is lost. *)
LEMMA DisconnectPreserves ==
  ASSUME BridgeInv, NEW c \in Client, Disconnect(c)
  PROVE  BridgeInv'
  BY DEF BridgeInv, TypeOK, StreamsInv, RetainedInv, ReaderInv, NothingSkipped,
         LastEventId, NoLostWakeup, Disconnect, streamVars, workerVars

(* A client forgets what it received. *)
LEMMA ReloadPreserves ==
  ASSUME BridgeInv, NEW c \in Client, Reload(c)
  PROVE  BridgeInv'
<1>1. /\ UNCHANGED <<current, made, events, start, ended, published, worker,
                     reader, stream, next, hand>>
      /\ reader[c] = "off"
      /\ got' = [got EXCEPT ![c] = <<>>] /\ told' = [told EXCEPT ![c] = FALSE]
  BY DEF Reload, streamVars, workerVars
<1>2. TypeOK' /\ StreamsInv' /\ RetainedInv' /\ NoLostWakeup'
  BY <1>1 DEF BridgeInv, TypeOK, StreamsInv, RetainedInv, NoLostWakeup
<1>3. /\ got'[c] = <<>>
      /\ \A x \in Client : x # c => got'[x] = got[x] /\ told'[x] = told[x]
  BY <1>1 DEF BridgeInv, TypeOK
<1>4. LastEventId(c)' = 0 /\ \A x \in Client : x # c => LastEventId(x)' = LastEventId(x)
  BY <1>3 DEF LastEventId
<1>5. ReaderInv'
  BY <1>1, <1>3, <1>4 DEF BridgeInv, TypeOK, ReaderInv, NothingSkipped
<1>6. QED
  BY <1>2, <1>5 DEF BridgeInv

(* Every step preserves the invariant. *)
LEMMA NextPreserves == BridgeInv /\ [Next]_vars => BridgeInv'
<1>. SUFFICES ASSUME BridgeInv, [Next]_vars PROVE BridgeInv'
  OBVIOUS
<1>1. CASE UNCHANGED vars
  BY <1>1 DEF BridgeInv, TypeOK, StreamsInv, RetainedInv, ReaderInv, NothingSkipped,
              LastEventId, NoLostWakeup, vars, streamVars, workerVars, readerVars
<1>2. CASE Next
  BY <1>2, PublishPreserves, PublishEndPreserves, CleanupPreserves, ConnectPreserves,
     ReaderTurnPreserves, ReceivePreserves, HeartbeatPreserves, DisconnectPreserves,
     ReloadPreserves DEF Next, Serve
<1>3. QED
  BY <1>1, <1>2

(* The invariant holds in every reachable state. *)
THEOREM Invariance == Spec => []BridgeInv
<1>1. QED
  BY InitEstablishes, NextPreserves, PTL DEF Spec

(* Every variable keeps its type, and no stream holds more events than     *)
(* queue_maxsize (publish).                                                *)
THEOREM TypeCorrect == Spec => []TypeOK
<1>1. BridgeInv => TypeOK
  BY DEF BridgeInv
<1>2. QED
  BY <1>1, Invariance, PTL

(* A subscriber never sleeps while an event or the end is there for it,    *)
(* without counting on the heartbeat's timeout.                            *)
THEOREM WakeupSafety == Spec => []NoLostWakeup
<1>1. BridgeInv => NoLostWakeup
  BY DEF BridgeInv
<1>2. QED
  BY <1>1, Invariance, PTL

-----------------------------------------------------------------------------
(* Refinement *)

(* publish is AppendEvent, publish_end is Finish, the arrival of an entry  *)
(* at the client is Deliver or TellEnd, a reload is StartOver; every other *)
(* step leaves the contract's variables alone.                             *)
LEMMA StepRefines ==
  ASSUME BridgeInv, [Next]_vars
  PROVE  [Log!LogNext]_Log!logVars
<1>. USE DEF Log!logVars
<1>1. CASE UNCHANGED vars
  BY <1>1 DEF vars, workerVars, readerVars
<1>2. CASE Publish
  <2>1. Log!AppendEvent
    BY <1>2 DEF Publish, Log!AppendEvent
  <2>2. QED
    BY <2>1 DEF Log!LogNext
<1>3. CASE PublishEnd
  <2>1. Log!Finish
    BY <1>3 DEF PublishEnd, Log!Finish
  <2>2. QED
    BY <2>1 DEF Log!LogNext
<1>4. CASE Cleanup
  BY <1>4 DEF Cleanup, readerVars
<1>5. ASSUME NEW c \in Client, Receive(c)
      PROVE  Log!LogNext
  <2>. USE DEF Log!Received, Log!Retained
  <2>1. reader[c] = "holding" /\ UNCHANGED <<published, worker>> /\ ~told[c]
    BY <1>5 DEF Receive, workerVars, BridgeInv, ReaderInv
  <2>2. /\ published \in Nat /\ start[1] \in Nat /\ hand[c] \in Nat
        /\ LastEventId(c) \in Nat /\ Len(events[1]) \in Nat
    BY DEF BridgeInv, TypeOK, LastEventId
  <2>3. \A m \in Nat : m > 0 /\ m <= start[1] => ~(m + Capacity > published)
    BY <2>2 DEF BridgeInv, RetainedInv
  <2>4. Log!Received(c) = LastEventId(c)
    BY DEF LastEventId
  <2>5. CASE hand[c] = End
    <3>1. told' = [told EXCEPT ![c] = TRUE] /\ UNCHANGED got
      BY <1>5, <2>5 DEF Receive
    <3>2. ended[1] /\ NothingSkipped(c, published)
      BY <2>1, <2>5 DEF BridgeInv, ReaderInv
    <3>3. worker # "publishing"
      BY <3>2 DEF BridgeInv, StreamsInv
    <3>4. \A m \in LastEventId(c) + 1 .. published : m \in Nat /\ m > 0 /\ m <= start[1]
      BY <2>2, <3>2 DEF NothingSkipped
    <3>5. \A m \in Log!Received(c) + 1 .. published : ~Log!Retained(m)
      BY <2>3, <2>4, <3>4
    <3>6. Log!TellEnd(c)
      BY <2>1, <3>1, <3>3, <3>5 DEF Log!TellEnd
    <3>7. QED
      BY <3>6 DEF Log!LogNext
  <2>6. CASE hand[c] # End
    <3>1. got' = [got EXCEPT ![c] = Append(@, hand[c])] /\ UNCHANGED told
      BY <1>5, <2>6 DEF Receive
    <3>2. hand[c] <= published /\ NothingSkipped(c, hand[c] - 1)
      BY <2>1, <2>6 DEF BridgeInv, ReaderInv
    <3>3. hand[c] \in LastEventId(c) + 1 .. published
      BY <2>2, <3>2 DEF NothingSkipped
    <3>4. \A m \in LastEventId(c) + 1 .. hand[c] - 1 : m \in Nat /\ m > 0 /\ m <= start[1]
      BY <2>2, <3>2 DEF NothingSkipped
    <3>5. \A m \in Log!Received(c) + 1 .. hand[c] - 1 : ~Log!Retained(m)
      BY <2>3, <2>4, <3>4
    <3>6. Log!Deliver(c)
      BY <2>1, <2>4, <3>1, <3>3, <3>5 DEF Log!Deliver
    <3>7. QED
      BY <3>6 DEF Log!LogNext
  <2>7. QED
    BY <2>5, <2>6
<1>6. ASSUME NEW c \in Client, Reload(c)
      PROVE  Log!LogNext
  <2>1. Log!StartOver(c)
    BY <1>6 DEF Reload, workerVars, Log!StartOver
  <2>2. QED
    BY <2>1 DEF Log!LogNext
<1>7. ASSUME NEW c \in Client,
             Connect(c) \/ ReaderTurn(c) \/ Heartbeat(c) \/ Disconnect(c)
      PROVE  UNCHANGED Log!logVars
  BY <1>7 DEF Connect, ReaderTurn, Heartbeat, Disconnect, workerVars
<1>8. QED
  BY <1>1, <1>2, <1>3, <1>4, <1>5, <1>6, <1>7 DEF Next, Serve

(* The bridge implements its contract for every set of clients, capacity   *)
(* and number of events: what clients receive over any number of           *)
(* connections is increasing, without repetition, and misses only events   *)
(* that were dropped (subscribe and _resolve_start_offset).                *)
THEOREM Refinement == Spec => ImplementsLog
<1>1. Init => Log!LogInit
  BY DEF Init, Log!LogInit
<1>2. QED
  BY <1>1, Invariance, StepRefines, PTL DEF Spec, ImplementsLog, Log!LogSpec

=============================================================================
