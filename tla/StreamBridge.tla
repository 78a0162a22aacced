---------------------------- MODULE StreamBridge ----------------------------
(***************************************************************************)
(* MemoryStreamBridge for one run: the bounded event log with its          *)
(* start_offset, the condition its subscribers wait on, the cleanup 60     *)
(* seconds after the end, and the stream a subscriber creates when it      *)
(* arrives before the first event or after the cleanup.  A client is an    *)
(* SSE consumer that may lose its connection at any time and reconnects    *)
(* with the id of the last event it received as Last-Event-ID.             *)
(*                                                                         *)
(* The sections under the condition's lock do not await while they hold    *)
(* it (wait() releases it), so each is one step.  An event is abstracted   *)
(* to its number; ids are only compared for equality.  A stream object     *)
(* outlives its entry in _streams while a subscriber holds it, so streams  *)
(* are numbered: 1 is the one the worker publishes to, 2 the one created   *)
(* by a subscriber that comes after the cleanup.                           *)
(***************************************************************************)
EXTENDS Naturals, Sequences

CONSTANTS
  Client,     \* SSE clients of the run
  Capacity,   \* queue_maxsize
  MaxEvents   \* bound: events the run publishes

ASSUME CapacityAssumption == Capacity \in Nat \ {0}
ASSUME EventsAssumption == MaxEvents \in Nat

VARIABLES
  current,    \* the stream in _streams, 0 when there is none
  made,       \* streams created so far
  events,     \* the retained events of each stream
  start,      \* start_offset of each stream
  ended,      \* the stream was ended
  published,  \* events published so far: _counters
  worker,     \* the worker's publisher: "publishing", "ended", "cleaned"
  reader,     \* subscribe() of each client: "off", "reading" (about to take
              \* the lock), "waiting" (in condition.wait), "holding" an entry
  stream,     \* the stream object the reader holds
  next,       \* next_offset of the reader
  hand,       \* the entry it holds: an event, or End
  got,        \* the events the client received, in order
  told        \* the client received the end event

streamVars == <<current, made, events, start, ended>>
workerVars == <<published, worker>>
readerVars == <<reader, stream, next, hand, got, told>>
vars == <<streamVars, workerVars, readerVars>>

Stream == 1 .. 2
End == 0

TypeOK ==
  /\ current \in {0} \cup Stream
  /\ made \in {0} \cup Stream
  /\ events \in [Stream -> Seq(Nat)]
  /\ \A s \in Stream : Len(events[s]) <= Capacity
  /\ start \in [Stream -> Nat]
  /\ ended \in [Stream -> BOOLEAN]
  /\ published \in Nat
  /\ worker \in {"publishing", "ended", "cleaned"}
  /\ reader \in [Client -> {"off", "reading", "waiting", "holding"}]
  /\ stream \in [Client -> {0} \cup Stream]
  /\ next \in [Client -> Nat]
  /\ hand \in [Client -> Nat]
  /\ got \in [Client -> Seq(Nat)]
  /\ told \in [Client -> BOOLEAN]

Init ==
  /\ current = 0 /\ made = 0
  /\ events = [s \in Stream |-> <<>>]
  /\ start = [s \in Stream |-> 0]
  /\ ended = [s \in Stream |-> FALSE]
  /\ published = 0 /\ worker = "publishing"
  /\ reader = [c \in Client |-> "off"]
  /\ stream = [c \in Client |-> 0]
  /\ next = [c \in Client |-> 0]
  /\ hand = [c \in Client |-> End]
  /\ got = [c \in Client |-> <<>>]
  /\ told = [c \in Client |-> FALSE]

-----------------------------------------------------------------------------
(* Mutated forms: plausible bugs in the definitions below. *)

ResolveAtLast(s, e) ==
  IF \E i \in DOMAIN events[s] : events[s][i] = e
  THEN start[s] + (CHOOSE i \in DOMAIN events[s] : events[s][i] = e) - 1
  ELSE start[s]

NotifyNobody(s) == UNCHANGED reader

-----------------------------------------------------------------------------
(* _get_or_create_stream: the stream in _streams or a new one. *)
Opened == IF current = 0 THEN made + 1 ELSE current

OpenStream ==
  /\ current' = Opened
  /\ made' = IF current = 0 THEN made + 1 ELSE made

(* notify_all: every subscriber waiting on the stream runs again. *)
Notify(s) ==
  reader' = [c \in Client |-> IF reader[c] = "waiting" /\ stream[c] = s
                              THEN "reading" ELSE reader[c]]

(* Events to drop from stream s when one more is appended. *)
Overflow(s) ==
  IF Len(events[s]) + 1 > Capacity THEN Len(events[s]) + 1 - Capacity ELSE 0

(* publish *)
Publish ==
  LET s == Opened
      log == Append(events[s], published + 1)
      drop == Overflow(s)
  IN
  /\ worker = "publishing" /\ published < MaxEvents
  /\ OpenStream
  /\ published' = published + 1
  /\ events' = [events EXCEPT ![s] = SubSeq(log, drop + 1, Len(log))]
  /\ start' = [start EXCEPT ![s] = @ + drop]
  /\ Notify(s)
  /\ UNCHANGED <<ended, worker, stream, next, hand, got, told>>

(* publish_end *)
PublishEnd ==
  LET s == Opened IN
  /\ worker = "publishing"
  /\ worker' = "ended"
  /\ OpenStream
  /\ ended' = [ended EXCEPT ![s] = TRUE]
  /\ Notify(s)
  /\ UNCHANGED <<events, start, published, stream, next, hand, got, told>>

(* cleanup, 60 seconds after the end. *)
Cleanup ==
  /\ worker = "ended"
  /\ worker' = "cleaned"
  /\ current' = 0
  /\ UNCHANGED <<made, events, start, ended, published, readerVars>>

-----------------------------------------------------------------------------
(* The last event the client received, sent as Last-Event-ID; 0 is none. *)
LastEventId(c) == IF got[c] = <<>> THEN 0 ELSE got[c][Len(got[c])]

(* _resolve_start_offset: after the event with that id, or from the        *)
(* earliest retained event when there is no such event.                    *)
ResolveStartOffset(s, e) ==
  IF \E i \in DOMAIN events[s] : events[s][i] = e
  THEN start[s] + (CHOOSE i \in DOMAIN events[s] : events[s][i] = e)
  ELSE start[s]

(* A client that was not told the end connects: subscribe up to its loop.  *)
Connect(c) ==
  /\ reader[c] = "off" /\ ~told[c]
  /\ OpenStream
  /\ reader' = [reader EXCEPT ![c] = "reading"]
  /\ stream' = [stream EXCEPT ![c] = Opened]
  /\ next' = [next EXCEPT ![c] = ResolveStartOffset(Opened, LastEventId(c))]
  /\ UNCHANGED <<events, start, ended, workerVars, hand, got, told>>

(* One turn of the loop under the lock: skip what was dropped, then take   *)
(* the entry at the offset, or the end, or wait.                           *)
ReaderTurn(c) ==
  LET s == stream[c]
      offset == IF next[c] < start[s] THEN start[s] ELSE next[c]
      index == offset - start[s] + 1
  IN
  /\ reader[c] = "reading"
  /\ IF index <= Len(events[s])
     THEN /\ hand' = [hand EXCEPT ![c] = events[s][index]]
          /\ next' = [next EXCEPT ![c] = offset + 1]
          /\ reader' = [reader EXCEPT ![c] = "holding"]
     ELSE /\ next' = [next EXCEPT ![c] = offset]
          /\ hand' = [hand EXCEPT ![c] = End]
          /\ reader' = [reader EXCEPT ![c] = IF ended[s] THEN "holding" ELSE "waiting"]
  /\ UNCHANGED <<streamVars, workerVars, stream, got, told>>

(* The wait timed out: a heartbeat is yielded and the loop goes on. *)
Heartbeat(c) ==
  /\ reader[c] = "waiting"
  /\ reader' = [reader EXCEPT ![c] = "reading"]
  /\ UNCHANGED <<streamVars, workerVars, stream, next, hand, got, told>>

(* The entry is yielded and reaches the client; the end closes the stream. *)
Receive(c) ==
  /\ reader[c] = "holding"
  /\ IF hand[c] = End
     THEN /\ told' = [told EXCEPT ![c] = TRUE]
          /\ reader' = [reader EXCEPT ![c] = "off"]
          /\ UNCHANGED got
     ELSE /\ got' = [got EXCEPT ![c] = Append(@, hand[c])]
          /\ reader' = [reader EXCEPT ![c] = "reading"]
          /\ UNCHANGED told
  /\ hand' = [hand EXCEPT ![c] = End]
  /\ UNCHANGED <<streamVars, workerVars, stream, next>>

(* The connection is lost, with the entry that was under way. *)
Disconnect(c) ==
  /\ reader[c] # "off"
  /\ reader' = [reader EXCEPT ![c] = "off"]
  /\ hand' = [hand EXCEPT ![c] = End]
  /\ UNCHANGED <<streamVars, workerVars, stream, next, got, told>>

(* The page is reloaded: a client without a Last-Event-ID. *)
Reload(c) ==
  /\ reader[c] = "off" /\ got[c] # <<>>
  /\ got' = [got EXCEPT ![c] = <<>>]
  /\ told' = [told EXCEPT ![c] = FALSE]
  /\ UNCHANGED <<streamVars, workerVars, reader, stream, next, hand>>

-----------------------------------------------------------------------------
Serve(c) == ReaderTurn(c) \/ Receive(c)

Next ==
  \/ Publish \/ PublishEnd \/ Cleanup
  \/ \E c \in Client :
       Connect(c) \/ Serve(c) \/ Heartbeat(c) \/ Disconnect(c) \/ Reload(c)

(* The event loop runs every subscriber that is ready.  The heartbeat gets *)
(* no fairness: what is promised must not depend on its timer.             *)
Fairness == \A c \in Client : WF_vars(Serve(c))

Spec == Init /\ [][Next]_vars /\ Fairness

-----------------------------------------------------------------------------
(* A subscriber sleeps only while there is nothing for it: no event at or  *)
(* after its offset is retained and its stream has not ended.  publish and *)
(* publish_end never leave a subscriber asleep.                            *)
NoLostWakeup ==
  \A c \in Client : reader[c] = "waiting" =>
    /\ next[c] >= start[stream[c]] + Len(events[stream[c]])
    /\ ~ended[stream[c]]

(* Over any number of disconnects and reconnects, with events dropped at   *)
(* the capacity meanwhile, what the clients receive is what the contract   *)
(* of a bridge allows: EventLog.                                           *)
Log == INSTANCE EventLog WITH finished <- worker # "publishing"
ImplementsLog == Log!LogSpec

(* A subscriber of a stream that was ended receives the end, unless it     *)
(* goes away, also when the stream is cleaned up while it still reads.     *)
SubscriberEnds ==
  \A c \in Client :
    reader[c] # "off" /\ ended[stream[c]] ~> reader[c] = "off"

(* base.py: subscribe "Yields END_SENTINEL once the producer calls         *)
(* publish_end", so a client of a run that ended receives the end.         *)
ClientEnds ==
  \A c \in Client :
    reader[c] # "off" /\ worker # "publishing" ~> reader[c] = "off"

-----------------------------------------------------------------------------
(* The inductive invariant behind NoLostWakeup and ImplementsLog. *)

(* The worker publishes to stream 1; stream 2 exists only after the        *)
(* cleanup and stays empty and open.                                       *)
StreamsInv ==
  /\ worker = "publishing" => made \in {0, 1} /\ current = made
  /\ worker = "ended" => made = 1 /\ current = 1
  /\ worker = "cleaned" => <<made, current>> \in {<<1, 0>>, <<2, 2>>}
  /\ ended[1] <=> worker # "publishing"
  /\ events[2] = <<>> /\ start[2] = 0 /\ ~ended[2]

(* The retained events are the last ones, without a gap, and nothing is    *)
(* dropped before the log is full.                                         *)
RetainedInv ==
  /\ start[1] + Len(events[1]) = published
  /\ \A i \in 1 .. Len(events[1]) : events[1][i] = start[1] + i
  /\ start[1] = 0 \/ Len(events[1]) = Capacity

(* Between what the client received and offset n everything was dropped.   *)
NothingSkipped(c, n) ==
  /\ LastEventId(c) <= n /\ n <= published
  /\ (n = LastEventId(c) \/ n <= start[1])

ReaderInv ==
  \A c \in Client :
    /\ LastEventId(c) <= published
    /\ reader[c] # "off" => ~told[c] /\ stream[c] \in 1 .. made
    /\ stream[c] = 2 => reader[c] # "holding"
    /\ reader[c] \in {"reading", "waiting"} /\ stream[c] = 1 => NothingSkipped(c, next[c])
    /\ reader[c] = "holding" /\ hand[c] # End =>
         next[c] = hand[c] /\ hand[c] <= published /\ NothingSkipped(c, hand[c] - 1)
    /\ reader[c] = "holding" /\ hand[c] = End =>
         ended[1] /\ NothingSkipped(c, published)

BridgeInv == TypeOK /\ StreamsInv /\ RetainedInv /\ ReaderInv /\ NoLostWakeup

=============================================================================
