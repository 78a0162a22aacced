---------------------------- MODULE HarnessProofs ----------------------------
(***************************************************************************)
(* Proofs about the components that MCHarness runs side by side: what      *)
(* holds of each for every value of its constants.                         *)
(***************************************************************************)
EXTENDS CircuitBreaker, LoopGuard, SessionPool, WriteReport, ThreadHistory,
        Transcript, FiniteSetTheorems, TLAPS

-----------------------------------------------------------------------------
(* CircuitBreaker: any number of callers, any threshold and any number of  *)
(* attempts.                                                               *)

\* Types, the agreement of state and count, and who carries the probe flag:
\* together they are inductive.
BreakerInv == BreakerTypeOK /\ ClosedBelowThreshold /\ ProbeIsCarried

LEMMA BreakerInvInit == BreakerInit => BreakerInv
  <1> SUFFICES ASSUME BreakerInit PROVE BreakerInv
    OBVIOUS
  <1> USE BreakerAssumption DEF BreakerAssumption, BreakerInit
  <1>0. failures \in 0 .. MaxFailures /\ attempt \in [Callers -> 0 .. MaxAttempts]
    OBVIOUS
  <1>1. BreakerTypeOK
    BY <1>0, Zenon DEF BreakerTypeOK
  <1>2. ClosedBelowThreshold
    BY DEF ClosedBelowThreshold
  <1>3. ProbeIsCarried
    BY DEF ProbeIsCarried
  <1> QED
    BY <1>1, <1>2, <1>3 DEF BreakerInv

\* The steps that let a caller go on: by itself, or as a probe.
LEMMA StartKeepsBreakerInv ==
  ASSUME BreakerInv, NEW c \in Callers, Pass(c) \/ Probe(c) \/ Retry(c)
  PROVE  BreakerInv'
  <1> USE BreakerAssumption DEF BreakerAssumption, BreakerInv
  <1>1. /\ attempt' \in [Callers -> 0 .. MaxAttempts]
        /\ \A d \in Callers : Calling(d) => Calling(d)'
        /\ Calling(c)'
    BY DEF Pass, Probe, Retry, Calling, BreakerTypeOK
  <1>2. CASE Pass(c) \/ Retry(c)
    <2>1. BreakerTypeOK' /\ ClosedBelowThreshold'
      BY <1>1, <1>2 DEF Pass, Retry, BreakerTypeOK, ClosedBelowThreshold
    <2>2. UNCHANGED <<circuit, probing, probes, dropped>>
      BY <1>2 DEF Pass, Retry
    <2>3. ProbeIsCarried'
      BY <1>1, <2>2 DEF ProbeIsCarried, BreakerTypeOK
    <2> QED
      BY <2>1, <2>3
  <1>3. CASE Probe(c)
    <2>1. BreakerTypeOK' /\ ClosedBelowThreshold'
      BY <1>1, <1>3 DEF Probe, MayProbe, BreakerTypeOK, ClosedBelowThreshold
    <2>2. c \in probes' /\ Calling(c)'
      BY <1>1, <1>3 DEF Probe
    <2>3. ProbeIsCarried'
      BY <2>2 DEF ProbeIsCarried
    <2> QED
      BY <2>1, <2>3
  <1> QED
    BY <1>2, <1>3

\* A caller that returns leaves the others where they are.
LEMMA ReturnedCaller ==
  ASSUME BreakerTypeOK, NEW c \in Callers, Return(c)
  PROVE  /\ attempt' \in [Callers -> 0 .. MaxAttempts]
         /\ \A d \in Callers \ {c} : Calling(d)' = Calling(d)
  BY BreakerAssumption DEF BreakerTypeOK, Return, Calling

LEMMA GiveUpKeepsBreakerInv ==
  ASSUME BreakerInv, NEW c \in Callers, GiveUp(c)
  PROVE  BreakerInv'
  <1> USE BreakerAssumption DEF BreakerAssumption, BreakerInv
  <1>1. attempt' \in [Callers -> 0 .. MaxAttempts]
    BY ReturnedCaller DEF GiveUp
  <1>2. CASE Reopen
    BY <1>1, <1>2 DEF Reopen, Settle, BreakerTypeOK, ClosedBelowThreshold, ProbeIsCarried
  <1>3. CASE CountFailure
    <2>1. failures' \in 0 .. MaxFailures
      BY <1>3 DEF CountFailure, BreakerTypeOK
    <2>2. circuit' \in {"closed", "open"} /\ ClosedBelowThreshold'
      BY <1>3, <2>1 DEF CountFailure, BreakerTypeOK, ClosedBelowThreshold
    <2>3. BreakerTypeOK'
      BY <1>1, <1>3, <2>1, <2>2 DEF CountFailure, BreakerTypeOK
    <2> QED
      BY <2>2, <2>3 DEF ProbeIsCarried
  <1> QED
    BY <1>2, <1>3 DEF GiveUp

LEMMA FinishKeepsBreakerInv ==
  ASSUME BreakerInv, NEW c \in Callers, Finish(c)
  PROVE  BreakerInv'
  <1> USE BreakerAssumption DEF BreakerAssumption, BreakerInv
  <1>1. CASE Succeed(c)
    <2>1. circuit' = "closed" /\ failures' = 0 /\ probing' = FALSE
      BY <1>1 DEF Succeed
    <2>2. failures' \in 0 .. MaxFailures /\ attempt' \in [Callers -> 0 .. MaxAttempts]
      BY <1>1, <2>1, ReturnedCaller DEF Succeed
    <2>3. BreakerTypeOK'
      BY <1>1, <2>1, <2>2, Zenon DEF Succeed, Settle, BreakerTypeOK
    <2> QED
      BY <2>1, <2>3 DEF ClosedBelowThreshold, ProbeIsCarried
  <1>2. CASE BubbleUp(c)
    BY <1>2, ReturnedCaller
       DEF BubbleUp, BreakerTypeOK, ClosedBelowThreshold, ProbeIsCarried
  <1>3. CASE End(c)
    <2>1. BreakerTypeOK' /\ ClosedBelowThreshold'
      BY <1>3, ReturnedCaller DEF End, BreakerTypeOK, ClosedBelowThreshold
    <2>2. ASSUME ~dropped', circuit = "half_open" /\ probing
          PROVE  \E d \in probes' : Calling(d)'
      <3>1. ~dropped /\ c \notin probes
        BY <1>3, <2>2 DEF End, BreakerTypeOK
      <3>2. PICK d \in probes : Calling(d)
        BY <2>2, <3>1 DEF ProbeIsCarried
      <3>3. d \in Callers \ {c} /\ d \in probes'
        BY <1>3, <3>1, <3>2 DEF End, BreakerTypeOK
      <3> QED
        BY <1>3, <3>2, <3>3, ReturnedCaller DEF End
    <2> QED
      BY <1>3, <2>1, <2>2 DEF End, ProbeIsCarried
  <1> QED
    BY <1>1, <1>2, <1>3, GiveUpKeepsBreakerInv DEF Finish

LEMMA BreakerInvStep == BreakerInv /\ [BreakerNext]_breakerVars => BreakerInv'
  <1> SUFFICES ASSUME BreakerInv, [BreakerNext]_breakerVars
               PROVE  BreakerInv'
    OBVIOUS
  <1>1. CASE Elapse
    BY <1>1 DEF Elapse, BreakerInv, BreakerTypeOK, ClosedBelowThreshold, ProbeIsCarried, Calling
  <1>2. ASSUME NEW c \in Callers, Pass(c) \/ Probe(c) \/ Retry(c) \/ Finish(c)
        PROVE  BreakerInv'
    BY <1>2, StartKeepsBreakerInv, FinishKeepsBreakerInv
  <1>3. CASE UNCHANGED breakerVars
    BY <1>3 DEF breakerVars, BreakerInv, BreakerTypeOK, ClosedBelowThreshold, ProbeIsCarried, Calling
  <1> QED
    BY <1>1, <1>2, <1>3 DEF BreakerNext

LEMMA BreakerHolds == BreakerSpec => []BreakerInv
  BY BreakerInvInit, BreakerInvStep, PTL DEF BreakerSpec

\* The circuit is closed exactly while the failures counted are below the
\* threshold (_record_success and _record_failure keep the two together).
THEOREM StateFollowsCount == BreakerSpec => []ClosedBelowThreshold
  BY BreakerHolds, PTL DEF BreakerInv

\* A half-open circuit refuses calls only for a probe that is in flight, or
\* for one that ended with an error nothing was recorded of.
THEOREM FlagHasItsProbe == BreakerSpec => []ProbeIsCarried
  BY BreakerHolds, PTL DEF BreakerInv

-----------------------------------------------------------------------------
(* LoopGuard: any responses and window, and every pair of thresholds the   *)
(* configuration accepts.  The count of a call set grows by one a response *)
(* at most.  Where the limit is above the threshold of the warning it      *)
(* passes the threshold, and is marked, before it can reach the limit;     *)
(* where they are equal no repetition is ever warned of.                   *)

(* The window holds call sets, no more than its size. *)
WindowInv ==
  /\ window \in Seq(SUBSET UNION {CallSet(r) : r \in Responses})
  /\ Len(window) <= WindowSize
  /\ StopIsAnnounced

(* The count of a call set is a number, and one that occurs is counted. *)
LEMMA OccurrencesOf ==
  ASSUME NEW S, NEW w \in Seq(S), NEW s
  PROVE  /\ IsFiniteSet({i \in DOMAIN w : w[i] = s})
         /\ Occurrences(w, s) \in Nat
         /\ s \in ToSet(w) <=> Occurrences(w, s) > 0
<1>. DEFINE I == {i \in DOMAIN w : w[i] = s}
<1>1. IsFiniteSet(1 .. Len(w)) /\ I \in SUBSET (1 .. Len(w))
  BY FS_Interval
<1>2. IsFiniteSet(I)
  BY <1>1, FS_Subset
<1>3. Cardinality(I) \in Nat /\ (Cardinality(I) = 0 <=> I = {})
  BY <1>2, FS_CardinalityType, FS_EmptySet
<1>4. s \in ToSet(w) <=> I # {}
  BY DEF ToSet
<1>. QED
  BY <1>2, <1>3, <1>4 DEF Occurrences

(* Of a call set the window counts at most one more than before, and none  *)
(* more unless it is the one that comes in.                                *)
LEMMA SlidingWindow ==
  ASSUME NEW S, window \in Seq(S), NEW r, CallSet(r) \in S
  PROVE  /\ Windowed(r) \in Seq(S) /\ Len(Windowed(r)) <= WindowSize
         /\ \A s : Occurrences(Windowed(r), s) <=
              Occurrences(window, s) + (IF s = CallSet(r) THEN 1 ELSE 0)
<1>. USE GuardAssumption DEF GuardAssumption
<1>. DEFINE all == Append(window, CallSet(r))
            n == IF Len(all) > WindowSize THEN WindowSize ELSE Len(all)
            m == Len(all) - n
<1>1. /\ all \in Seq(S) /\ Len(all) = Len(window) + 1
      /\ \A i \in 1 .. Len(window) : all[i] = window[i]
      /\ all[Len(window) + 1] = CallSet(r)
  OBVIOUS
<1>2. n \in Nat /\ m \in Nat /\ n <= WindowSize /\ n + m = Len(window) + 1
  BY <1>1
<1>3. Windowed(r) = SubSeq(all, m + 1, Len(all))
  BY <1>1, <1>2 DEF Windowed
<1>. HIDE DEF n, m
<1>4. /\ Windowed(r) \in Seq(S) /\ Len(Windowed(r)) = n
      /\ \A i \in 1 .. n : Windowed(r)[i] = all[i + m]
  <2>. HIDE DEF all
  <2>. QED
    BY <1>1, <1>2, <1>3
<1>5. ASSUME NEW s
      PROVE  Occurrences(Windowed(r), s) <=
               Occurrences(window, s) + (IF s = CallSet(r) THEN 1 ELSE 0)
  <2>. DEFINE new == {i \in 1 .. n : Windowed(r)[i] = s}
              old == {i \in 1 .. Len(window) : window[i] = s}
              room == IF s = CallSet(r) THEN old \cup {Len(window) + 1} ELSE old
              f == [i \in new |-> i + m]
  <2>0. DOMAIN Windowed(r) = 1 .. n /\ DOMAIN window = 1 .. Len(window)
    BY <1>4
  <2>1. /\ Occurrences(Windowed(r), s) = Cardinality(new)
        /\ Occurrences(window, s) = Cardinality(old)
    BY <2>0 DEF Occurrences
  <2>2. IsFiniteSet(old) /\ Cardinality(old) \in Nat
    <3>1. old = {i \in DOMAIN window : window[i] = s}
      BY <2>0
    <3>. HIDE DEF old
    <3>. QED
      BY <2>1, <3>1, OccurrencesOf
  <2>3. IsFiniteSet(room) /\ Cardinality(room) = Cardinality(old) + (IF s = CallSet(r) THEN 1 ELSE 0)
    <3>1. Len(window) + 1 \notin old
      OBVIOUS
    <3>. HIDE DEF old
    <3>. QED
      BY <2>2, <3>1, FS_AddElement
  <2>4. \A i \in new : i + m \in room
    <3>. SUFFICES ASSUME NEW i \in new PROVE i + m \in room
      OBVIOUS
    <3>1. i \in 1 .. n /\ all[i + m] = s /\ i + m \in 1 .. Len(window) + 1
      BY <1>2, <1>4
    <3>2. CASE i + m \in 1 .. Len(window)
      BY <1>1, <3>1, <3>2
    <3>3. CASE i + m = Len(window) + 1
      BY <1>1, <3>1, <3>3
    <3>. QED
      BY <3>1, <3>2, <3>3
  <2>5. f \in Injection(new, room)
    <3>1. f \in [new -> room]
      BY <2>4
    <3>2. \A i, j \in new : f[i] = f[j] => i = j
      BY <1>2
    <3>. HIDE DEF new, room, f
    <3>. QED
      BY <3>1, <3>2 DEF Injection, IsInjective
  <2>6. Cardinality(new) <= Cardinality(room)
    <3>. HIDE DEF new, room, f
    <3>. QED
      BY <2>3, <2>5, FS_Injection
  <2>. QED
    BY <2>1, <2>3, <2>6
<1>. QED
  BY <1>2, <1>4, <1>5

(* A response tracked keeps the window, and announces what it makes repeat. *)
LEMMA TrackKeepsWindow ==
  ASSUME HardLimit > WarnThreshold,
         WindowInv, NEW r \in Responses, NEW verdict, Track(r, verdict)
  PROVE  WindowInv'
<1>. DEFINE S == SUBSET UNION {CallSet(q) : q \in Responses}
            c == CallSet(r)
<1>1. window \in Seq(S) /\ c \in S
  BY DEF WindowInv
<1>2. window' = Windowed(r)
  BY DEF Track
<1>3. /\ Windowed(r) \in Seq(S) /\ Len(Windowed(r)) <= WindowSize
      /\ \A s : Occurrences(Windowed(r), s) <=
           Occurrences(window, s) + (IF s = c THEN 1 ELSE 0)
  BY <1>1, SlidingWindow
<1>4. ASSUME NEW s \in ToSet(Windowed(r)), Occurrences(Windowed(r), s) >= WarnThreshold
      PROVE  s \in warned'
  <2>1. Occurrences(Windowed(r), s) \in Nat /\ Occurrences(window, s) \in Nat
        /\ (s \in ToSet(window) <=> Occurrences(window, s) > 0)
    BY <1>1, <1>3, OccurrencesOf
  <2>2. Kept(r) \subseteq warned'
    BY DEF Track, RepeatedVerdict, FrequentVerdict
  <2>3. s \in warned => s \in warned'
    BY <2>2, <1>4 DEF Kept
  <2>4. Occurrences(window, s) >= WarnThreshold => s \in warned
    BY <2>1, GuardAssumption DEF WindowInv, StopIsAnnounced, GuardAssumption
  <2>5. CASE s # c
    BY <1>3, <1>4, <2>1, <2>3, <2>4, <2>5, GuardAssumption DEF GuardAssumption
  <2>6. CASE s = c
    <3>1. Occurrences(Windowed(r), c) >= HardLimit => s \in warned
      BY <1>3, <2>1, <2>4, <2>6, GuardAssumption DEF GuardAssumption
    <3>2. \/ Occurrences(Windowed(r), c) >= HardLimit
          \/ warned' = Kept(r) \cup {c}
          \/ Occurrences(Windowed(r), c) < WarnThreshold
          \/ c \in Kept(r)
      BY DEF Track, RepeatedVerdict, FrequentVerdict
    <3>. QED
      BY <1>4, <2>1, <2>2, <2>3, <2>6, <3>1, <3>2, GuardAssumption DEF GuardAssumption
  <2>. QED
    BY <2>5, <2>6
<1>. QED
  BY <1>2, <1>3, <1>4 DEF WindowInv, StopIsAnnounced

(* The window's invariant is inductive: only Track changes what it reads. *)
LEMMA WindowHolds ==
  ASSUME HardLimit > WarnThreshold
  PROVE  GuardSpec => []WindowInv
<1>1. GuardInit => WindowInv
  BY GuardAssumption DEF GuardAssumption, GuardInit, WindowInv, StopIsAnnounced, ToSet
<1>2. WindowInv /\ [GuardNext]_loopVars => WindowInv'
  <2>. SUFFICES ASSUME WindowInv, [GuardNext]_loopVars PROVE WindowInv'
    OBVIOUS
  <2>1. ASSUME NEW r \in Responses, NEW verdict \in Verdicts, AnswerCalls(r, verdict)
        PROVE  WindowInv'
    BY <2>1, TrackKeepsWindow DEF AnswerCalls
  <2>2. CASE UNCHANGED guardVars
    BY <2>2 DEF guardVars, WindowInv, StopIsAnnounced
  <2>3. ASSUME NEW clean \in BOOLEAN, AnswerText(clean) PROVE UNCHANGED guardVars
    BY <2>3 DEF AnswerText
  <2>. QED
    BY <2>1, <2>2, <2>3 DEF GuardNext, Turn, StartTurn, AbortTurn, CallModel, CallAgain,
       Drain, Refuse, RunTools, EndAgent, loopVars
<1>. QED
  BY <1>1, <1>2, PTL DEF GuardSpec

(* Where the limit is above the threshold of the warning, whatever repeats *)
(* in the window as often as a warning takes was warned of, so no turn is  *)
(* stopped for repetition that was not warned first, for any size of the   *)
(* window (loop_detection_middleware.py, _track_and_check).                *)
THEOREM StopsAreAnnounced ==
  ASSUME HardLimit > WarnThreshold
  PROVE  GuardSpec => []StopIsAnnounced
<1>1. WindowInv => StopIsAnnounced
  BY DEF WindowInv
<1>. QED
  BY <1>1, WindowHolds, PTL

(* Where the limit is the threshold, which validate_thresholds accepts, no *)
(* repetition is ever warned of: the code looks at the limit first, and    *)
(* every stop for repetition comes unannounced.                            *)
THEOREM EqualLimitsNeverWarn ==
  ASSUME HardLimit = WarnThreshold
  PROVE  GuardSpec => [](warned = {})
<1>. DEFINE S == SUBSET UNION {CallSet(r) : r \in Responses}
            Inv == warned = {} /\ window \in Seq(S)
<1>1. GuardInit => Inv
  BY DEF GuardInit
<1>2. Inv /\ [GuardNext]_loopVars => Inv'
  <2>. SUFFICES ASSUME Inv, [GuardNext]_loopVars PROVE Inv'
    OBVIOUS
  <2>1. ASSUME NEW r \in Responses, NEW verdict \in Verdicts, AnswerCalls(r, verdict)
        PROVE  Inv'
    <3>. DEFINE count == Occurrences(Windowed(r), CallSet(r))
    <3>1. Windowed(r) \in Seq(S) /\ count \in Nat
      <4>1. CallSet(r) \in S /\ window \in Seq(S)
        OBVIOUS
      <4>. HIDE DEF S
      <4>2. Windowed(r) \in Seq(S)
        BY <4>1, SlidingWindow
      <4>. QED
        BY <4>2, OccurrencesOf
    <3>2. ~(count < HardLimit /\ count >= WarnThreshold)
      BY <3>1, GuardAssumption DEF GuardAssumption
    <3>3. Kept(r) = {}
      BY DEF Kept
    <3>. QED
      BY <2>1, <3>1, <3>2, <3>3 DEF AnswerCalls, Track, RepeatedVerdict, FrequentVerdict
  <2>2. CASE UNCHANGED guardVars
    BY <2>2 DEF guardVars
  <2>3. ASSUME NEW clean \in BOOLEAN, AnswerText(clean) PROVE UNCHANGED guardVars
    BY <2>3 DEF AnswerText
  <2>. QED
    BY <2>1, <2>2, <2>3 DEF GuardNext, Turn, StartTurn, AbortTurn, CallModel, CallAgain,
       Drain, Refuse, RunTools, EndAgent, loopVars
<1>. QED
  BY <1>1, <1>2, PTL DEF GuardSpec

-----------------------------------------------------------------------------
(* SessionPool: any number of calls, keys, sessions, pools and resets.     *)
(* Every session is in one of three places: an entry of one pool, the      *)
(* hands of the call that has made it, or the hands of who is to close it. *)

(* The types the argument needs. *)
PoolTypes ==
  /\ registry \in Seq(Seq([key : Keys, s : Nat])) /\ 1 \in DOMAIN registry
  /\ sessions \in Seq([key : Keys, loop : Calls \cup {Main}, open : BOOLEAN])
  /\ DOMAIN call = Calls
  /\ \A c \in Calls :
       \/ call[c] = NotMade
       \/ call[c] = [at |-> "done"]
       \/ call[c] \in [at : {"using"}, key : Keys, s : Nat]
       \/ call[c] \in [at : {"registering"}, pool : DOMAIN registry, key : Keys, s : Nat]
       \/ call[c] \in [at : {"opening"}, pool : DOMAIN registry, key : Keys, toClose : Seq(Nat)]

(* The sessions that somebody is to close. *)
Doomed ==
  closing \cup UNION {ToSet(call[c].toClose) : c \in {d \in Calls : call[d].at = "opening"}}

(* The sessions that a call has made and not registered. *)
Unregistered == {call[c].s : c \in {d \in Calls : call[d].at = "registering"}}

(* The sessions of the pools. *)
Entered == UNION {{registry[p][i].s : i \in DOMAIN registry[p]} : p \in DOMAIN registry}

(* A session is in one place of one pool, under its key, and nobody is to  *)
(* close it; that of the main loop is open.                                *)
EntryInv ==
  /\ \A p \in DOMAIN registry : \A i \in DOMAIN registry[p] :
       /\ registry[p][i].s \in DOMAIN sessions
       /\ sessions[registry[p][i].s].key = registry[p][i].key
  /\ \A s \in Entered : sessions[s].loop = Main => sessions[s].open
  /\ \A p, q \in DOMAIN registry : \A i \in DOMAIN registry[p], j \in DOMAIN registry[q] :
       /\ registry[p][i].s = registry[q][j].s => p = q /\ i = j
       /\ p = q /\ registry[p][i].key = registry[q][j].key => i = j
  /\ Entered \cap (Doomed \cup Unregistered) = {}

(* A session that is about to be registered is its maker's alone. *)
MakerInv ==
  /\ \A c \in Calls : call[c].at = "registering" =>
       /\ call[c].s \in DOMAIN sessions
       /\ sessions[call[c].s] = [key |-> call[c].key, loop |-> LoopOf(c), open |-> TRUE]
       /\ \A d \in Calls : call[d].at = "registering" /\ call[d].s = call[c].s => d = c
  /\ Doomed \cap Unregistered = {}

(* Only sessions that were made are to be closed, and a loop of a call's   *)
(* own has sessions once the call began.                                   *)
SessionInv ==
  /\ Doomed \subseteq DOMAIN sessions
  /\ \A s \in DOMAIN sessions :
       sessions[s].loop = Main \/ call[sessions[s].loop].at # "new"

PoolInv == PoolTypes /\ EntryInv /\ MakerInv /\ SessionInv

(* What is left of a sequence without its i-th element. *)
LEMMA Removing ==
  ASSUME NEW S, NEW s \in Seq(S), NEW i \in 1 .. Len(s)
  PROVE  /\ RemoveAt(s, i) \in Seq(S) /\ Len(RemoveAt(s, i)) = Len(s) - 1
         /\ \A j \in 1 .. Len(s) - 1 :
              RemoveAt(s, i)[j] = s[IF j < i THEN j ELSE j + 1]
<1>. DEFINE left == SubSeq(s, 1, i - 1)
            right == SubSeq(s, i + 1, Len(s))
<1>1. /\ left \in Seq(S) /\ Len(left) = i - 1
      /\ \A j \in 1 .. i - 1 : left[j] = s[j]
  OBVIOUS
<1>2. /\ right \in Seq(S) /\ Len(right) = Len(s) - i
      /\ \A j \in 1 .. Len(s) - i : right[j] = s[j + i]
  OBVIOUS
<1>3. RemoveAt(s, i) = left \o right
  BY DEF RemoveAt
<1>. HIDE DEF left, right
<1>4. RemoveAt(s, i) \in Seq(S) /\ Len(RemoveAt(s, i)) = Len(s) - 1
  BY <1>1, <1>2, <1>3
<1>5. ASSUME NEW j \in 1 .. Len(s) - 1
      PROVE  RemoveAt(s, i)[j] = s[IF j < i THEN j ELSE j + 1]
  <2>1. CASE j < i
    BY <1>1, <1>2, <1>3, <2>1
  <2>2. CASE j >= i
    <3>1. (left \o right)[j] = right[j - (i - 1)]
      BY <1>1, <1>2, <2>2
    <3>. QED
      BY <1>2, <1>3, <2>2, <3>1
  <2>. QED
    BY <2>1, <2>2
<1>. QED
  BY <1>4, <1>5

(* The two pieces of a sequence. *)
LEMMA Pieces ==
  ASSUME NEW S, NEW s \in Seq(S), NEW n \in 0 .. Len(s)
  PROVE  /\ SubSeq(s, 1, n) \in Seq(S) /\ Len(SubSeq(s, 1, n)) = n
         /\ \A j \in 1 .. n : SubSeq(s, 1, n)[j] = s[j]
         /\ SubSeq(s, n + 1, Len(s)) \in Seq(S) /\ Len(SubSeq(s, n + 1, Len(s))) = Len(s) - n
         /\ \A j \in 1 .. Len(s) - n : SubSeq(s, n + 1, Len(s))[j] = s[j + n]
OBVIOUS

(* A sequence after another. *)
LEMMA Joined ==
  ASSUME NEW S, NEW s \in Seq(S), NEW t \in Seq(S)
  PROVE  /\ s \o t \in Seq(S) /\ Len(s \o t) = Len(s) + Len(t)
         /\ \A j \in 1 .. Len(s) : (s \o t)[j] = s[j]
         /\ \A j \in 1 .. Len(t) : (s \o t)[Len(s) + j] = t[j]
OBVIOUS

(* A sequence and one more. *)
LEMMA Appended ==
  ASSUME NEW S, NEW s \in Seq(S), NEW e \in S
  PROVE  /\ Append(s, e) \in Seq(S) /\ Len(Append(s, e)) = Len(s) + 1
         /\ \A j \in 1 .. Len(s) : Append(s, e)[j] = s[j]
         /\ Append(s, e)[Len(s) + 1] = e
OBVIOUS

(* The elements of t are elements of s, each in the place that f tells. *)
Places(f, t, s) ==
  /\ f \in [1 .. Len(t) -> 1 .. Len(s)]
  /\ \A i, j \in 1 .. Len(t) : f[i] = f[j] => i = j
  /\ \A i \in 1 .. Len(t) : t[i] = s[f[i]]

(* The elements of u are elements of s in other places than those of t. *)
Apart(f, t, u, s) ==
  \A i \in 1 .. Len(u) : \E k \in 1 .. Len(s) :
    u[i] = s[k] /\ \A j \in 1 .. Len(t) : f[j] # k

(* An element that moves to the end permutes the places. *)
LEMMA MovedLast ==
  ASSUME NEW S, NEW s \in Seq(S), NEW i \in 1 .. Len(s)
  PROVE  /\ Append(RemoveAt(s, i), s[i]) \in Seq(S)
         /\ Len(Append(RemoveAt(s, i), s[i])) = Len(s)
         /\ \E f : Places(f, Append(RemoveAt(s, i), s[i]), s)
<1>. DEFINE n == Len(s)
            left == RemoveAt(s, i)
            moved == Append(left, s[i])
            f == [j \in 1 .. n |-> IF j = n THEN i ELSE IF j < i THEN j ELSE j + 1]
<1>1. n \in Nat /\ i \in 1 .. n /\ s[i] \in S
  OBVIOUS
<1>2. /\ left \in Seq(S) /\ Len(left) = n - 1
      /\ \A j \in 1 .. n - 1 : left[j] = s[IF j < i THEN j ELSE j + 1]
  BY Removing
<1>. HIDE DEF n, left
<1>3. /\ moved \in Seq(S) /\ Len(moved) = n
      /\ \A j \in 1 .. n - 1 : moved[j] = left[j]
      /\ moved[n] = s[i]
  BY <1>1, <1>2, Appended
<1>4. f \in [1 .. n -> 1 .. n] /\ \A j, k \in 1 .. n : f[j] = f[k] => j = k
  BY <1>1
<1>5. \A j \in 1 .. n : f[j] = IF j = n THEN i ELSE IF j < i THEN j ELSE j + 1
  OBVIOUS
<1>. HIDE DEF moved, f
<1>6. \A j \in 1 .. n : moved[j] = s[f[j]]
  <2>1. \A j \in 1 .. n : j # n => j \in 1 .. n - 1
    BY <1>1
  <2>. QED
    BY <1>2, <1>3, <1>5, <2>1
<1>. QED
  <2>1. Places(f, moved, s)
    BY <1>3, <1>4, <1>6 DEF Places, n
  <2>. QED
    BY <1>3, <2>1 DEF moved, left, n

(* The n first of some elements of s join those to drop: what is left and   *)
(* what goes are elements of s in different places.                         *)
LEMMA RoomMade ==
  ASSUME NEW S, NEW s \in Seq(S), NEW others \in Seq(S), NEW stale \in Seq(S),
         NEW n \in 0 .. Len(others), NEW g, Places(g, others, s), Apart(g, others, stale, s)
  PROVE  LET rest == SubSeq(others, n + 1, Len(others))
             gone == stale \o SubSeq(others, 1, n)
         IN  /\ rest \in Seq(S) /\ gone \in Seq(S)
             /\ \E f : Places(f, rest, s) /\ Apart(f, rest, gone, s)
<1>. DEFINE rest == SubSeq(others, n + 1, Len(others))
            first == SubSeq(others, 1, n)
            gone == stale \o first
            f == [j \in 1 .. Len(others) - n |-> g[j + n]]
<1>1. /\ first \in Seq(S) /\ Len(first) = n /\ \A j \in 1 .. n : first[j] = others[j]
      /\ rest \in Seq(S) /\ Len(rest) = Len(others) - n
      /\ \A j \in 1 .. Len(others) - n : rest[j] = others[j + n]
  BY Pieces
<1>. HIDE DEF first, rest
<1>2. /\ gone \in Seq(S) /\ Len(gone) = Len(stale) + n
      /\ \A j \in 1 .. Len(stale) : gone[j] = stale[j]
      /\ \A j \in 1 .. n : gone[Len(stale) + j] = first[j]
  <2>1. /\ gone \in Seq(S) /\ Len(gone) = Len(stale) + Len(first)
        /\ \A j \in 1 .. Len(stale) : gone[j] = stale[j]
        /\ \A j \in 1 .. Len(first) : gone[Len(stale) + j] = first[j]
    <3>1. first \in Seq(S)
      BY <1>1
    <3>. QED
      BY <3>1, Joined
  <2>. QED
    BY <1>1, <2>1
<1>3. Len(others) \in Nat /\ Len(stale) \in Nat /\ Len(s) \in Nat
  OBVIOUS
<1>4. /\ DOMAIN f = 1 .. Len(rest)
      /\ \A j \in 1 .. Len(rest) : j + n \in 1 .. Len(others) /\ f[j] = g[j + n]
  BY <1>1, <1>3
<1>. HIDE DEF gone
<1>5. Places(f, rest, s)
  <2>1. f \in [1 .. Len(rest) -> 1 .. Len(s)]
    BY <1>1, <1>4 DEF Places
  <2>. HIDE DEF f
  <2>2. ASSUME NEW i \in 1 .. Len(rest), NEW j \in 1 .. Len(rest), f[i] = f[j]
        PROVE  i = j
    <3>1. g[i + n] = g[j + n] /\ i + n \in 1 .. Len(others) /\ j + n \in 1 .. Len(others)
      BY <1>4, <2>2
    <3>2. i + n = j + n
      BY <3>1 DEF Places
    <3>. QED
      BY <3>2
  <2>3. ASSUME NEW i \in 1 .. Len(rest)
        PROVE  rest[i] = s[f[i]]
    BY <1>1, <1>4 DEF Places
  <2>. QED
    BY <2>1, <2>2, <2>3 DEF Places
<1>. HIDE DEF f
<1>6. ASSUME NEW i \in 1 .. Len(gone)
      PROVE  \E k \in 1 .. Len(s) : gone[i] = s[k] /\ \A j \in 1 .. Len(rest) : f[j] # k
  <2>1. CASE i <= Len(stale)
    <3>1. i \in 1 .. Len(stale) /\ gone[i] = stale[i]
      BY <1>2, <1>3, <2>1
    <3>2. PICK k \in 1 .. Len(s) :
            stale[i] = s[k] /\ \A j \in 1 .. Len(others) : g[j] # k
      BY <3>1 DEF Apart
    <3>3. \A j \in 1 .. Len(rest) : f[j] # k
      BY <1>4, <3>2
    <3>. QED
      BY <3>1, <3>2, <3>3
  <2>2. CASE i > Len(stale)
    <3>1. i - Len(stale) \in 1 .. n /\ i = Len(stale) + (i - Len(stale))
      BY <1>2, <1>3, <2>2
    <3>2. PICK l \in 1 .. n : i = Len(stale) + l
      BY <3>1
    <3>3. l \in 1 .. Len(others) /\ \A j \in 1 .. Len(rest) : j + n # l
      BY <1>3
    <3>4. gone[i] = others[l]
      BY <1>1, <1>2, <3>2
    <3>5. gone[i] = s[g[l]] /\ g[l] \in 1 .. Len(s)
      BY <3>3, <3>4 DEF Places
    <3>6. ASSUME NEW j \in 1 .. Len(rest)
          PROVE  f[j] # g[l]
      BY <1>4, <3>3 DEF Places
    <3>. QED
      BY <3>5, <3>6
  <2>3. i \in Nat
    BY <1>2, <1>3
  <2>. QED
    BY <1>3, <2>1, <2>2, <2>3
<1>7. Apart(f, rest, gone, s)
  BY <1>6 DEF Apart
<1>. QED
  BY <1>1, <1>2, <1>5, <1>7 DEF rest, gone, first

(* The entries of pool p are some of those it had, in places that f tells. *)
Thins(p, f) ==
  /\ registry' \in Seq(Seq([key : Keys, s : Nat]))
  /\ DOMAIN registry' = DOMAIN registry
  /\ \A q \in DOMAIN registry \ {p} : registry'[q] = registry[q]
  /\ f \in [DOMAIN registry'[p] -> DOMAIN registry[p]]
  /\ \A i, j \in DOMAIN registry'[p] : f[i] = f[j] => i = j
  /\ \A i \in DOMAIN registry'[p] : registry'[p][i] = registry[p][f[i]]

(* Entries that were there stay as good as they were. *)
LEMMA ThinnedEntries ==
  ASSUME PoolInv, NEW p \in DOMAIN registry, NEW f, Thins(p, f), UNCHANGED sessions,
         Entered' \cap (Doomed \cup Unregistered)' = {}
  PROVE  EntryInv' /\ Entered' \subseteq Entered
<1>1. ASSUME NEW q \in DOMAIN registry, NEW i \in DOMAIN registry'[q]
      PROVE  \E k \in DOMAIN registry[q] : /\ registry'[q][i] = registry[q][k]
                                            /\ k = IF q = p THEN f[i] ELSE i
  BY DEF Thins
<1>2. Entered' \subseteq Entered
  BY <1>1 DEF Thins, Entered
<1>3. ASSUME NEW q \in DOMAIN registry, NEW i \in DOMAIN registry'[q]
      PROVE  /\ registry'[q][i].s \in DOMAIN sessions
             /\ sessions[registry'[q][i].s].key = registry'[q][i].key
  BY <1>1 DEF PoolInv, EntryInv
<1>4. \A s \in Entered' : sessions[s].loop = Main => sessions[s].open
  BY <1>2 DEF PoolInv, EntryInv
<1>5. ASSUME NEW q \in DOMAIN registry, NEW r \in DOMAIN registry,
             NEW i \in DOMAIN registry'[q], NEW j \in DOMAIN registry'[r]
      PROVE  /\ registry'[q][i].s = registry'[r][j].s => q = r /\ i = j
             /\ q = r /\ registry'[q][i].key = registry'[r][j].key => i = j
  <2>1. PICK k \in DOMAIN registry[q] : /\ registry'[q][i] = registry[q][k]
                                        /\ k = IF q = p THEN f[i] ELSE i
    BY <1>1
  <2>2. PICK l \in DOMAIN registry[r] : /\ registry'[r][j] = registry[r][l]
                                        /\ l = IF r = p THEN f[j] ELSE j
    BY <1>1
  <2>3. /\ registry[q][k].s = registry[r][l].s => q = r /\ k = l
        /\ q = r /\ registry[q][k].key = registry[r][l].key => k = l
    BY DEF PoolInv, EntryInv
  <2>4. q = r /\ k = l => i = j
    BY <2>1, <2>2 DEF Thins
  <2>. QED
    BY <2>1, <2>2, <2>3, <2>4
<1>6. DOMAIN registry' = DOMAIN registry
  BY DEF Thins
<1>. QED
  BY <1>2, <1>3, <1>4, <1>5, <1>6 DEF EntryInv

(* Entries that left the pool are entries no more. *)
LEMMA GoneEntries ==
  ASSUME PoolInv, NEW p \in DOMAIN registry, NEW f, Thins(p, f),
         NEW k \in DOMAIN registry[p], \A j \in DOMAIN registry'[p] : f[j] # k
  PROVE  registry[p][k].s \notin Entered'
<1>1. SUFFICES ASSUME NEW q \in DOMAIN registry, NEW j \in DOMAIN registry'[q],
                      registry'[q][j].s = registry[p][k].s
               PROVE  FALSE
  BY DEF Entered, Thins
<1>2. CASE q = p
  <2>1. registry[p][f[j]].s = registry[p][k].s /\ f[j] \in DOMAIN registry[p]
    BY <1>1, <1>2 DEF Thins
  <2>. QED
    BY <1>2, <2>1 DEF PoolInv, EntryInv
<1>3. CASE q # p
  <2>1. registry'[q] = registry[q]
    BY <1>3 DEF Thins
  <2>. QED
    BY <1>1, <1>3, <2>1 DEF PoolInv, EntryInv
<1>. QED
  BY <1>2, <1>3

(* A pool's entries, and those of the others, after a step on that pool. *)
LEMMA PoolStep ==
  ASSUME PoolInv, NEW p \in DOMAIN registry, NEW entries \in Seq([key : Keys, s : Nat]),
         registry' = [registry EXCEPT ![p] = entries]
  PROVE  /\ registry' \in Seq(Seq([key : Keys, s : Nat])) /\ DOMAIN registry' = DOMAIN registry
         /\ registry'[p] = entries /\ \A q \in DOMAIN registry \ {p} : registry'[q] = registry[q]
<1>. DEFINE E == Seq([key : Keys, s : Nat])
<1>1. registry \in Seq(E) /\ entries \in E
  BY DEF PoolInv, PoolTypes
<1>. HIDE DEF E
<1>2. registry' \in Seq(E) /\ DOMAIN registry' = DOMAIN registry
  BY <1>1
<1>3. registry'[p] = entries /\ \A q \in DOMAIN registry \ {p} : registry'[q] = registry[q]
  BY <1>1
<1>. QED
  BY <1>2, <1>3 DEF E

(* The entries of a pool. *)
LEMMA EntriesTyped ==
  ASSUME PoolInv, NEW p \in DOMAIN registry
  PROVE  /\ registry[p] \in Seq([key : Keys, s : Nat])
         /\ DOMAIN registry[p] = 1 .. Len(registry[p]) /\ Len(registry[p]) \in Nat
         /\ \A i \in DOMAIN registry[p] : registry[p][i] \in [key : Keys, s : Nat]
<1>. DEFINE E == [key : Keys, s : Nat]
            F == Seq(E)
<1>1. registry \in Seq(F)
  BY DEF PoolInv, PoolTypes
<1>. HIDE DEF F
<1>2. registry[p] \in F
  BY <1>1
<1>. HIDE DEF E
<1>3. /\ registry[p] \in Seq(E)
      /\ DOMAIN registry[p] = 1 .. Len(registry[p]) /\ Len(registry[p]) \in Nat
      /\ \A i \in DOMAIN registry[p] : registry[p][i] \in E
  BY <1>2 DEF F
<1>. QED
  BY <1>3 DEF E

(* A step of a call is that call's alone. *)
LEMMA CallStep ==
  ASSUME PoolTypes, NEW c \in Calls, NEW v, call' = [call EXCEPT ![c] = v]
  PROVE  DOMAIN call' = Calls /\ \A d \in Calls : call'[d] = IF d = c THEN v ELSE call[d]
BY DEF PoolTypes

(* What a step of a call adds to the sessions to close and to register. *)
LEMMA CallSessions ==
  ASSUME PoolTypes, NEW c \in Calls, NEW v, call' = [call EXCEPT ![c] = v], UNCHANGED closing
  PROVE  /\ Doomed' \subseteq Doomed \cup (IF v.at = "opening" THEN ToSet(v.toClose) ELSE {})
         /\ Unregistered' \subseteq Unregistered \cup (IF v.at = "registering" THEN {v.s} ELSE {})
<1>1. \A d \in Calls : call'[d] = IF d = c THEN v ELSE call[d]
  BY CallStep
<1>2. Doomed' \subseteq Doomed \cup (IF v.at = "opening" THEN ToSet(v.toClose) ELSE {})
  BY <1>1 DEF Doomed
<1>. QED
  BY <1>1, <1>2 DEF Unregistered

(* A pool whose new entries are old ones in places of their own. *)
LEMMA PoolThins ==
  ASSUME PoolInv, NEW p \in DOMAIN registry, NEW entries \in Seq([key : Keys, s : Nat]),
         registry' = [registry EXCEPT ![p] = entries], NEW f, Places(f, entries, registry[p])
  PROVE  Thins(p, f)
<1>1. /\ registry' \in Seq(Seq([key : Keys, s : Nat])) /\ DOMAIN registry' = DOMAIN registry
      /\ registry'[p] = entries /\ \A q \in DOMAIN registry \ {p} : registry'[q] = registry[q]
  BY PoolStep
<1>2. DOMAIN registry'[p] = 1 .. Len(entries) /\ DOMAIN registry[p] = 1 .. Len(registry[p])
  BY <1>1, EntriesTyped
<1>. QED
  BY <1>1, <1>2 DEF Thins, Places

(* On a hit the entries are the same in another order. *)
LEMMA ReuseThins ==
  ASSUME PoolInv, NEW p \in DOMAIN registry, NEW i \in DOMAIN registry[p],
         registry' = [registry EXCEPT ![p] = Append(RemoveAt(@, i), @[i])]
  PROVE  \E f : Thins(p, f)
<1>. DEFINE E == [key : Keys, s : Nat]
            moved == Append(RemoveAt(registry[p], i), registry[p][i])
<1>1. registry[p] \in Seq(E) /\ i \in 1 .. Len(registry[p])
  BY EntriesTyped
<1>. HIDE DEF E
<1>2. moved \in Seq(E) /\ \E f : Places(f, moved, registry[p])
  BY <1>1, MovedLast
<1>3. registry' = [registry EXCEPT ![p] = moved]
  OBVIOUS
<1>. HIDE DEF moved
<1>. QED
  BY <1>2, <1>3, PoolThins DEF E

(* Room is made by entries that go: the others of a pool, in the places g   *)
(* tells, but for the oldest, keep their order.                             *)
LEMMA RoomThins ==
  ASSUME PoolInv, NEW c \in Calls, NEW p \in DOMAIN registry, NEW key \in Keys,
         NEW others \in Seq([key : Keys, s : Nat]), NEW stale \in Seq([key : Keys, s : Nat]),
         NEW g, Places(g, others, registry[p]), Apart(g, others, stale, registry[p]),
         MakeRoom(c, p, key, others, stale)
  PROVE  \E f, toClose :
           /\ Thins(p, f) /\ toClose \in Seq(Nat)
           /\ call' = [call EXCEPT ![c] =
                         [at |-> "opening", pool |-> p, key |-> key, toClose |-> toClose]]
           /\ ToSet(toClose) \cap Entered' = {}
           /\ ToSet(toClose) \subseteq Entered
<1>. DEFINE E == [key : Keys, s : Nat]
            n == IF Len(others) >= MaxSessions THEN Len(others) - MaxSessions + 1 ELSE 0
            rest == SubSeq(others, n + 1, Len(others))
            gone == stale \o SubSeq(others, 1, n)
            toClose == [i \in DOMAIN gone |-> gone[i].s]
<1>1. n \in 0 .. Len(others)
  BY PoolAssumption
<1>2. /\ registry' = [registry EXCEPT ![p] = rest]
      /\ call' = [call EXCEPT ![c] =
                    [at |-> "opening", pool |-> p, key |-> key, toClose |-> toClose]]
  BY DEF MakeRoom
<1>3. /\ registry[p] \in Seq(E) /\ others \in Seq(E) /\ stale \in Seq(E)
      /\ DOMAIN registry[p] = 1 .. Len(registry[p])
  BY EntriesTyped
<1>. HIDE DEF n, E
<1>4. /\ rest \in Seq(E) /\ gone \in Seq(E)
      /\ \E f : Places(f, rest, registry[p]) /\ Apart(f, rest, gone, registry[p])
  BY <1>1, <1>3, RoomMade
<1>. HIDE DEF rest, gone
<1>5. PICK f : Places(f, rest, registry[p]) /\ Apart(f, rest, gone, registry[p])
  BY <1>4
<1>6. Thins(p, f)
  BY <1>2, <1>4, <1>5, PoolThins DEF E
<1>7. /\ toClose \in Seq(Nat) /\ DOMAIN toClose = 1 .. Len(gone)
      /\ \A i \in 1 .. Len(gone) : toClose[i] = gone[i].s
  <2>1. DOMAIN gone = 1 .. Len(gone) /\ Len(gone) \in Nat
    BY <1>4
  <2>2. \A i \in 1 .. Len(gone) : gone[i] \in E
    BY <1>4
  <2>3. toClose \in [1 .. Len(gone) -> Nat]
    BY <2>1, <2>2 DEF E
  <2>. QED
    BY <2>1, <2>3
<1>. HIDE DEF toClose
<1>8. ASSUME NEW s \in ToSet(toClose)
      PROVE  s \notin Entered' /\ s \in Entered
  <2>1. PICK i \in DOMAIN toClose : s = toClose[i]
    BY <1>8 DEF ToSet
  <2>2. i \in 1 .. Len(gone) /\ s = gone[i].s
    BY <1>7, <2>1
  <2>3. PICK k \in 1 .. Len(registry[p]) :
          gone[i] = registry[p][k] /\ \A j \in 1 .. Len(rest) : f[j] # k
    BY <1>5, <2>2 DEF Apart
  <2>4. DOMAIN registry'[p] = 1 .. Len(rest)
    <3>1. registry'[p] = rest
      BY <1>2, <1>4, PoolStep DEF E
    <3>. QED
      BY <1>4, <3>1
  <2>5. registry[p][k].s \notin Entered'
    BY <1>3, <1>6, <2>3, <2>4, GoneEntries
  <2>. QED
    BY <1>3, <2>2, <2>3, <2>5 DEF Entered
<1>. QED
  BY <1>2, <1>6, <1>7, <1>8

(* A call that is not made, or over, or has a session, or makes one. *)
CallShape(v) ==
  \/ v = [at |-> "done"]
  \/ v \in [at : {"using"}, key : Keys, s : Nat]
  \/ v \in [at : {"registering"}, pool : DOMAIN registry, key : Keys, s : Nat]
  \/ v \in [at : {"opening"}, pool : DOMAIN registry, key : Keys, toClose : Seq(Nat)]

(* The types after a step of a call. *)
LEMMA CallTyped ==
  ASSUME PoolTypes, NEW c \in Calls, NEW v, CallShape(v), call' = [call EXCEPT ![c] = v],
         DOMAIN registry' = DOMAIN registry,
         registry' \in Seq(Seq([key : Keys, s : Nat])),
         sessions' \in Seq([key : Keys, loop : Calls \cup {Main}, open : BOOLEAN])
  PROVE  PoolTypes'
<1>1. DOMAIN call' = Calls /\ \A d \in Calls : call'[d] = IF d = c THEN v ELSE call[d]
  BY CallStep
<1>2. ASSUME NEW d \in Calls
      PROVE  \/ call'[d] = NotMade
             \/ call'[d] = [at |-> "done"]
             \/ call'[d] \in [at : {"using"}, key : Keys, s : Nat]
             \/ call'[d] \in [at : {"registering"}, pool : DOMAIN registry', key : Keys, s : Nat]
             \/ call'[d] \in [at : {"opening"}, pool : DOMAIN registry', key : Keys, toClose : Seq(Nat)]
  <2>1. CASE d = c
    BY <1>1, <2>1 DEF CallShape
  <2>2. CASE d # c
    <3>1. call'[d] = call[d]
      BY <1>1, <2>2
    <3>. QED
      BY <3>1 DEF PoolTypes
  <2>. QED
    BY <2>1, <2>2
<1>. QED
  BY <1>1, <1>2 DEF PoolTypes

(* The sessions' types. *)
LEMMA SessionTyped ==
  ASSUME PoolTypes, NEW s \in DOMAIN sessions
  PROVE  sessions[s] \in [key : Keys, loop : Calls \cup {Main}, open : BOOLEAN]
<1>. DEFINE E == [key : Keys, loop : Calls \cup {Main}, open : BOOLEAN]
<1>1. sessions \in Seq(E)
  BY DEF PoolTypes
<1>. HIDE DEF E
<1>2. sessions[s] \in E
  BY <1>1
<1>. QED
  BY <1>2 DEF E

(* A pool's sessions were made. *)
LEMMA EnteredMade ==
  ASSUME PoolInv
  PROVE  Entered \subseteq DOMAIN sessions
BY DEF PoolInv, EntryInv, Entered

(* get_session keeps the invariant: the entries are thinned, and what the  *)
(* call is to close they lost.                                             *)
LEMMA GetSessionKeeps ==
  ASSUME PoolInv, NEW c \in Calls, NEW p \in DOMAIN registry, NEW f, Thins(p, f),
         NEW v, CallShape(v), v.at \in {"using", "opening"}, call' = [call EXCEPT ![c] = v],
         UNCHANGED <<sessions, closing>>,
         v.at = "opening" => ToSet(v.toClose) \subseteq Entered /\ ToSet(v.toClose) \cap Entered' = {}
  PROVE  PoolInv'
<1>1. DOMAIN call' = Calls /\ \A d \in Calls : call'[d] = IF d = c THEN v ELSE call[d]
  BY CallStep DEF PoolInv
<1>2. /\ Doomed' \subseteq Doomed \cup (IF v.at = "opening" THEN ToSet(v.toClose) ELSE {})
      /\ Unregistered' \subseteq Unregistered
  <2>1. Unregistered' \subseteq Unregistered \cup (IF v.at = "registering" THEN {v.s} ELSE {})
    BY CallSessions DEF PoolInv
  <2>. QED
    BY <2>1, CallSessions DEF PoolInv
<1>3. PoolTypes'
  <2>1. /\ DOMAIN registry' = DOMAIN registry
        /\ registry' \in Seq(Seq([key : Keys, s : Nat]))
    BY DEF Thins
  <2>2. sessions' \in Seq([key : Keys, loop : Calls \cup {Main}, open : BOOLEAN])
    BY DEF PoolInv, PoolTypes
  <2>. QED
    BY <2>1, <2>2, CallTyped DEF PoolInv
<1>4. EntryInv'
  <2>1. Entered' \subseteq Entered
    <3>1. \A q \in DOMAIN registry : \A i \in DOMAIN registry'[q] :
            \E k \in DOMAIN registry[q] : registry'[q][i] = registry[q][k]
      <4>1. ASSUME NEW q \in DOMAIN registry, NEW i \in DOMAIN registry'[q]
            PROVE  \E k \in DOMAIN registry[q] : registry'[q][i] = registry[q][k]
        <5>1. CASE q = p
          BY <5>1 DEF Thins
        <5>2. CASE q # p
          BY <5>2 DEF Thins
        <5>. QED
          BY <5>1, <5>2
      <4>. QED
        BY <4>1
    <3>. QED
      BY <3>1 DEF Thins, Entered
  <2>2. Entered' \cap (Doomed \cup Unregistered)' = {}
    BY <1>2, <2>1 DEF PoolInv, EntryInv
  <2>. QED
    BY <2>2, ThinnedEntries
<1>5. MakerInv'
  <2>1. (Doomed \cap Unregistered)' = {}
    BY <1>2 DEF PoolInv, EntryInv, MakerInv
  <2>. QED
    BY <1>1, <2>1 DEF PoolInv, MakerInv
<1>6. SessionInv'
  <2>1. Doomed' \subseteq DOMAIN sessions'
    BY <1>2, EnteredMade DEF PoolInv, SessionInv
  <2>2. ASSUME NEW s \in DOMAIN sessions
        PROVE  sessions[s].loop = Main \/ call'[sessions[s].loop].at # "new"
    <3>1. sessions[s].loop \in Calls \cup {Main}
      BY SessionTyped DEF PoolInv
    <3>. QED
      BY <1>1, <3>1 DEF PoolInv, SessionInv
  <2>. QED
    BY <2>1, <2>2 DEF SessionInv
<1>. QED
  BY <1>3, <1>4, <1>5, <1>6 DEF PoolInv

(* To close sessions keeps the invariant, but for those of the main loop   *)
(* that are in a pool and those that their makers hold.                    *)
LEMMA ClosingKeeps ==
  ASSUME PoolInv, PoolTypes', UNCHANGED registry, Doomed' \subseteq Doomed,
         \A d \in Calls : call'[d].at \in {"registering", "new"} => call'[d] = call[d],
         DOMAIN sessions' = DOMAIN sessions,
         \A s \in DOMAIN sessions :
            sessions'[s].key = sessions[s].key /\ sessions'[s].loop = sessions[s].loop,
         \A s \in Entered : sessions[s].loop = Main => sessions'[s] = sessions[s],
         \A d \in Calls : call'[d].at = "registering" => sessions'[call[d].s] = sessions[call[d].s]
  PROVE  PoolInv'
<1>1. Entered' = Entered
  BY DEF Entered
<1>2. Unregistered' \subseteq Unregistered
  BY DEF Unregistered
<1>3. EntryInv'
  <2>1. \A s \in Entered : sessions'[s].loop = Main => sessions'[s].open
    BY EnteredMade DEF PoolInv, EntryInv
  <2>2. Entered \cap (Doomed \cup Unregistered)' = {}
    BY <1>2 DEF PoolInv, EntryInv
  <2>3. ASSUME NEW p \in DOMAIN registry, NEW i \in DOMAIN registry[p]
        PROVE  /\ registry[p][i].s \in DOMAIN sessions'
               /\ sessions'[registry[p][i].s].key = registry[p][i].key
    BY DEF PoolInv, EntryInv
  <2>4. \A p, q \in DOMAIN registry : \A i \in DOMAIN registry[p], j \in DOMAIN registry[q] :
          /\ registry[p][i].s = registry[q][j].s => p = q /\ i = j
          /\ p = q /\ registry[p][i].key = registry[q][j].key => i = j
    BY DEF PoolInv, EntryInv
  <2>. QED
    BY <1>1, <2>1, <2>2, <2>3, <2>4 DEF EntryInv
<1>4. MakerInv'
  <2>1. (Doomed \cap Unregistered)' = {}
    BY <1>2 DEF PoolInv, MakerInv
  <2>. QED
    BY <2>1 DEF PoolInv, MakerInv
<1>5. SessionInv'
  <2>1. ASSUME NEW s \in DOMAIN sessions
        PROVE  sessions'[s].loop = Main \/ call'[sessions'[s].loop].at # "new"
    <3>1. sessions[s].loop \in Calls \cup {Main}
      BY SessionTyped DEF PoolInv
    <3>. QED
      BY <3>1 DEF PoolInv, SessionInv
  <2>. QED
    BY <2>1 DEF PoolInv, SessionInv
<1>. QED
  BY <1>3, <1>4, <1>5 DEF PoolInv

(* A hit: a session of the caller's key and loop, and a new order. *)
LEMMA ReuseKeeps ==
  ASSUME PoolInv, NEW c \in Calls, NEW p \in DOMAIN registry, NEW key \in Keys,
         Reuse(c, p, key), UNCHANGED <<sessions, closing>>
  PROVE  PoolInv'
<1>1. PICK i \in DOMAIN registry[p] :
        /\ registry' = [registry EXCEPT ![p] = Append(RemoveAt(@, i), @[i])]
        /\ call' = [call EXCEPT ![c] = [at |-> "using", key |-> key, s |-> registry[p][i].s]]
  BY DEF Reuse, EntriesOf
<1>2. PICK f : Thins(p, f)
  BY <1>1, ReuseThins
<1>. DEFINE v == [at |-> "using", key |-> key, s |-> registry[p][i].s]
<1>3. CallShape(v) /\ v.at = "using"
  <2>1. registry[p][i].s \in Nat
    BY EntriesTyped
  <2>. QED
    BY <2>1 DEF CallShape
<1>4. call' = [call EXCEPT ![c] = v]
  BY <1>1
<1>. HIDE DEF v
<1>. QED
  BY <1>2, <1>3, <1>4, GetSessionKeeps

(* A miss without an entry of the key: the pool's own entries make room. *)
LEMMA AllOthers ==
  ASSUME NEW S, NEW s \in Seq(S)
  PROVE  \E g : Places(g, s, s) /\ Apart(g, s, << >>, s)
<1>. DEFINE g == [i \in 1 .. Len(s) |-> i]
<1>1. Places(g, s, s)
  BY DEF Places
<1>2. Apart(g, s, << >>, s)
  BY DEF Apart
<1>. QED
  BY <1>1, <1>2

(* A miss with one: the others make room. *)
LEMMA OthersThan ==
  ASSUME NEW S, NEW s \in Seq(S), NEW i \in 1 .. Len(s)
  PROVE  /\ RemoveAt(s, i) \in Seq(S) /\ <<s[i]>> \in Seq(S)
         /\ \E g : Places(g, RemoveAt(s, i), s) /\ Apart(g, RemoveAt(s, i), <<s[i]>>, s)
<1>. DEFINE left == RemoveAt(s, i)
            g == [j \in 1 .. Len(s) - 1 |-> IF j < i THEN j ELSE j + 1]
<1>1. /\ left \in Seq(S) /\ Len(left) = Len(s) - 1
      /\ \A j \in 1 .. Len(s) - 1 : left[j] = s[IF j < i THEN j ELSE j + 1]
  BY Removing
<1>2. Len(s) \in Nat /\ s[i] \in S
  OBVIOUS
<1>. HIDE DEF left
<1>3. \A j \in 1 .. Len(s) - 1 : g[j] = IF j < i THEN j ELSE j + 1
  OBVIOUS
<1>4. g \in [1 .. Len(left) -> 1 .. Len(s)]
  BY <1>1, <1>2
<1>. HIDE DEF g
<1>5. Places(g, left, s)
  <2>1. \A j, k \in 1 .. Len(left) : g[j] = g[k] => j = k
    BY <1>1, <1>2, <1>3
  <2>2. \A j \in 1 .. Len(left) : left[j] = s[g[j]]
    BY <1>1, <1>3
  <2>. QED
    BY <1>4, <2>1, <2>2 DEF Places
<1>6. Apart(g, left, <<s[i]>>, s)
  <2>1. \A j \in 1 .. Len(left) : g[j] # i
    BY <1>1, <1>2, <1>3
  <2>2. Len(<<s[i]>>) = 1 /\ <<s[i]>>[1] = s[i]
    OBVIOUS
  <2>3. ASSUME NEW j \in 1 .. Len(<<s[i]>>)
        PROVE  <<s[i]>>[j] = s[i]
    BY <2>2
  <2>. QED
    BY <2>1, <2>3 DEF Apart
<1>. QED
  BY <1>1, <1>2, <1>5, <1>6 DEF left

(* What a miss does, whichever it is. *)
LEMMA EvictKeeps ==
  ASSUME PoolInv, NEW c \in Calls, NEW p \in DOMAIN registry, NEW key \in Keys,
         Evict(c, p, key), UNCHANGED <<sessions, closing>>
  PROVE  PoolInv'
<1>. DEFINE E == [key : Keys, s : Nat]
<1>1. registry[p] \in Seq(E) /\ DOMAIN registry[p] = 1 .. Len(registry[p])
  BY EntriesTyped
<1>. HIDE DEF E
<1>2. \E others, stale \in Seq(E) :
        /\ \E g : Places(g, others, registry[p]) /\ Apart(g, others, stale, registry[p])
        /\ MakeRoom(c, p, key, others, stale)
  <2>1. CASE MakeRoom(c, p, key, registry[p], << >>)
    <3>1. << >> \in Seq(E)
      OBVIOUS
    <3>. QED
      BY <1>1, <2>1, <3>1, AllOthers
  <2>2. ASSUME NEW i \in DOMAIN registry[p],
               MakeRoom(c, p, key, RemoveAt(registry[p], i), <<registry[p][i]>>)
        PROVE  \E others, stale \in Seq(E) :
                 /\ \E g : Places(g, others, registry[p]) /\ Apart(g, others, stale, registry[p])
                 /\ MakeRoom(c, p, key, others, stale)
    <3>1. i \in 1 .. Len(registry[p])
      BY <1>1
    <3>. QED
      BY <1>1, <2>2, <3>1, OthersThan
  <2>. QED
    BY <2>1, <2>2 DEF Evict
<1>3. PICK others \in Seq(E), stale \in Seq(E) :
        /\ \E g : Places(g, others, registry[p]) /\ Apart(g, others, stale, registry[p])
        /\ MakeRoom(c, p, key, others, stale)
  BY <1>2
<1>7. PICK g : Places(g, others, registry[p]) /\ Apart(g, others, stale, registry[p])
  BY <1>3
<1>4. PICK f, toClose :
        /\ Thins(p, f) /\ toClose \in Seq(Nat)
        /\ call' = [call EXCEPT ![c] =
                      [at |-> "opening", pool |-> p, key |-> key, toClose |-> toClose]]
        /\ ToSet(toClose) \cap Entered' = {}
        /\ ToSet(toClose) \subseteq Entered
  BY <1>3, <1>7, RoomThins DEF E
<1>. DEFINE v == [at |-> "opening", pool |-> p, key |-> key, toClose |-> toClose]
<1>5. CallShape(v) /\ v.at = "opening" /\ v.toClose = toClose
  BY <1>4 DEF CallShape
<1>6. call' = [call EXCEPT ![c] = v]
  BY <1>4
<1>. HIDE DEF v
<1>. QED
  BY <1>4, <1>5, <1>6, GetSessionKeeps

(* What a step that may close session s does to the sessions. *)
LEMMA SessionClosed ==
  ASSUME PoolTypes, NEW s \in DOMAIN sessions, sessions' = Closed(s) \/ UNCHANGED sessions
  PROVE  /\ sessions' \in Seq([key : Keys, loop : Calls \cup {Main}, open : BOOLEAN])
         /\ DOMAIN sessions' = DOMAIN sessions
         /\ \A t \in DOMAIN sessions :
              sessions'[t].key = sessions[t].key /\ sessions'[t].loop = sessions[t].loop
         /\ \A t \in DOMAIN sessions : t # s => sessions'[t] = sessions[t]
<1>. DEFINE E == [key : Keys, loop : Calls \cup {Main}, open : BOOLEAN]
            shut == [sessions[s] EXCEPT !.open = FALSE]
<1>1. sessions \in Seq(E)
  BY DEF PoolTypes
<1>2. CASE UNCHANGED sessions
  BY <1>1, <1>2
<1>3. CASE sessions' = Closed(s)
  <2>1. sessions' = [sessions EXCEPT ![s] = shut]
    BY <1>3 DEF Closed
  <2>2. shut \in E /\ shut.key = sessions[s].key /\ shut.loop = sessions[s].loop
    BY SessionTyped
  <2>. HIDE DEF shut, E
  <2>3. sessions' \in Seq(E) /\ DOMAIN sessions' = DOMAIN sessions
    BY <1>1, <2>1, <2>2
  <2>4. \A t \in DOMAIN sessions : sessions'[t] = IF t = s THEN shut ELSE sessions[t]
    BY <1>1, <2>1
  <2>. QED
    BY <2>2, <2>3, <2>4 DEF E
<1>. QED
  BY <1>2, <1>3

(* A session that nobody is to close any more was to be closed. *)
LEMMA CloseEvictedKeeps ==
  ASSUME PoolInv, NEW c \in Calls, CloseEvicted(c)
  PROVE  PoolInv'
<1>. DEFINE s == Head(call[c].toClose)
            v == [call[c] EXCEPT !.toClose = Tail(@)]
<1>1. /\ call[c] \in [at : {"opening"}, pool : DOMAIN registry, key : Keys, toClose : Seq(Nat)]
      /\ call[c].toClose # << >>
  BY DEF PoolInv, PoolTypes, CloseEvicted, NotMade
<1>2. /\ v \in [at : {"opening"}, pool : DOMAIN registry, key : Keys, toClose : Seq(Nat)]
      /\ v.toClose = Tail(call[c].toClose)
  <2>1. Tail(call[c].toClose) \in Seq(Nat)
    BY <1>1
  <2>. DEFINE rest == Tail(call[c].toClose)
  <2>2. v = [call[c] EXCEPT !.toClose = rest]
    OBVIOUS
  <2>. HIDE DEF rest, v
  <2>3. rest \in Seq(Nat)
    BY <2>1 DEF rest
  <2>. QED
    BY <1>1, <2>2, <2>3 DEF rest
<1>3. ToSet(v.toClose) \subseteq ToSet(call[c].toClose) /\ s \in ToSet(call[c].toClose)
  <2>1. ASSUME NEW q \in Seq(Nat), q # << >>
        PROVE  ToSet(Tail(q)) \subseteq ToSet(q) /\ Head(q) \in ToSet(q)
    BY <2>1 DEF ToSet
  <2>. QED
    BY <1>1, <1>2, <2>1
<1>4. call' = [call EXCEPT ![c] = v] /\ UNCHANGED <<registry, closing>>
  BY DEF CloseEvicted
<1>5. s \in Doomed
  BY <1>1, <1>3 DEF Doomed
<1>6. s \in DOMAIN sessions /\ s \notin Entered /\ s \notin Unregistered
  BY <1>5 DEF PoolInv, SessionInv, EntryInv, MakerInv
<1>7. sessions' = Closed(s) \/ UNCHANGED sessions
  BY DEF CloseEvicted
<1>. HIDE DEF s, v
<1>8. \A d \in Calls : call'[d] = IF d = c THEN v ELSE call[d]
  BY <1>4, CallStep DEF PoolInv
<1>9. Doomed' \subseteq Doomed
  <2>1. Doomed' \subseteq Doomed \cup (IF v.at = "opening" THEN ToSet(v.toClose) ELSE {})
    BY <1>4, CallSessions DEF PoolInv
  <2>2. ToSet(call[c].toClose) \subseteq Doomed
    BY <1>1 DEF Doomed
  <2>. QED
    BY <1>2, <1>3, <2>1, <2>2
<1>10. /\ sessions' \in Seq([key : Keys, loop : Calls \cup {Main}, open : BOOLEAN])
       /\ DOMAIN sessions' = DOMAIN sessions
       /\ \A t \in DOMAIN sessions :
            sessions'[t].key = sessions[t].key /\ sessions'[t].loop = sessions[t].loop
       /\ \A t \in DOMAIN sessions : t # s => sessions'[t] = sessions[t]
  BY <1>6, <1>7, SessionClosed DEF PoolInv
<1>11. PoolTypes'
  BY <1>2, <1>4, <1>10, CallTyped DEF PoolInv, PoolTypes, CallShape
<1>12. \A t \in Entered : sessions'[t] = sessions[t]
  BY <1>6, <1>10, EnteredMade
<1>13. \A d \in Calls : call'[d].at = "registering" => sessions'[call[d].s] = sessions[call[d].s]
  <2>1. ASSUME NEW d \in Calls, call'[d].at = "registering"
        PROVE  sessions'[call[d].s] = sessions[call[d].s]
    <3>1. call[d].at = "registering"
      BY <1>2, <1>8, <2>1
    <3>2. call[d].s \in Unregistered /\ call[d].s \in DOMAIN sessions
      BY <3>1 DEF PoolInv, MakerInv, Unregistered
    <3>. QED
      BY <1>6, <1>10, <3>2
  <2>. QED
    BY <2>1
<1>14. \A d \in Calls : call'[d].at \in {"registering", "new"} => call'[d] = call[d]
  BY <1>2, <1>8
<1>. QED
  BY <1>4, <1>9, <1>10, <1>11, <1>12, <1>13, <1>14, ClosingKeeps

(* The loop of a call's sessions closes them, and its call is over. *)
LEMMA EndCallKeeps ==
  ASSUME PoolInv, NEW c \in Calls, EndCall(c)
  PROVE  PoolInv'
<1>. DEFINE v == [at |-> "done"]
            E == [key : Keys, loop : Calls \cup {Main}, open : BOOLEAN]
            ends(s) == IF sessions[s].loop = c
                         THEN [sessions[s] EXCEPT !.open = FALSE] ELSE sessions[s]
<1>1. /\ call' = [call EXCEPT ![c] = v] /\ UNCHANGED <<registry, closing>>
      /\ sessions' = [s \in DOMAIN sessions |-> ends(s)]
  BY DEF EndCall
<1>2. sessions \in Seq(E)
  BY DEF PoolInv, PoolTypes
<1>3. \A s \in DOMAIN sessions :
        /\ ends(s) \in E /\ ends(s).key = sessions[s].key /\ ends(s).loop = sessions[s].loop
        /\ sessions[s].loop # c => ends(s) = sessions[s]
  BY SessionTyped DEF PoolInv
<1>. HIDE DEF ends, E
<1>4. /\ sessions' \in Seq(E) /\ DOMAIN sessions' = DOMAIN sessions
      /\ \A s \in DOMAIN sessions : sessions'[s] = ends(s)
  <2>1. DOMAIN sessions = 1 .. Len(sessions) /\ Len(sessions) \in Nat
    BY <1>2
  <2>2. sessions' \in [1 .. Len(sessions) -> E]
    BY <1>1, <1>3, <2>1
  <2>. QED
    BY <1>1, <2>1, <2>2
<1>5. \A d \in Calls : call'[d] = IF d = c THEN v ELSE call[d]
  BY <1>1, CallStep DEF PoolInv
<1>6. PoolTypes'
  <2>1. CallShape(v)
    BY DEF CallShape
  <2>. HIDE DEF v
  <2>2. registry' \in Seq(Seq([key : Keys, s : Nat])) /\ DOMAIN registry' = DOMAIN registry
    BY <1>1 DEF PoolInv, PoolTypes
  <2>. QED
    BY <1>1, <1>4, <2>1, <2>2, CallTyped DEF PoolInv, E
<1>7. Doomed' \subseteq Doomed
  <2>1. Doomed' \subseteq Doomed \cup (IF v.at = "opening" THEN ToSet(v.toClose) ELSE {})
    <3>. HIDE DEF v
    <3>. QED
      BY <1>1, CallSessions DEF PoolInv
  <2>. QED
    BY <2>1
<1>8. \A s \in Entered : sessions[s].loop = Main => sessions'[s] = sessions[s]
  BY <1>3, <1>4, EnteredMade, PoolAssumption
<1>9. ASSUME NEW d \in Calls, call'[d].at = "registering"
      PROVE  sessions'[call[d].s] = sessions[call[d].s]
  <2>1. d # c /\ call[d].at = "registering"
    BY <1>5, <1>9
  <2>2. call[d].s \in DOMAIN sessions /\ sessions[call[d].s].loop = LoopOf(d)
    <3>1. /\ call[d].s \in DOMAIN sessions
          /\ sessions[call[d].s] = [key |-> call[d].key, loop |-> LoopOf(d), open |-> TRUE]
      BY <2>1 DEF PoolInv, MakerInv
    <3>. QED
      BY <3>1
  <2>3. LoopOf(d) # c
    BY <2>1, PoolAssumption DEF LoopOf
  <2>. QED
    BY <1>3, <1>4, <2>2, <2>3
<1>10. \A d \in Calls : call'[d].at \in {"registering", "new"} => call'[d] = call[d]
  BY <1>5
<1>11. \A s \in DOMAIN sessions :
         sessions'[s].key = sessions[s].key /\ sessions'[s].loop = sessions[s].loop
  BY <1>3, <1>4
<1>. QED
  BY <1>1, <1>4, <1>6, <1>7, <1>8, <1>9, <1>10, <1>11, ClosingKeeps

(* A loop closes a session that a reset left to it. *)
LEMMA CloseOnLoopKeeps ==
  ASSUME PoolInv, NEW s \in DOMAIN sessions, CloseOnLoop(s)
  PROVE  PoolInv'
<1>1. UNCHANGED <<registry, call>> /\ closing' = closing \ {s} /\ s \in closing
  BY DEF CloseOnLoop
<1>2. /\ sessions' \in Seq([key : Keys, loop : Calls \cup {Main}, open : BOOLEAN])
      /\ DOMAIN sessions' = DOMAIN sessions
      /\ \A t \in DOMAIN sessions :
           sessions'[t].key = sessions[t].key /\ sessions'[t].loop = sessions[t].loop
      /\ \A t \in DOMAIN sessions : t # s => sessions'[t] = sessions[t]
  BY SessionClosed DEF CloseOnLoop, PoolInv
<1>3. s \notin Entered /\ s \notin Unregistered
  BY <1>1 DEF PoolInv, EntryInv, MakerInv, Doomed
<1>4. Doomed' \subseteq Doomed
  BY <1>1 DEF Doomed
<1>5. PoolTypes'
  BY <1>1, <1>2 DEF PoolInv, PoolTypes
<1>6. \A t \in Entered : sessions'[t] = sessions[t]
  BY <1>2, <1>3, EnteredMade
<1>7. ASSUME NEW d \in Calls, call[d].at = "registering"
      PROVE  sessions'[call[d].s] = sessions[call[d].s]
  <2>1. call[d].s \in Unregistered /\ call[d].s \in DOMAIN sessions
    BY <1>7 DEF PoolInv, MakerInv, Unregistered
  <2>. QED
    BY <1>2, <1>3, <2>1
<1>. QED
  BY <1>1, <1>2, <1>4, <1>5, <1>6, <1>7, ClosingKeeps

(* A new session is its maker's alone. *)
LEMMA OpenSessionKeeps ==
  ASSUME PoolInv, NEW c \in Calls, OpenSession(c)
  PROVE  PoolInv'
<1>. DEFINE E == [key : Keys, loop : Calls \cup {Main}, open : BOOLEAN]
            new == [key |-> call[c].key, loop |-> LoopOf(c), open |-> TRUE]
            s == Len(sessions) + 1
            v == [at |-> "registering", pool |-> call[c].pool, key |-> call[c].key, s |-> s]
<1>1. call[c] \in [at : {"opening"}, pool : DOMAIN registry, key : Keys, toClose : Seq(Nat)]
  BY DEF PoolInv, PoolTypes, OpenSession, NotMade
<1>2. /\ sessions' = Append(sessions, new) /\ call' = [call EXCEPT ![c] = v]
      /\ UNCHANGED <<registry, closing>>
  BY DEF OpenSession
<1>3. sessions \in Seq(E) /\ new \in E /\ Len(sessions) \in Nat /\ DOMAIN sessions = 1 .. Len(sessions)
  BY <1>1, PoolAssumption DEF PoolInv, PoolTypes, LoopOf
<1>4. CallShape(v) /\ v.at = "registering" /\ v.s = s /\ v.key = new.key
  BY <1>1, <1>3 DEF CallShape
<1>5. new.key = call[c].key /\ new.loop = LoopOf(c) /\ new.open
  OBVIOUS
<1>. HIDE DEF E, new, v
<1>6. /\ sessions' \in Seq(E) /\ DOMAIN sessions' = DOMAIN sessions \cup {s}
      /\ s \notin DOMAIN sessions /\ sessions'[s] = new
      /\ \A t \in DOMAIN sessions : sessions'[t] = sessions[t]
  <2>1. sessions' \in Seq(E) /\ Len(sessions') = Len(sessions) + 1
    BY <1>2, <1>3, Appended
  <2>2. sessions'[s] = new /\ \A t \in 1 .. Len(sessions) : sessions'[t] = sessions[t]
    BY <1>2, <1>3, Appended
  <2>3. DOMAIN sessions' = 1 .. s
    BY <2>1
  <2>. QED
    BY <1>3, <2>1, <2>2, <2>3
<1>. HIDE DEF s
<1>7. \A d \in Calls : call'[d] = IF d = c THEN v ELSE call[d]
  BY <1>2, CallStep DEF PoolInv
<1>8. PoolTypes'
  <2>1. registry' \in Seq(Seq([key : Keys, s : Nat])) /\ DOMAIN registry' = DOMAIN registry
    BY <1>2 DEF PoolInv, PoolTypes
  <2>. QED
    BY <1>2, <1>4, <1>6, <2>1, CallTyped DEF PoolInv, E
<1>9. Doomed' \subseteq Doomed /\ Unregistered' \subseteq Unregistered \cup {s}
  BY <1>2, <1>4, CallSessions DEF PoolInv
<1>10. Doomed \subseteq DOMAIN sessions /\ Entered \subseteq DOMAIN sessions /\ Entered' = Entered
  BY <1>2, EnteredMade DEF PoolInv, SessionInv, Entered
<1>11. EntryInv'
  <2>1. Entered \cap (Doomed \cup Unregistered)' = {}
    BY <1>6, <1>9, <1>10 DEF PoolInv, EntryInv
  <2>2. \A p \in DOMAIN registry : \A i \in DOMAIN registry[p] :
          /\ registry[p][i].s \in DOMAIN sessions'
          /\ sessions'[registry[p][i].s].key = registry[p][i].key
    BY <1>6 DEF PoolInv, EntryInv
  <2>3. \A t \in Entered : sessions'[t].loop = Main => sessions'[t].open
    BY <1>6, <1>10 DEF PoolInv, EntryInv
  <2>4. \A p, q \in DOMAIN registry : \A i \in DOMAIN registry[p], j \in DOMAIN registry[q] :
          /\ registry[p][i].s = registry[q][j].s => p = q /\ i = j
          /\ p = q /\ registry[p][i].key = registry[q][j].key => i = j
    BY DEF PoolInv, EntryInv
  <2>. QED
    BY <1>2, <1>10, <2>1, <2>2, <2>3, <2>4 DEF EntryInv
<1>12. MakerInv'
  <2>1. (Doomed \cap Unregistered)' = {}
    BY <1>6, <1>9, <1>10 DEF PoolInv, MakerInv
  <2>2. ASSUME NEW d \in Calls, call'[d].at = "registering"
        PROVE  /\ call'[d].s \in DOMAIN sessions'
               /\ sessions'[call'[d].s] = [key |-> call'[d].key, loop |-> LoopOf(d), open |-> TRUE]
               /\ \A e \in Calls : call'[e].at = "registering" /\ call'[e].s = call'[d].s => e = d
    <3>1. ASSUME NEW e \in Calls, e # c, call'[e].at = "registering"
          PROVE  /\ call'[e] = call[e] /\ call[e].s \in DOMAIN sessions
                 /\ sessions[call[e].s] = [key |-> call[e].key, loop |-> LoopOf(e), open |-> TRUE]
      BY <1>7, <3>1 DEF PoolInv, MakerInv
    <3>2. CASE d = c
      <4>1. call'[d] = v
        BY <1>7, <3>2
      <4>2. new = [key |-> v.key, loop |-> LoopOf(d), open |-> TRUE]
        BY <1>4, <3>2 DEF new
      <4>3. \A e \in Calls : call'[e].at = "registering" /\ call'[e].s = s => e = d
        BY <1>6, <3>1, <3>2
      <4>. QED
        BY <1>4, <1>6, <4>1, <4>2, <4>3
    <3>3. CASE d # c
      <4>1. /\ call'[d] = call[d] /\ call[d].s \in DOMAIN sessions
            /\ sessions[call[d].s] = [key |-> call[d].key, loop |-> LoopOf(d), open |-> TRUE]
        BY <2>2, <3>1, <3>3
      <4>2. ASSUME NEW e \in Calls, call'[e].at = "registering", call'[e].s = call[d].s
            PROVE  e = d
        <5>1. e # c
          BY <1>4, <1>6, <1>7, <4>1, <4>2
        <5>2. call[e].at = "registering" /\ call[e].s = call[d].s /\ call[d].at = "registering"
          BY <1>7, <2>2, <3>3, <4>2, <5>1
        <5>. QED
          BY <5>2 DEF PoolInv, MakerInv
      <4>. QED
        BY <1>6, <4>1, <4>2
    <3>. QED
      BY <3>2, <3>3
  <2>. QED
    BY <2>1, <2>2 DEF MakerInv
<1>13. SessionInv'
  <2>1. Doomed' \subseteq DOMAIN sessions'
    BY <1>6, <1>9, <1>10
  <2>2. ASSUME NEW t \in DOMAIN sessions'
        PROVE  sessions'[t].loop = Main \/ call'[sessions'[t].loop].at # "new"
    <3>1. CASE t = s
      BY <1>4, <1>5, <1>6, <1>7, <3>1 DEF LoopOf
    <3>2. CASE t # s
      <4>1. t \in DOMAIN sessions /\ sessions'[t] = sessions[t]
        BY <1>6, <3>2
      <4>2. sessions[t].loop \in Calls \cup {Main}
        BY <4>1, SessionTyped DEF PoolInv
      <4>3. sessions[t].loop = Main \/ call[sessions[t].loop].at # "new"
        BY <4>1 DEF PoolInv, SessionInv
      <4>. QED
        BY <1>4, <1>7, <4>1, <4>2, <4>3
    <3>. QED
      BY <3>1, <3>2
  <2>. QED
    BY <2>1, <2>2 DEF SessionInv
<1>. QED
  BY <1>8, <1>11, <1>12, <1>13 DEF PoolInv

(* A session that is registered has one place, the last or its key's. *)
LEMMA RegisterKeeps ==
  ASSUME PoolInv, NEW c \in Calls, Register(c)
  PROVE  PoolInv'
<1>. DEFINE E == [key : Keys, s : Nat]
            p == call[c].pool
            s == call[c].s
            entry == [key |-> call[c].key, s |-> s]
            taken == {i \in DOMAIN registry[p] : registry[p][i].key = call[c].key}
            entries == IF taken = {} THEN Append(registry[p], entry)
                       ELSE [i \in DOMAIN registry[p] |-> IF i \in taken THEN entry ELSE registry[p][i]]
            v == [at |-> "using", key |-> call[c].key, s |-> s]
<1>1. /\ call[c] \in [at : {"registering"}, pool : DOMAIN registry, key : Keys, s : Nat]
      /\ p \in DOMAIN registry /\ entry \in E
  BY DEF PoolInv, PoolTypes, Register, NotMade
<1>2. /\ registry' = [registry EXCEPT ![p] = entries] /\ call' = [call EXCEPT ![c] = v]
      /\ UNCHANGED <<sessions, closing>>
  BY DEF Register
<1>3. CallShape(v) /\ v.at = "using"
  BY <1>1 DEF CallShape
<1>4. /\ registry[p] \in Seq(E) /\ Len(registry[p]) \in Nat
      /\ DOMAIN registry[p] = 1 .. Len(registry[p])
      /\ \A i \in DOMAIN registry[p] : registry[p][i] \in E
  BY <1>1, EntriesTyped
<1>5. /\ s \in DOMAIN sessions /\ s \in Unregistered /\ s \notin Doomed /\ s \notin Entered
      /\ sessions[s] = [key |-> call[c].key, loop |-> LoopOf(c), open |-> TRUE]
      /\ \A d \in Calls : call[d].at = "registering" /\ call[d].s = s => d = c
  <2>1. call[c].at = "registering"
    BY <1>1
  <2>2. s \in Unregistered
    BY <2>1 DEF Unregistered
  <2>. QED
    BY <2>1, <2>2 DEF PoolInv, MakerInv, EntryInv
<1>6. entry.key = call[c].key /\ entry.s = s
  OBVIOUS
<1>7. /\ entries \in Seq(E)
      /\ \E k \in DOMAIN entries :
           /\ entries[k] = entry
           /\ \A i \in DOMAIN entries \ {k} : /\ i \in DOMAIN registry[p] /\ entries[i] = registry[p][i]
                                             /\ registry[p][i].key # call[c].key
  <2>1. CASE taken = {}
    <3>1. entries = Append(registry[p], entry)
      BY <2>1
    <3>2. \A i \in DOMAIN registry[p] : registry[p][i].key # call[c].key
      BY <2>1
    <3>. HIDE DEF entries, taken, entry, E
    <3>3. /\ entries \in Seq(E) /\ DOMAIN entries = 1 .. Len(registry[p]) + 1
          /\ \A i \in 1 .. Len(registry[p]) : entries[i] = registry[p][i]
          /\ entries[Len(registry[p]) + 1] = entry
      BY <1>1, <1>4, <3>1, Appended
    <3>4. /\ Len(registry[p]) + 1 \in DOMAIN entries
          /\ \A i \in DOMAIN entries \ {Len(registry[p]) + 1} : i \in DOMAIN registry[p]
      BY <1>4, <3>3
    <3>. QED
      BY <1>4, <3>2, <3>3, <3>4
  <2>2. CASE taken # {}
    <3>1. entries = [i \in DOMAIN registry[p] |-> IF i \in taken THEN entry ELSE registry[p][i]]
      BY <2>2
    <3>2. PICK k \in DOMAIN registry[p] : registry[p][k].key = call[c].key
      BY <2>2
    <3>3. \A i \in DOMAIN registry[p] : registry[p][i].key = call[c].key => i = k
      BY <1>1, <3>2 DEF PoolInv, EntryInv
    <3>4. taken = {k}
      BY <3>2, <3>3
    <3>. HIDE DEF entries, taken, entry, E
    <3>5. /\ entries \in [1 .. Len(registry[p]) -> E] /\ entries[k] = entry
          /\ \A i \in DOMAIN entries \ {k} : entries[i] = registry[p][i]
      BY <1>1, <1>4, <3>1, <3>2, <3>4
    <3>. QED
      BY <1>4, <3>2, <3>3, <3>5
  <2>. QED
    BY <2>1, <2>2
<1>. HIDE DEF entries, taken
<1>8. PICK k \in DOMAIN entries :
        /\ entries[k] = entry
        /\ \A i \in DOMAIN entries \ {k} : /\ i \in DOMAIN registry[p] /\ entries[i] = registry[p][i]
                                          /\ registry[p][i].key # call[c].key
  BY <1>7
<1>9. /\ registry' \in Seq(Seq(E)) /\ DOMAIN registry' = DOMAIN registry
      /\ registry'[p] = entries /\ \A q \in DOMAIN registry \ {p} : registry'[q] = registry[q]
  BY <1>1, <1>2, <1>7, PoolStep
<1>. HIDE DEF entry, E, v, p, s
<1>10. \A d \in Calls : call'[d] = IF d = c THEN v ELSE call[d]
  BY <1>2, CallStep DEF PoolInv
<1>11. PoolTypes'
  <2>1. sessions' \in Seq([key : Keys, loop : Calls \cup {Main}, open : BOOLEAN])
    BY <1>2 DEF PoolInv, PoolTypes
  <2>. QED
    BY <1>2, <1>3, <1>9, <2>1, CallTyped DEF PoolInv, E
<1>12. Doomed' \subseteq Doomed /\ Unregistered' \subseteq Unregistered \ {s}
  <2>1. Doomed' \subseteq Doomed /\ Unregistered' \subseteq Unregistered
    BY <1>2, <1>3, CallSessions DEF PoolInv
  <2>2. s \notin Unregistered'
    <3>1. \A d \in Calls : call'[d].at = "registering" => call'[d] = call[d] /\ d # c
      BY <1>3, <1>10
    <3>. QED
      BY <1>5, <3>1 DEF Unregistered
  <2>. QED
    BY <2>1, <2>2
<1>13. ASSUME NEW q \in DOMAIN registry, NEW i \in DOMAIN registry'[q], ~(q = p /\ i = k)
       PROVE  /\ i \in DOMAIN registry[q] /\ registry'[q][i] = registry[q][i]
              /\ q = p => registry[q][i].key # call[c].key
  <2>1. CASE q = p
    BY <1>8, <1>9, <1>13, <2>1
  <2>2. CASE q # p
    BY <1>9, <2>2
  <2>. QED
    BY <2>1, <2>2
<1>14. registry'[p][k] = entry /\ k \in DOMAIN registry'[p]
  BY <1>8, <1>9
<1>15. Entered' \subseteq Entered \cup {s}
  BY <1>6, <1>9, <1>13, <1>14 DEF Entered
<1>16. EntryInv'
  <2>1. ASSUME NEW q \in DOMAIN registry, NEW i \in DOMAIN registry'[q]
        PROVE  /\ registry'[q][i].s \in DOMAIN sessions
               /\ sessions[registry'[q][i].s].key = registry'[q][i].key
    <3>1. CASE q = p /\ i = k
      BY <1>5, <1>6, <1>14, <3>1
    <3>2. CASE ~(q = p /\ i = k)
      <4>1. i \in DOMAIN registry[q] /\ registry'[q][i] = registry[q][i]
        BY <1>13, <3>2
      <4>. QED
        BY <4>1 DEF PoolInv, EntryInv
    <3>. QED
      BY <3>1, <3>2
  <2>2. \A t \in Entered' : sessions[t].loop = Main => sessions[t].open
    BY <1>5, <1>15 DEF PoolInv, EntryInv
  <2>3. ASSUME NEW q \in DOMAIN registry, NEW i \in DOMAIN registry[q]
        PROVE  registry[q][i].s # s
    BY <1>5 DEF Entered
  <2>4. ASSUME NEW q \in DOMAIN registry, NEW i \in DOMAIN registry'[q],
               NEW r \in DOMAIN registry, NEW j \in DOMAIN registry'[r]
        PROVE  /\ registry'[q][i].s = registry'[r][j].s => q = r /\ i = j
               /\ q = r /\ registry'[q][i].key = registry'[r][j].key => i = j
    <3>1. CASE q = p /\ i = k /\ r = p /\ j = k
      BY <3>1
    <3>2. CASE q = p /\ i = k /\ ~(r = p /\ j = k)
      BY <1>6, <1>13, <1>14, <2>3, <3>2
    <3>3. CASE ~(q = p /\ i = k) /\ r = p /\ j = k
      BY <1>6, <1>13, <1>14, <2>3, <3>3
    <3>4. CASE ~(q = p /\ i = k) /\ ~(r = p /\ j = k)
      <4>1. /\ i \in DOMAIN registry[q] /\ registry'[q][i] = registry[q][i]
            /\ j \in DOMAIN registry[r] /\ registry'[r][j] = registry[r][j]
        BY <1>13, <3>4
      <4>. QED
        BY <4>1 DEF PoolInv, EntryInv
    <3>. QED
      BY <3>1, <3>2, <3>3, <3>4
  <2>5. Entered' \cap (Doomed \cup Unregistered)' = {}
    BY <1>5, <1>12, <1>15 DEF PoolInv, EntryInv
  <2>. QED
    BY <1>2, <1>9, <2>1, <2>2, <2>4, <2>5 DEF EntryInv
<1>17. MakerInv'
  <2>1. (Doomed \cap Unregistered)' = {}
    BY <1>12 DEF PoolInv, MakerInv
  <2>2. \A d \in Calls : call'[d].at = "registering" => call'[d] = call[d]
    BY <1>3, <1>10
  <2>. QED
    BY <1>2, <2>1, <2>2 DEF PoolInv, MakerInv
<1>18. SessionInv'
  <2>1. ASSUME NEW t \in DOMAIN sessions
        PROVE  sessions[t].loop = Main \/ call'[sessions[t].loop].at # "new"
    <3>1. sessions[t].loop \in Calls \cup {Main}
      BY SessionTyped DEF PoolInv
    <3>. QED
      BY <1>3, <1>10, <3>1 DEF PoolInv, SessionInv
  <2>. QED
    BY <1>2, <1>12, <2>1 DEF PoolInv, SessionInv
<1>. QED
  BY <1>11, <1>16, <1>17, <1>18 DEF PoolInv

(* A reset clears the current pool and makes another. *)
LEMMA ResetCacheKeeps ==
  ASSUME PoolInv, ResetCache
  PROVE  PoolInv'
<1>. DEFINE F == Seq([key : Keys, s : Nat])
            p == Len(registry)
            cleared == [registry EXCEPT ![p] = << >>]
<1>1. registry \in Seq(F) /\ 1 \in DOMAIN registry
  BY DEF PoolInv, PoolTypes
<1>2. << >> \in F
  OBVIOUS
<1>3. /\ registry' = Append(cleared, << >>)
      /\ closing \subseteq closing'
      /\ \A s \in closing' \ closing : s \in DOMAIN sessions /\ \E e \in ToSet(registry[p]) : e.s = s
      /\ UNCHANGED <<sessions, call>>
  BY DEF ResetCache, Cleared
<1>. HIDE DEF F
<1>4. p \in DOMAIN registry /\ p \in Nat /\ DOMAIN registry = 1 .. p
  BY <1>1
<1>5. /\ cleared \in Seq(F) /\ Len(cleared) = p
      /\ \A q \in 1 .. p : cleared[q] = IF q = p THEN << >> ELSE registry[q]
  BY <1>1, <1>2, <1>4
<1>. HIDE DEF cleared
<1>6. /\ registry' \in Seq(F) /\ DOMAIN registry' = 1 .. p + 1
      /\ \A q \in 1 .. p + 1 : registry'[q] = IF q < p THEN registry[q] ELSE << >>
  <2>1. /\ registry' \in Seq(F) /\ Len(registry') = p + 1
        /\ \A q \in 1 .. p : registry'[q] = cleared[q]
        /\ registry'[p + 1] = << >>
    BY <1>2, <1>3, <1>5, Appended
  <2>. HIDE DEF p
  <2>2. DOMAIN registry' = 1 .. p + 1
    BY <1>4, <2>1
  <2>3. ASSUME NEW q \in 1 .. p + 1
        PROVE  registry'[q] = IF q < p THEN registry[q] ELSE << >>
    <3>1. CASE q = p + 1
      BY <1>4, <2>1, <3>1
    <3>2. CASE q # p + 1
      <4>1. q \in 1 .. p /\ (q # p => q < p) /\ (q = p => ~(q < p))
        BY <1>4, <3>2
      <4>. QED
        BY <1>5, <2>1, <4>1
    <3>. QED
      BY <3>1, <3>2
  <2>. QED
    BY <2>1, <2>2, <2>3
<1>. HIDE DEF p
<1>7. ASSUME NEW q \in DOMAIN registry', NEW i \in DOMAIN registry'[q]
      PROVE  q \in DOMAIN registry /\ q # p /\ registry'[q] = registry[q]
  <2>1. CASE q < p
    BY <1>4, <1>6, <2>1
  <2>2. CASE ~(q < p)
    BY <1>6, <1>7, <2>2
  <2>. QED
    BY <2>1, <2>2
<1>8. PoolTypes'
  <2>1. DOMAIN registry \subseteq DOMAIN registry' /\ 1 \in DOMAIN registry'
    BY <1>1, <1>4, <1>6
  <2>2. ASSUME NEW c \in Calls
        PROVE  \/ call[c] = NotMade
               \/ call[c] = [at |-> "done"]
               \/ call[c] \in [at : {"using"}, key : Keys, s : Nat]
               \/ call[c] \in [at : {"registering"}, pool : DOMAIN registry', key : Keys, s : Nat]
               \/ call[c] \in [at : {"opening"}, pool : DOMAIN registry', key : Keys, toClose : Seq(Nat)]
    <3>1. \/ call[c] = NotMade
          \/ call[c] = [at |-> "done"]
          \/ call[c] \in [at : {"using"}, key : Keys, s : Nat]
          \/ call[c] \in [at : {"registering"}, pool : DOMAIN registry, key : Keys, s : Nat]
          \/ call[c] \in [at : {"opening"}, pool : DOMAIN registry, key : Keys, toClose : Seq(Nat)]
      BY DEF PoolInv, PoolTypes
    <3>. QED
      BY <2>1, <3>1
  <2>. QED
    BY <1>3, <1>6, <2>1, <2>2 DEF PoolInv, PoolTypes, F
<1>9. ASSUME NEW s \in Doomed'
      PROVE  s \in Doomed \/ \E i \in DOMAIN registry[p] : s = registry[p][i].s
  <2>1. CASE s \in closing' \ closing
    BY <1>3, <2>1 DEF ToSet
  <2>2. CASE s \notin closing' \ closing
    BY <1>3, <2>2 DEF Doomed
  <2>. QED
    BY <2>1, <2>2
<1>10. ASSUME NEW s \in Entered'
       PROVE  \E q \in DOMAIN registry \ {p} : \E i \in DOMAIN registry[q] : s = registry[q][i].s
  <2>1. PICK q \in DOMAIN registry' : \E i \in DOMAIN registry'[q] : s = registry'[q][i].s
    BY <1>10 DEF Entered
  <2>. QED
    BY <1>7, <2>1
<1>11. Entered' \subseteq Entered /\ Unregistered' = Unregistered
  BY <1>3, <1>10 DEF Entered, Unregistered
<1>12. EntryInv'
  <2>1. Entered' \cap Doomed' = {}
    <3>1. SUFFICES ASSUME NEW s \in Entered', s \in Doomed'
                   PROVE  FALSE
      OBVIOUS
    <3>2. PICK q \in DOMAIN registry \ {p} : \E i \in DOMAIN registry[q] : s = registry[q][i].s
      BY <1>10
    <3>5. PICK i \in DOMAIN registry[q] : s = registry[q][i].s
      BY <3>2
    <3>3. s \notin Doomed
      BY <1>11 DEF PoolInv, EntryInv
    <3>4. PICK j \in DOMAIN registry[p] : s = registry[p][j].s
      BY <1>9, <3>1, <3>3
    <3>. QED
      <4>1. q \in DOMAIN registry /\ q # p
        BY <3>2
      <4>2. registry[q][i].s = registry[p][j].s => q = p
        <5>1. p \in DOMAIN registry
          BY <1>4
        <5>2. \A k, l \in DOMAIN registry : \A m \in DOMAIN registry[k], n \in DOMAIN registry[l] :
                registry[k][m].s = registry[l][n].s => k = l
          BY DEF PoolInv, EntryInv
        <5>. QED
          BY <4>1, <5>1, <5>2
      <4>. QED
        BY <3>4, <3>5, <4>1, <4>2
  <2>2. Entered' \cap (Doomed \cup Unregistered)' = {}
    BY <1>11, <2>1 DEF PoolInv, EntryInv
  <2>3. ASSUME NEW q \in DOMAIN registry', NEW i \in DOMAIN registry'[q]
        PROVE  /\ registry'[q][i].s \in DOMAIN sessions
               /\ sessions[registry'[q][i].s].key = registry'[q][i].key
    BY <1>7 DEF PoolInv, EntryInv
  <2>4. \A s \in Entered' : sessions[s].loop = Main => sessions[s].open
    BY <1>11 DEF PoolInv, EntryInv
  <2>5. ASSUME NEW q \in DOMAIN registry', NEW i \in DOMAIN registry'[q],
               NEW r \in DOMAIN registry', NEW j \in DOMAIN registry'[r]
        PROVE  /\ registry'[q][i].s = registry'[r][j].s => q = r /\ i = j
               /\ q = r /\ registry'[q][i].key = registry'[r][j].key => i = j
    <3>1. /\ q \in DOMAIN registry /\ registry'[q] = registry[q] /\ i \in DOMAIN registry[q]
          /\ r \in DOMAIN registry /\ registry'[r] = registry[r] /\ j \in DOMAIN registry[r]
      BY <1>7
    <3>. QED
      BY <3>1 DEF PoolInv, EntryInv
  <2>. QED
    BY <1>3, <2>2, <2>3, <2>4, <2>5 DEF EntryInv
<1>13. \A i \in DOMAIN registry[p] : registry[p][i].s \in Entered
  BY <1>4 DEF Entered
<1>14. MakerInv'
  <2>1. (Doomed \cap Unregistered)' = {}
    BY <1>9, <1>11, <1>13 DEF PoolInv, MakerInv, EntryInv
  <2>. QED
    BY <1>3, <2>1 DEF PoolInv, MakerInv
<1>15. SessionInv'
  <2>1. Doomed' \subseteq DOMAIN sessions
    BY <1>9, <1>13, EnteredMade DEF PoolInv, SessionInv
  <2>. QED
    BY <1>3, <2>1 DEF PoolInv, SessionInv
<1>. QED
  BY <1>8, <1>12, <1>14, <1>15 DEF PoolInv

(* Nothing is made at first. *)
LEMMA PoolInitInv == PoolInit => PoolInv
<1>. SUFFICES ASSUME PoolInit
              PROVE  PoolInv
  OBVIOUS
<1>. DEFINE F == Seq([key : Keys, s : Nat])
            L == [key : Keys, loop : Calls \cup {Main}, open : BOOLEAN]
<1>1. << >> \in F /\ << >> \in Seq(L)
  OBVIOUS
<1>. HIDE DEF F, L
<1>2. registry = << << >> >> /\ sessions = << >> /\ closing = {} /\ call = [c \in Calls |-> NotMade]
  BY DEF PoolInit
<1>3. registry \in Seq(F) /\ DOMAIN registry = {1} /\ registry[1] = << >>
  BY <1>1, <1>2
<1>4. \A c \in Calls : call[c] = NotMade
  BY <1>2
<1>5. PoolTypes
  BY <1>1, <1>2, <1>3, <1>4 DEF PoolTypes, F, L
<1>6. Doomed = {} /\ Unregistered = {}
  BY <1>2, <1>4 DEF Doomed, Unregistered, NotMade
<1>7. \A p \in DOMAIN registry : DOMAIN registry[p] = {}
  BY <1>3
<1>8. Entered = {}
  BY <1>7 DEF Entered
<1>9. EntryInv
  BY <1>7, <1>8 DEF EntryInv
<1>10. MakerInv
  BY <1>4, <1>6 DEF MakerInv, NotMade
<1>11. SessionInv
  BY <1>2, <1>6 DEF SessionInv
<1>. QED
  BY <1>5, <1>9, <1>10, <1>11 DEF PoolInv

(* Every step keeps the invariant. *)
LEMMA PoolStepInv == PoolInv /\ [PoolNext]_poolVars => PoolInv'
<1>. SUFFICES ASSUME PoolInv, [PoolNext]_poolVars
              PROVE  PoolInv'
  OBVIOUS
<1>1. ASSUME NEW c \in Calls, NEW p \in DOMAIN registry, NEW key \in Keys, GetSession(c, p, key)
      PROVE  PoolInv'
  BY <1>1, ReuseKeeps, EvictKeeps DEF GetSession
<1>2. ASSUME NEW c \in Calls, CloseEvicted(c) \/ OpenSession(c) \/ Register(c) \/ EndCall(c)
      PROVE  PoolInv'
  BY <1>2, CloseEvictedKeeps, OpenSessionKeeps, RegisterKeeps, EndCallKeeps
<1>3. ASSUME NEW s \in DOMAIN sessions, CloseOnLoop(s)
      PROVE  PoolInv'
  BY <1>3, CloseOnLoopKeeps
<1>4. CASE UNCHANGED poolVars
  <2>1. registry' = registry /\ sessions' = sessions /\ call' = call /\ closing' = closing
    BY <1>4 DEF poolVars
  <2>2. Entered' = Entered /\ Doomed' = Doomed /\ Unregistered' = Unregistered
    BY <2>1 DEF Entered, Doomed, Unregistered
  <2>3. PoolTypes'
    BY <2>1 DEF PoolInv, PoolTypes
  <2>4. EntryInv'
    BY <2>1, <2>2 DEF PoolInv, EntryInv
  <2>5. MakerInv' /\ SessionInv'
    BY <2>1, <2>2 DEF PoolInv, MakerInv, SessionInv
  <2>. QED
    BY <2>3, <2>4, <2>5 DEF PoolInv
<1>. QED
  BY <1>1, <1>2, <1>3, <1>4, ResetCacheKeeps DEF PoolNext

(* SessionUsable: the session a call gets is of its key, open and of the    *)
(* loop it runs on, for any number of calls, keys, sessions and resets.     *)
THEOREM SessionsAreUsable == PoolSpec => SessionUsable
<1>1. PoolInv /\ [PoolNext]_poolVars =>
        [\A c \in Calls :
           call[c].at # "using" /\ call'[c].at = "using" =>
             LET s == sessions'[call'[c].s] IN s.open /\ s.key = call'[c].key /\ s.loop = LoopOf(c)]_poolVars
  <2>. SUFFICES ASSUME PoolInv, PoolNext, NEW c \in Calls,
                       call[c].at # "using", call'[c].at = "using"
                PROVE  LET s == sessions'[call'[c].s]
                       IN  s.open /\ s.key = call'[c].key /\ s.loop = LoopOf(c)
    OBVIOUS
  <2>1. ASSUME NEW d \in Calls, NEW v, call' = [call EXCEPT ![d] = v]
        PROVE  d = c /\ call'[c] = v
    <3>1. \A e \in Calls : call'[e] = IF e = d THEN v ELSE call[e]
      BY <2>1, CallStep DEF PoolInv
    <3>. QED
      BY <3>1
  <2>2. ASSUME NEW d \in Calls, NEW p \in DOMAIN registry, NEW key \in Keys,
               Reuse(d, p, key), call[d] = NotMade, UNCHANGED sessions
        PROVE  LET s == sessions'[call'[c].s]
               IN  s.open /\ s.key = call'[c].key /\ s.loop = LoopOf(c)
    <3>1. PICK i \in EntriesOf(p, key, LoopOf(d)) :
            call' = [call EXCEPT ![d] = [at |-> "using", key |-> key, s |-> registry[p][i].s]]
      BY <2>2 DEF Reuse
    <3>2. d = c /\ call'[c] = [at |-> "using", key |-> key, s |-> registry[p][i].s]
      BY <2>1, <3>1
    <3>. DEFINE s == registry[p][i].s
    <3>3. /\ i \in DOMAIN registry[p] /\ registry[p][i].key = key /\ sessions[s].loop = LoopOf(c)
          /\ s \in Entered
      BY <3>1, <3>2 DEF EntriesOf, Entered
    <3>4. s \in DOMAIN sessions /\ sessions[s].key = key
      BY <3>3 DEF PoolInv, EntryInv
    <3>5. sessions[s].open
      <4>1. CASE LoopOf(c) = Main
        BY <3>3, <4>1 DEF PoolInv, EntryInv
      <4>2. CASE LoopOf(c) # Main
        <5>1. sessions[s].loop = c /\ c # Main
          BY <3>3, <4>2, PoolAssumption DEF LoopOf
        <5>2. call[c].at # "new"
          BY <3>4, <5>1 DEF PoolInv, SessionInv
        <5>. QED
          BY <2>2, <3>2, <5>2 DEF NotMade
      <4>. QED
        BY <4>1, <4>2
    <3>. QED
      BY <2>2, <3>2, <3>3, <3>4, <3>5
  <2>3. ASSUME NEW d \in Calls, NEW p \in DOMAIN registry, NEW key \in Keys, Evict(d, p, key)
        PROVE  FALSE
    <3>1. PICK t : call' = [call EXCEPT ![d] =
                              [at |-> "opening", pool |-> p, key |-> key, toClose |-> t]]
      BY <2>3 DEF Evict, MakeRoom
    <3>2. call'[c] = [at |-> "opening", pool |-> p, key |-> key, toClose |-> t]
      BY <2>1, <3>1
    <3>. QED
      BY <3>2
  <2>4. ASSUME NEW d \in Calls, Register(d)
        PROVE  LET s == sessions'[call'[c].s]
               IN  s.open /\ s.key = call'[c].key /\ s.loop = LoopOf(c)
    <3>1. /\ call[d].at = "registering" /\ UNCHANGED sessions
          /\ call' = [call EXCEPT ![d] = [at |-> "using", key |-> call[d].key, s |-> call[d].s]]
      BY <2>4 DEF Register
    <3>2. d = c /\ call'[c] = [at |-> "using", key |-> call[c].key, s |-> call[c].s]
      BY <2>1, <3>1
    <3>3. sessions[call[c].s] = [key |-> call[c].key, loop |-> LoopOf(c), open |-> TRUE]
      BY <3>1, <3>2 DEF PoolInv, MakerInv
    <3>. QED
      BY <3>1, <3>2, <3>3
  <2>5. ASSUME NEW d \in Calls, CloseEvicted(d)
        PROVE  FALSE
    <3>. DEFINE v == [call[d] EXCEPT !.toClose = Tail(@)]
    <3>1. call' = [call EXCEPT ![d] = v] /\ call[d].at = "opening"
      BY <2>5 DEF CloseEvicted
    <3>2. call[d] \in [at : {"opening"}, pool : DOMAIN registry, key : Keys, toClose : Seq(Nat)]
      BY <3>1 DEF PoolInv, PoolTypes, NotMade
    <3>3. v.at = "opening"
      BY <3>2
    <3>. HIDE DEF v
    <3>. QED
      BY <2>1, <3>1, <3>3
  <2>6. ASSUME NEW d \in Calls, OpenSession(d)
        PROVE  FALSE
    <3>. DEFINE v == [at |-> "registering", pool |-> call[d].pool,
                      key |-> call[d].key, s |-> Len(sessions) + 1]
    <3>1. call' = [call EXCEPT ![d] = v] /\ v.at = "registering"
      BY <2>6 DEF OpenSession
    <3>. HIDE DEF v
    <3>. QED
      BY <2>1, <3>1
  <2>8. ASSUME NEW d \in Calls, EndCall(d)
        PROVE  FALSE
    <3>. DEFINE v == [at |-> "done"]
    <3>1. call' = [call EXCEPT ![d] = v] /\ v.at = "done"
      BY <2>8 DEF EndCall
    <3>. HIDE DEF v
    <3>. QED
      BY <2>1, <3>1
  <2>7. ASSUME ResetCache \/ \E s \in DOMAIN sessions : CloseOnLoop(s)
        PROVE  FALSE
    BY <2>7 DEF ResetCache, CloseOnLoop
  <2>. QED
    BY <2>2, <2>3, <2>4, <2>5, <2>6, <2>7, <2>8 DEF PoolNext, GetSession
<1>2. PoolInit => PoolInv
  BY PoolInitInv
<1>3. PoolInv /\ [PoolNext]_poolVars => PoolInv'
  BY PoolStepInv
<1>. QED
  BY <1>1, <1>2, <1>3, PTL DEF PoolSpec, SessionUsable

-----------------------------------------------------------------------------
(* WriteReport: any sections, any depends_on and any number of retries.    *)

(* The steps of a section. *)
LEMMA StepsAre == ToSet(Steps) = {"writer", "editor", "checker"}
<1>1. DOMAIN Steps = 1 .. 3 /\ Steps[1] = "writer" /\ Steps[2] = "editor" /\ Steps[3] = "checker"
  BY DEF Steps
<1>2. 1 .. 3 = {1, 2, 3}
  OBVIOUS
<1>. HIDE DEF Steps
<1>. QED
  BY <1>1, <1>2 DEF ToSet

(* A queue of different elements, after one more, and after its first. *)
LEMMA QueueOf ==
  ASSUME NEW S, NEW q \in Seq(S), \A i, j \in DOMAIN q : q[i] = q[j] => i = j
  PROVE  /\ \A e \in S : e \notin ToSet(q) =>
              /\ Append(q, e) \in Seq(S) /\ ToSet(Append(q, e)) = ToSet(q) \cup {e}
              /\ \A i, j \in DOMAIN Append(q, e) : Append(q, e)[i] = Append(q, e)[j] => i = j
         /\ q # << >> =>
              /\ Head(q) \in S /\ Tail(q) \in Seq(S) /\ ToSet(Tail(q)) = ToSet(q) \ {Head(q)}
              /\ Head(q) \in ToSet(q)
              /\ \A i, j \in DOMAIN Tail(q) : Tail(q)[i] = Tail(q)[j] => i = j
<1>1. ASSUME NEW e \in S, e \notin ToSet(q)
      PROVE  /\ Append(q, e) \in Seq(S) /\ ToSet(Append(q, e)) = ToSet(q) \cup {e}
             /\ \A i, j \in DOMAIN Append(q, e) : Append(q, e)[i] = Append(q, e)[j] => i = j
  <2>. DEFINE t == Append(q, e)
              n == Len(q)
  <2>1. /\ t \in Seq(S) /\ DOMAIN t = 1 .. n + 1 /\ n \in Nat /\ DOMAIN q = 1 .. n
        /\ \A i \in 1 .. n : t[i] = q[i]
        /\ t[n + 1] = e
    OBVIOUS
  <2>2. \A i \in 1 .. n : q[i] # e
    BY <1>1, <2>1 DEF ToSet
  <2>. HIDE DEF t, n
  <2>3. \A i \in 1 .. n + 1 : i # n + 1 => i \in 1 .. n
    BY <2>1
  <2>4. ToSet(t) = ToSet(q) \cup {e}
    BY <2>1, <2>3 DEF ToSet
  <2>5. \A i, j \in DOMAIN t : t[i] = t[j] => i = j
    BY <2>1, <2>2, <2>3
  <2>. QED
    BY <2>1, <2>4, <2>5 DEF t
<1>2. ASSUME q # << >>
      PROVE  /\ Head(q) \in S /\ Tail(q) \in Seq(S) /\ ToSet(Tail(q)) = ToSet(q) \ {Head(q)}
             /\ Head(q) \in ToSet(q)
             /\ \A i, j \in DOMAIN Tail(q) : Tail(q)[i] = Tail(q)[j] => i = j
  <2>. DEFINE t == Tail(q)
              n == Len(q)
  <2>1. /\ t \in Seq(S) /\ DOMAIN t = 1 .. n - 1 /\ n \in Nat \ {0} /\ DOMAIN q = 1 .. n
        /\ \A i \in 1 .. n - 1 : t[i] = q[i + 1]
        /\ Head(q) = q[1] /\ Head(q) \in S
    BY <1>2
  <2>. HIDE DEF t, n
  <2>2. \A i \in 1 .. n - 1 : i + 1 \in 1 .. n /\ i + 1 # 1
    BY <2>1
  <2>3. \A i \in 1 .. n : i # 1 => i - 1 \in 1 .. n - 1 /\ (i - 1) + 1 = i
    BY <2>1
  <2>4. \A i, j \in DOMAIN t : t[i] = t[j] => i = j
    <3>. SUFFICES ASSUME NEW i \in 1 .. n - 1, NEW j \in 1 .. n - 1, t[i] = t[j]
                  PROVE  i = j
      BY <2>1
    <3>1. i + 1 = j + 1
      BY <2>1, <2>2
    <3>. QED
      BY <3>1
  <2>5. ToSet(t) = ToSet(q) \ {Head(q)}
    <3>1. ASSUME NEW e \in ToSet(t) PROVE e \in ToSet(q) /\ e # Head(q)
      <4>1. PICK i \in 1 .. n - 1 : e = t[i]
        BY <2>1, <3>1 DEF ToSet
      <4>2. e = q[i + 1] /\ i + 1 \in DOMAIN q /\ i + 1 # 1 /\ 1 \in DOMAIN q
        BY <2>1, <2>2, <4>1
      <4>. QED
        BY <2>1, <4>2 DEF ToSet
    <3>2. ASSUME NEW e \in ToSet(q), e # Head(q) PROVE e \in ToSet(t)
      <4>1. PICK i \in 1 .. n : e = q[i]
        BY <2>1, <3>2 DEF ToSet
      <4>2. i # 1
        BY <2>1, <3>2, <4>1
      <4>3. i - 1 \in DOMAIN t /\ t[i - 1] = e
        BY <2>1, <2>3, <4>1, <4>2
      <4>. QED
        BY <4>3 DEF ToSet
    <3>. QED
      BY <3>1, <3>2
  <2>6. Head(q) \in ToSet(q)
    BY <2>1 DEF ToSet
  <2>. QED
    BY <2>1, <2>4, <2>5, <2>6 DEF t
<1>. QED
  BY <1>1, <1>2

(* Nothing was started, and nothing told of, at first. *)
LEMMA ReportInvInit == ReportInit => ReportInv
<1>. SUFFICES ASSUME ReportInit PROVE ReportInv
  OBVIOUS
<1>1. events = << >> /\ ToSet(events) = {} /\ DOMAIN events = {} /\ events \in Seq(Sections)
  BY DEF ReportInit, ToSet
<1>2. ReportTypeOK
  BY <1>1, ReportAssumption DEF ReportInit, ReportTypeOK, ReportAssumption
<1>3. \A s \in Sections : SectionTold(s) /\ SectionPlace(s)
  BY <1>1, StepsAre DEF ReportInit, SectionTold, SectionPlace, InStep
<1>. QED
  BY <1>1, <1>2, <1>3 DEF ReportInv, ReportInit

(* A step of one task, that leaves the generator and the events alone. *)
LEMMA TaskMoves ==
  ASSUME ReportInv, NEW s \in Sections, NEW t, task' = [task EXCEPT ![s] = t],
         task[s] \in {"created", "writer", "editor", "checker"},
         t \in {"writer", "editor", "checker", "failed", "timed out"},
         retries' \in [Sections -> 0 .. MaxRetries],
         UNCHANGED <<depends, remaining, awaited, events, drafts, told, stream>>
  PROVE  ReportInv'
<1>. USE DEF ReportInv
<1>1. ReportTypeOK'
  BY StepsAre DEF ReportTypeOK
<1>2. \A r \in Sections : task'[r] = IF r = s THEN t ELSE task[r]
  BY DEF ReportTypeOK
<1>3. ToSet(events)' = ToSet(events)
  OBVIOUS
<1>4. s \in awaited /\ drafts[s] = "none" /\ s \notin ToSet(events) /\ told[s] = 0
  BY StepsAre DEF SectionTold, SectionPlace, InStep
<1>5. ASSUME NEW r \in Sections PROVE SectionTold(r)' /\ SectionPlace(r)'
  <2>1. CASE r = s
    BY <1>2, <1>3, <1>4, <2>1, StepsAre DEF SectionTold, SectionPlace, InStep
  <2>2. CASE r # s
    BY <1>2, <1>3, <2>2 DEF SectionTold, SectionPlace, InStep
  <2>. QED
    BY <2>1, <2>2
<1>. QED
  BY <1>1, <1>5

(* The checker's answer. *)
LEMMA CheckKeeps ==
  ASSUME ReportInv, NEW s \in Sections, NEW fails \in BOOLEAN, Check(s, fails)
  PROVE  ReportInv'
<1>1. CASE fails /\ retries[s] < MaxRetries
  <2>1. retries' \in [Sections -> 0 .. MaxRetries]
    <3>1. retries' = [retries EXCEPT ![s] = retries[s] + 1]
      BY <1>1 DEF Check
    <3>2. retries \in [Sections -> 0 .. MaxRetries]
      BY DEF ReportInv, ReportTypeOK
    <3>3. retries[s] + 1 \in 0 .. MaxRetries
      BY <1>1, <3>2, ReportAssumption DEF ReportAssumption
    <3>. QED
      BY <3>1, <3>2, <3>3
  <2>. QED
    BY <1>1, <2>1, TaskMoves DEF Check
<1>2. CASE ~(fails /\ retries[s] < MaxRetries)
  <2>. USE DEF ReportInv
  <2>1. /\ task[s] = "checker" /\ events' = Append(events, s) /\ task' = [task EXCEPT ![s] = "done"]
        /\ UNCHANGED <<depends, remaining, retries, awaited, drafts, told, stream>>
    BY <1>2 DEF Check
  <2>2. s \in awaited /\ drafts[s] = "none" /\ s \notin ToSet(events) /\ told[s] = 0
    BY <2>1, StepsAre DEF SectionTold, SectionPlace, InStep
  <2>3. /\ events' \in Seq(Sections) /\ ToSet(events') = ToSet(events) \cup {s}
        /\ \A i, j \in DOMAIN events' : events'[i] = events'[j] => i = j
    <3>1. events \in Seq(Sections) /\ \A i, j \in DOMAIN events : events[i] = events[j] => i = j
      BY DEF ReportTypeOK
    <3>2. events' = Append(events, s) /\ s \notin ToSet(events)
      BY <2>1, <2>2
    <3>. HIDE DEF ReportInv
    <3>. QED
      BY <3>1, <3>2, QueueOf
  <2>4. \A r \in Sections : task'[r] = IF r = s THEN "done" ELSE task[r]
    BY <2>1 DEF ReportTypeOK
  <2>5. ReportTypeOK'
    BY <2>1, <2>3, StepsAre DEF ReportTypeOK
  <2>6. ASSUME NEW r \in Sections PROVE SectionTold(r)' /\ SectionPlace(r)'
    <3>1. CASE r = s
      <4>1. task'[s] = "done" /\ s \in ToSet(events') /\ told'[s] = 0 /\ task[s] = "checker"
        BY <2>1, <2>2, <2>3, <2>4
      <4>2. SectionTold(s)'
        BY <4>1 DEF SectionTold
      <4>3. SectionPlace(s)'
        BY <2>1, <2>2, <4>1, StepsAre DEF SectionPlace, InStep
      <4>. QED
        BY <3>1, <4>2, <4>3
    <3>2. CASE r # s
      BY <2>1, <2>3, <2>4, <3>2 DEF SectionTold, SectionPlace, InStep
    <3>. QED
      BY <3>1, <3>2
  <2>7. stream \notin {"assembling", "complete"}
    BY <2>2
  <2>. QED
    BY <2>1, <2>3, <2>5, <2>6, <2>7
<1>. QED
  BY <1>1, <1>2

(* A batch is of sections that remain. *)
LEMMA StartBatchKeeps ==
  ASSUME ReportInv, StartBatch
  PROVE  ReportInv'
<1>. USE DEF ReportInv
<1>1. Batch \subseteq remaining
  BY DEF Batch, Ready
<1>2. /\ remaining' = remaining \ Batch /\ awaited' = Batch /\ awaited = {} /\ stream = "open"
      /\ UNCHANGED <<depends, retries, events, drafts, told, stream>>
      /\ task' = [s \in Sections |-> IF s \in Batch THEN "created" ELSE task[s]]
  BY DEF StartBatch
<1>. HIDE DEF Batch
<1>3. ReportTypeOK'
  BY <1>1, <1>2 DEF ReportTypeOK
<1>4. ToSet(events)' = ToSet(events)
  BY <1>2
<1>5. ASSUME NEW s \in Sections PROVE SectionTold(s)' /\ SectionPlace(s)'
  <2>1. CASE s \in Batch
    <3>1. task[s] = "none" /\ drafts[s] = "none" /\ told[s] = 0 /\ s \notin ToSet(events)
      BY <1>1, <2>1 DEF SectionTold, SectionPlace
    <3>2. task'[s] = "created" /\ s \notin remaining' /\ s \in awaited'
      BY <1>2, <2>1
    <3>. QED
      BY <1>2, <1>4, <3>1, <3>2, StepsAre DEF SectionTold, SectionPlace, InStep
  <2>2. CASE s \notin Batch
    <3>1. task'[s] = task[s] /\ (s \in remaining' <=> s \in remaining) /\ s \notin awaited /\ s \notin awaited'
      BY <1>2, <2>2
    <3>. QED
      BY <1>2, <1>4, <3>1 DEF SectionTold, SectionPlace, InStep
  <2>. QED
    BY <2>1, <2>2
<1>. QED
  BY <1>2, <1>3, <1>5

(* An event is told of once, as it leaves the queue. *)
LEMMA SendEventKeeps ==
  ASSUME ReportInv, SendEvent
  PROVE  ReportInv'
<1>. USE DEF ReportInv
<1>. DEFINE s == Head(events)
<1>1. /\ events # << >> /\ events' = Tail(events) /\ told' = [told EXCEPT ![s] = @ + 1]
      /\ stream = "open" /\ UNCHANGED <<depends, remaining, task, retries, awaited, drafts, stream>>
  BY DEF SendEvent
<1>2. /\ s \in Sections /\ s \in ToSet(events) /\ events' \in Seq(Sections)
      /\ ToSet(events') = ToSet(events) \ {s}
      /\ \A i, j \in DOMAIN events' : events'[i] = events'[j] => i = j
  BY <1>1, QueueOf DEF ReportTypeOK
<1>. HIDE DEF s
<1>3. task[s] = "done" /\ told[s] = 0
  <2>1. SectionTold(s)
    BY <1>2
  <2>. QED
    BY <1>2, <2>1 DEF SectionTold
<1>7. told \in [Sections -> 0 .. 1]
  BY DEF ReportTypeOK
<1>8. told' = [told EXCEPT ![s] = 1]
  BY <1>1, <1>2, <1>3, <1>7
<1>4. \A r \in Sections : told'[r] = IF r = s THEN 1 ELSE told[r]
  BY <1>7, <1>8
<1>9. told' \in [Sections -> 0 .. 1]
  <2>. HIDE DEF ReportInv
  <2>1. 1 \in 0 .. 1
    OBVIOUS
  <2>. QED
    BY <1>7, <1>8, <2>1
<1>5. ReportTypeOK'
  BY <1>1, <1>2, <1>9 DEF ReportTypeOK
<1>6. ASSUME NEW r \in Sections PROVE SectionTold(r)' /\ SectionPlace(r)'
  <2>1. CASE r = s
    BY <1>1, <1>2, <1>3, <1>4, <2>1 DEF SectionTold, SectionPlace, InStep
  <2>2. CASE r # s
    BY <1>1, <1>2, <1>4, <2>2 DEF SectionTold, SectionPlace, InStep
  <2>. QED
    BY <2>1, <2>2
<1>. QED
  BY <1>1, <1>2, <1>5, <1>6

(* A task that ended leaves a draft, or ends the stream. *)
LEMMA CollectKeeps ==
  ASSUME ReportInv, NEW s \in Sections, Collect(s)
  PROVE  ReportInv'
<1>. USE DEF ReportInv
<1>1. /\ s \in awaited /\ task[s] \in {"done", "timed out", "failed"} /\ stream = "open"
      /\ awaited' = awaited \ {s} /\ UNCHANGED <<depends, remaining, task, retries, events>>
  BY DEF Collect, Ended
<1>2. \A r \in Sections :
        /\ r # s => drafts'[r] = drafts[r] /\ told'[r] = told[r]
        /\ task[s] = "done" => drafts'[s] = "draft" /\ told'[s] = told[s] /\ stream' = "open"
        /\ task[s] = "timed out" => drafts'[s] = "timeout" /\ told'[s] = told[s] + 1 /\ stream' = "open"
        /\ task[s] = "failed" => drafts'[s] = drafts[s] /\ told'[s] = told[s] /\ stream' = "error"
  BY <1>1 DEF Collect, ReportTypeOK
<1>8. /\ SectionTold(s) /\ SectionPlace(s)
  OBVIOUS
<1>3. task[s] = "timed out" => told[s] = 0 /\ told[s] + 1 = 1
  <2>. HIDE DEF ReportInv
  <2>1. task[s] = "timed out" => told[s] = 0
    BY <1>1, <1>8 DEF SectionTold
  <2>2. \A n \in Nat : n = 0 => n + 1 = 1
    OBVIOUS
  <2>. QED
    BY <2>1, <2>2
<1>4. /\ told' \in [Sections -> 0 .. 1] /\ drafts' \in [Sections -> {"none", "draft", "timeout"}]
      /\ stream' \in {"open", "error"}
  <2>1. told \in [Sections -> 0 .. 1] /\ drafts \in [Sections -> {"none", "draft", "timeout"}]
    BY DEF ReportTypeOK
  <2>2. CASE task[s] = "done"
    <3>1. /\ drafts' = [drafts EXCEPT ![s] = "draft"] /\ told' = [told EXCEPT ![s] = told[s]]
          /\ stream' = stream
      BY <2>2 DEF Collect
    <3>. QED
      BY <1>1, <2>1, <3>1
  <2>3. CASE task[s] = "timed out"
    <3>1. /\ drafts' = [drafts EXCEPT ![s] = "timeout"] /\ told' = [told EXCEPT ![s] = told[s] + 1]
          /\ stream' = stream
      BY <2>3 DEF Collect
    <3>2. told[s] + 1 = 1 /\ 1 \in 0 .. 1
      <4>1. told[s] + 1 = 1
        BY <1>3, <2>3
      <4>. QED
        BY <4>1
    <3>3. told' = [told EXCEPT ![s] = 1]
      BY <3>1, <3>2
    <3>. HIDE DEF ReportInv
    <3>. QED
      BY <1>1, <2>1, <3>1, <3>2, <3>3
  <2>4. CASE task[s] = "failed"
    <3>1. /\ drafts' = [drafts EXCEPT ![s] = drafts[s]] /\ told' = [told EXCEPT ![s] = told[s]]
          /\ stream' = "error"
      BY <2>4 DEF Collect
    <3>. QED
      BY <1>1, <2>1, <3>1
  <2>. QED
    BY <1>1, <2>2, <2>3, <2>4
<1>5. ReportTypeOK'
  BY <1>1, <1>4 DEF ReportTypeOK
<1>6. ToSet(events)' = ToSet(events)
  BY <1>1
<1>7. ASSUME NEW r \in Sections PROVE SectionTold(r)' /\ SectionPlace(r)'
  <2>1. CASE r = s
    <3>1. SectionTold(s)'
      <4>1. /\ s \notin awaited' /\ task'[s] = task[s] /\ (s \in ToSet(events') <=> s \in ToSet(events))
        BY <1>1, <1>6
      <4>2. told'[s] = IF task[s] = "timed out" THEN 1 ELSE told[s]
        <5>1. task[s] = "timed out" => told[s] + 1 = 1
          BY <1>3
        <5>2. /\ task[s] = "timed out" => told'[s] = told[s] + 1
              /\ task[s] # "timed out" => told'[s] = told[s]
          BY <1>1, <1>2
        <5>. QED
          BY <5>1, <5>2
      <4>. QED
        BY <1>1, <1>8, <4>1, <4>2 DEF SectionTold
    <3>2. SectionPlace(s)'
      BY <1>1, <1>2, StepsAre DEF SectionPlace, InStep
    <3>. QED
      BY <2>1, <3>1, <3>2
  <2>2. CASE r # s
    <3>1. /\ task'[r] = task[r] /\ drafts'[r] = drafts[r] /\ told'[r] = told[r]
          /\ (r \in awaited' <=> r \in awaited) /\ remaining' = remaining
      BY <1>1, <1>2, <2>2
    <3>. QED
      BY <1>1, <1>4, <1>6, <3>1 DEF SectionTold, SectionPlace, InStep
  <2>. QED
    BY <2>1, <2>2
<1>. QED
  BY <1>1, <1>4, <1>5, <1>7

(* The stream moves on or ends, and nothing else changes. *)
LEMMA StreamKeeps ==
  ASSUME ReportInv, StartAssembly \/ Assembled \/ Disconnect
  PROVE  ReportInv'
<1>. USE DEF ReportInv
<1>1. UNCHANGED <<depends, remaining, task, retries, awaited, events, drafts, told>>
  BY DEF StartAssembly, Assembled, Disconnect
<1>2. /\ stream' \in {"assembling", "complete", "error", "closed"}
      /\ stream' \in {"assembling", "complete"} =>
           /\ remaining = {} /\ awaited = {} /\ events = << >>
           /\ stream \in {"open", "assembling", "complete"}
  BY DEF StartAssembly, Assembled, Disconnect
<1>3. ReportTypeOK'
  BY <1>1, <1>2 DEF ReportTypeOK
<1>4. ToSet(events)' = ToSet(events)
  BY <1>1
<1>5. ASSUME NEW s \in Sections PROVE SectionTold(s)' /\ SectionPlace(s)'
  BY <1>1, <1>2, <1>4 DEF SectionTold, SectionPlace, InStep
<1>. QED
  BY <1>1, <1>2, <1>3, <1>5

(* Every step keeps the invariant. *)
LEMMA ReportHolds == ReportSpec => []ReportInv
<1>1. ReportInv /\ [ReportNext]_reportVars => ReportInv'
  <2>. SUFFICES ASSUME ReportInv, [ReportNext]_reportVars PROVE ReportInv'
    OBVIOUS
  <2>1. ASSUME NEW s \in Sections,
               BeginSection(s) \/ NextStep(s) \/ AgentFails(s) \/ TimeOut(s)
        PROVE  ReportInv'
    <3>1. \E t \in {"writer", "editor", "checker", "failed", "timed out"} :
            task' = [task EXCEPT ![s] = t]
      BY <2>1 DEF BeginSection, NextStep, AgentFails, TimeOut
    <3>2. task[s] \in {"created", "writer", "editor", "checker"}
      BY <2>1, StepsAre DEF BeginSection, NextStep, AgentFails, TimeOut, InStep
    <3>3. UNCHANGED <<depends, remaining, retries, awaited, events, drafts, told, stream>>
      BY <2>1 DEF BeginSection, NextStep, AgentFails, TimeOut
    <3>4. retries' \in [Sections -> 0 .. MaxRetries]
      BY <3>3 DEF ReportInv, ReportTypeOK
    <3>. QED
      BY <3>1, <3>2, <3>3, <3>4, TaskMoves
  <2>2. CASE UNCHANGED reportVars
    BY <2>2 DEF reportVars, ReportInv, ReportTypeOK, SectionTold, SectionPlace, InStep
  <2>3. ASSUME NEW s \in Sections, NEW fails \in BOOLEAN, Check(s, fails) PROVE ReportInv'
    BY <2>3, CheckKeeps
  <2>4. ASSUME NEW s \in Sections, Collect(s) PROVE ReportInv'
    BY <2>4, CollectKeeps
  <2>. QED
    BY <2>1, <2>2, <2>3, <2>4, StartBatchKeeps, SendEventKeeps, StreamKeeps
       DEF ReportNext, Generator
<1>. QED
  BY <1>1, ReportInvInit, PTL DEF ReportSpec

(* CompleteIsWhole: a report that is complete has a draft of every section, *)
(* and the client was told of each once, for any sections, any dependencies *)
(* and any number of retries.                                               *)
THEOREM ReportsAreWhole == ReportSpec => []CompleteIsWhole
<1>1. ReportInv => CompleteIsWhole
  <2>. SUFFICES ASSUME ReportInv, stream = "complete", NEW s \in Sections
                PROVE  drafts[s] # "none" /\ told[s] = 1
    BY DEF CompleteIsWhole
  <2>1. s \notin remaining /\ s \notin awaited /\ events = << >>
    BY DEF ReportInv
  <2>2. s \notin ToSet(events)
    BY <2>1 DEF ToSet
  <2>3. drafts[s] # "none" /\ task[s] \in {"done", "timed out"}
    BY <2>1 DEF ReportInv, SectionPlace
  <2>. QED
    BY <2>1, <2>2, <2>3 DEF ReportInv, SectionTold
<1>. QED
  BY <1>1, ReportHolds, PTL
-----------------------------------------------------------------------------
(* ThreadHistory: any threads, runs and loads in flight, any length of a    *)
(* run and of a page.                                                       *)

(* The places of a sequence counted from the first: the counts grow from    *)
(* place to place and leave no number out.                                  *)
LEMMA Ranks ==
  ASSUME NEW n \in Nat, NEW P \in SUBSET (1 .. n)
  PROVE  /\ Cardinality(P) \in Nat
         /\ \A i \in P : Rank(P, i) \in 1 .. Cardinality(P)
         /\ \A i, j \in P : i < j => Rank(P, i) < Rank(P, j)
         /\ \A k \in 1 .. Cardinality(P) : \E i \in P : Rank(P, i) = k
<1>. DEFINE upTo(i) == {j \in P : j <= i}
            c == Cardinality(P)
            rank == [i \in P |-> Rank(P, i)]
<1>1. IsFiniteSet(P) /\ c \in Nat
  <2>1. IsFiniteSet(1 .. n)
    BY FS_Interval
  <2>2. IsFiniteSet(P)
    BY <2>1, FS_Subset
  <2>. QED
    BY <2>2, FS_CardinalityType
<1>2. ASSUME NEW i \in P
      PROVE  IsFiniteSet(upTo(i)) /\ Rank(P, i) \in 1 .. c
  <2>1. upTo(i) \in SUBSET P /\ i \in upTo(i)
    OBVIOUS
  <2>2. IsFiniteSet(upTo(i)) /\ Cardinality(upTo(i)) <= c
    BY <1>1, <2>1, FS_Subset
  <2>3. Cardinality(upTo(i)) \in Nat /\ (Cardinality(upTo(i)) = 0 <=> upTo(i) = {})
    BY <2>2, FS_CardinalityType, FS_EmptySet
  <2>4. Cardinality(upTo(i)) \in 1 .. c
    BY <1>1, <2>1, <2>2, <2>3
  <2>. QED
    BY <2>2, <2>4 DEF Rank
<1>3. ASSUME NEW i \in P, NEW j \in P, i < j
      PROVE  Rank(P, i) < Rank(P, j)
  <2>0. P \subseteq Nat
    OBVIOUS
  <2>1. upTo(i) \in SUBSET upTo(j) /\ j \in upTo(j) /\ j \notin upTo(i)
    <3>1. \A k \in P : k <= i => k <= j
      BY <1>3, <2>0
    <3>2. j <= j /\ ~(j <= i)
      BY <1>3, <2>0
    <3>. QED
      BY <3>1, <3>2
  <2>2. upTo(i) # upTo(j)
    BY <2>1
  <2>3. /\ Cardinality(upTo(i)) <= Cardinality(upTo(j))
        /\ Cardinality(upTo(j)) # Cardinality(upTo(i))
    BY <1>2, <2>1, <2>2, FS_Subset
  <2>4. Rank(P, i) = Cardinality(upTo(i)) /\ Rank(P, j) = Cardinality(upTo(j))
    BY DEF Rank
  <2>5. Rank(P, i) \in Nat /\ Rank(P, j) \in Nat
    <3>1. 1 .. c \subseteq Nat
      BY <1>1
    <3>. QED
      BY <1>2, <3>1
  <2>. QED
    BY <2>3, <2>4, <2>5
<1>4. ASSUME NEW k \in 1 .. c
      PROVE  \E i \in P : Rank(P, i) = k
  <2>1. rank \in [P -> 1 .. c]
    BY <1>2
  <2>2. ASSUME NEW i \in P, NEW j \in P, rank[i] = rank[j]
        PROVE  i = j
    <3>1. Rank(P, i) = Rank(P, j)
      BY <2>2
    <3>2. ~(i < j) /\ ~(j < i)
      <4>1. Rank(P, i) \in 1 .. c
        BY <1>2
      <4>2. ~(Rank(P, i) < Rank(P, i))
        <5>. HIDE DEF c
        <5>. QED
          BY <1>1, <4>1
      <4>. QED
        BY <1>3, <3>1, <4>2
    <3>3. i \in Nat /\ j \in Nat
      OBVIOUS
    <3>. QED
      BY <3>2, <3>3
  <2>3. rank \in Injection(P, 1 .. c)
    BY <2>1, <2>2 DEF Injection, IsInjective
  <2>4. IsFiniteSet(1 .. c) /\ Cardinality(1 .. c) = c
    BY <1>1, FS_Interval
  <2>5. rank \in Surjection(P, 1 .. c)
    BY <2>3, <2>4, FS_Injection
  <2>6. \E i \in P : rank[i] = k
    BY <2>5 DEF Surjection
  <2>. QED
    BY <2>6
<1>. QED
  BY <1>1, <1>2, <1>3, <1>4

(* LastOf is the last place, if there is one. *)
LEMMA LastPlace ==
  ASSUME NEW n \in Nat, NEW P \in SUBSET (1 .. n)
  PROVE  /\ LastOf(P) \in P \cup {0}
         /\ \A j \in P : j <= LastOf(P)
<1>. DEFINE c == Cardinality(P)
            Q == P \cup {0}
<1>1. \E x \in Q : \A y \in Q : x >= y
  <2>1. CASE P = {}
    BY <2>1
  <2>2. CASE P # {}
    <3>1. PICK i \in P : TRUE
      BY <2>2
    <3>2. c \in 1 .. c
      BY <3>1, Ranks
    <3>3. PICK k \in P : Rank(P, k) = c
      BY <3>2, Ranks
    <3>4. ASSUME NEW j \in P
          PROVE  k >= j
      <4>1. Rank(P, j) <= c /\ (k < j => Rank(P, k) < Rank(P, j))
        BY Ranks
      <4>2. /\ c \in Nat /\ Rank(P, j) \in 1 .. c /\ Rank(P, k) \in 1 .. c
            /\ 1 .. c \subseteq Nat /\ P \subseteq Nat
        BY Ranks
      <4>. QED
        BY <3>3, <4>1, <4>2
    <3>5. k \in Nat
      OBVIOUS
    <3>. QED
      BY <3>4, <3>5
  <2>. QED
    BY <2>1, <2>2
<1>2. LastOf(P) \in Q /\ \A y \in Q : LastOf(P) >= y
  BY <1>1 DEF LastOf, Max
<1>. QED
  BY <1>2

(* What is chosen is what stands in the places, once for each of them. *)
LEMMA ChosenOnes ==
  ASSUME NEW S, NEW s \in Seq(S), NEW P \in SUBSET DOMAIN s
  PROVE  /\ Chosen(s, P) \in Seq(S)
         /\ ToSet(Chosen(s, P)) = {s[i] : i \in P}
         /\ (\A i, j \in P : s[i] = s[j] => i = j) => IsInjective(Chosen(s, P))
<1>. DEFINE c == Cardinality(P)
            at(k) == CHOOSE i \in P : Rank(P, i) = k
            t == Chosen(s, P)
<1>1. P \in SUBSET (1 .. Len(s)) /\ Len(s) \in Nat
  OBVIOUS
<1>2. /\ c \in Nat
      /\ \A i \in P : Rank(P, i) \in 1 .. c
      /\ \A i, j \in P : i < j => Rank(P, i) < Rank(P, j)
  BY <1>1, Ranks
<1>3. ASSUME NEW k \in 1 .. c
      PROVE  at(k) \in P /\ Rank(P, at(k)) = k
  <2>1. \E i \in P : Rank(P, i) = k
    BY <1>1, Ranks
  <2>. QED
    BY <2>1
<1>4. ASSUME NEW i \in P
      PROVE  at(Rank(P, i)) = i
  <2>1. at(Rank(P, i)) \in P /\ Rank(P, at(Rank(P, i))) = Rank(P, i)
    BY <1>2, <1>3
  <2>. DEFINE j == at(Rank(P, i))
  <2>2. j \in P /\ Rank(P, j) = Rank(P, i)
    BY <2>1
  <2>. HIDE DEF j
  <2>3. i \in Nat /\ j \in Nat /\ Rank(P, i) \in Nat
    BY <1>1, <1>2, <2>2
  <2>4. ~(i < j) /\ ~(j < i)
    BY <1>2, <2>2, <2>3
  <2>5. i = j
    BY <2>3, <2>4
  <2>. QED
    BY <2>5 DEF j
<1>5. DOMAIN t = 1 .. c /\ \A k \in 1 .. c : t[k] = s[at(k)]
  BY DEF Chosen
<1>. HIDE DEF at, t, c
<1>6. \A k \in 1 .. c : s[at(k)] \in S
  BY <1>1, <1>3
<1>7. t \in Seq(S)
  <2>1. t = [k \in 1 .. c |-> s[at(k)]]
    BY DEF t, Chosen, at, c
  <2>. QED
    BY <1>2, <1>6, <2>1
<1>8. ToSet(t) = {s[i] : i \in P}
  <2>1. ToSet(t) = {t[k] : k \in 1 .. c}
    BY <1>5 DEF ToSet
  <2>2. ASSUME NEW k \in 1 .. c
        PROVE  t[k] \in {s[i] : i \in P}
    BY <1>3, <1>5
  <2>3. ASSUME NEW i \in P
        PROVE  s[i] \in {t[k] : k \in 1 .. c}
    <3>1. Rank(P, i) \in 1 .. c /\ t[Rank(P, i)] = s[i]
      BY <1>2, <1>4, <1>5
    <3>. QED
      BY <3>1
  <2>. QED
    BY <2>1, <2>2, <2>3
<1>9. ASSUME \A i, j \in P : s[i] = s[j] => i = j
      PROVE  IsInjective(t)
  <2>. SUFFICES ASSUME NEW k \in 1 .. c, NEW l \in 1 .. c, t[k] = t[l]
                PROVE  k = l
    BY <1>5 DEF IsInjective
  <2>1. at(k) = at(l)
    BY <1>3, <1>5, <1>9
  <2>. QED
    BY <1>3, <2>1
<1>. QED
  BY <1>7, <1>8, <1>9 DEF t

(* dedupeMessagesByIdentity keeps every message, and each once. *)
LEMMA DedupedOnes ==
  ASSUME NEW S, NEW s \in Seq(S)
  PROVE  /\ Deduped(s) \in Seq(S)
         /\ ToSet(Deduped(s)) = ToSet(s)
         /\ IsInjective(Deduped(s))
<1>. DEFINE L == LastPlaces(s)
<1>1. L \in SUBSET DOMAIN s /\ DOMAIN s = 1 .. Len(s) /\ Len(s) \in Nat
  BY DEF LastPlaces
<1>2. \A i, j \in L : s[i] = s[j] => i = j
  <2>. SUFFICES ASSUME NEW i \in L, NEW j \in L, s[i] = s[j] PROVE i = j
    OBVIOUS
  <2>1. i <= j /\ j <= i
    BY <1>1 DEF LastPlaces
  <2>2. i \in Nat /\ j \in Nat
    BY <1>1
  <2>. QED
    BY <2>1, <2>2
<1>3. ASSUME NEW i \in DOMAIN s
      PROVE  \E k \in L : s[k] = s[i]
  <2>. DEFINE P == {j \in DOMAIN s : s[j] = s[i]}
              k == LastOf(P)
  <2>1. P \in SUBSET (1 .. Len(s)) /\ i \in P
    BY <1>1
  <2>2. k \in P \cup {0} /\ \A j \in P : j <= k
    BY <1>1, <2>1, LastPlace
  <2>3. i <= k /\ i >= 1
    BY <1>1, <2>1, <2>2
  <2>. HIDE DEF k
  <2>4. k \in P
    BY <1>1, <2>2, <2>3
  <2>5. k \in L
    BY <2>2, <2>4 DEF LastPlaces
  <2>. QED
    BY <2>4, <2>5
<1>. HIDE DEF L
<1>4. {s[i] : i \in L} = ToSet(s)
  BY <1>1, <1>3 DEF ToSet
<1>. QED
  BY <1>1, <1>2, <1>4, ChosenOnes DEF Deduped, L

(* What two sequences hold together. *)
LEMMA JoinedSet ==
  ASSUME NEW S, NEW s \in Seq(S), NEW t \in Seq(S)
  PROVE  s \o t \in Seq(S) /\ ToSet(s \o t) = ToSet(s) \cup ToSet(t)
<1>. DEFINE all == s \o t
<1>1. /\ all \in Seq(S) /\ Len(all) = Len(s) + Len(t)
      /\ \A j \in 1 .. Len(s) : all[j] = s[j]
      /\ \A j \in 1 .. Len(t) : all[Len(s) + j] = t[j]
  BY Joined
<1>. HIDE DEF all
<1>2. Len(s) \in Nat /\ Len(t) \in Nat
  OBVIOUS
<1>3. ASSUME NEW i \in 1 .. Len(all)
      PROVE  all[i] \in {s[j] : j \in 1 .. Len(s)} \cup {t[j] : j \in 1 .. Len(t)}
  <2>1. CASE i <= Len(s)
    BY <1>1, <1>2, <2>1
  <2>2. CASE i > Len(s)
    <3>1. i - Len(s) \in 1 .. Len(t) /\ i = Len(s) + (i - Len(s))
      BY <1>1, <1>2, <2>2
    <3>2. PICK j \in 1 .. Len(t) : i = Len(s) + j
      BY <3>1
    <3>. QED
      BY <1>1, <3>2
  <2>3. i \in Nat
    BY <1>1, <1>2
  <2>. QED
    BY <1>2, <2>1, <2>2, <2>3
<1>4. ASSUME NEW j \in 1 .. Len(s)
      PROVE  s[j] \in {all[i] : i \in 1 .. Len(all)}
  <2>1. j \in 1 .. Len(all) /\ all[j] = s[j]
    BY <1>1, <1>2
  <2>. QED
    BY <2>1
<1>5. ASSUME NEW j \in 1 .. Len(t)
      PROVE  t[j] \in {all[i] : i \in 1 .. Len(all)}
  <2>1. Len(s) + j \in 1 .. Len(all) /\ all[Len(s) + j] = t[j]
    BY <1>1, <1>2
  <2>. QED
    BY <2>1
<1>6. /\ ToSet(all) = {all[i] : i \in 1 .. Len(all)}
      /\ ToSet(s) = {s[i] : i \in 1 .. Len(s)}
      /\ ToSet(t) = {t[i] : i \in 1 .. Len(t)}
  <2>1. DOMAIN all = 1 .. Len(all) /\ DOMAIN s = 1 .. Len(s) /\ DOMAIN t = 1 .. Len(t)
    BY <1>1
  <2>. QED
    BY <2>1 DEF ToSet
<1>7. ToSet(all) = ToSet(s) \cup ToSet(t)
  BY <1>3, <1>4, <1>5, <1>6
<1>. QED
  BY <1>1, <1>7 DEF all

(* What is cut from the history is in the thread's state: what is shown is  *)
(* the whole of both.                                                       *)
LEMMA ShownOnes ==
  ASSUME NEW S, NEW past \in Seq(S), NEW live \in Seq(S)
  PROVE  LET shown == Deduped(SubSeq(past, 1, Cutoff(past, live)) \o live)
         IN  /\ ToSet(shown) = ToSet(past) \cup ToSet(live)
             /\ IsInjective(shown)
<1>. DEFINE P == {i \in DOMAIN past : ~Contains(live, past[i])}
            cutoff == LastOf(P)
            first == SubSeq(past, 1, cutoff)
            all == first \o live
<1>1. P \in SUBSET (1 .. Len(past)) /\ Len(past) \in Nat
  OBVIOUS
<1>2. cutoff \in P \cup {0} /\ \A j \in P : j <= cutoff
  BY <1>1, LastPlace
<1>3. cutoff \in 0 .. Len(past)
  BY <1>1, <1>2
<1>. HIDE DEF cutoff
<1>4. /\ first \in Seq(S) /\ Len(first) = cutoff
      /\ \A j \in 1 .. cutoff : first[j] = past[j]
  BY <1>3, Pieces
<1>. HIDE DEF first
<1>5. all \in Seq(S) /\ ToSet(all) = ToSet(first) \cup ToSet(live)
  BY <1>4, JoinedSet
<1>. HIDE DEF all
<1>6. ToSet(first) \subseteq ToSet(past)
  BY <1>1, <1>3, <1>4 DEF ToSet
<1>7. ToSet(past) \subseteq ToSet(first) \cup ToSet(live)
  <2>. SUFFICES ASSUME NEW i \in 1 .. Len(past), past[i] \notin ToSet(live)
                PROVE  past[i] \in ToSet(first)
    BY DEF ToSet
  <2>1. i \in P
    BY DEF Contains, ToSet
  <2>2. i \in 1 .. cutoff
    BY <1>2, <1>3, <2>1
  <2>. QED
    BY <1>4, <2>2 DEF ToSet
<1>8. ToSet(Deduped(all)) = ToSet(all) /\ IsInjective(Deduped(all))
  BY <1>5, DedupedOnes
<1>. QED
  BY <1>5, <1>6, <1>7, <1>8 DEF all, first, cutoff, Cutoff

(* The runs there may be, those that the query has told of, and among these *)
(* those of the thread on display.                                          *)
ThreadRuns == Threads \X (1 .. MaxRuns)
ToldRuns == {r \in ThreadRuns : r[2] <= cached[r[1]]}
ViewedRuns == {r \in ToldRuns : r[1] = viewed}

RunMessages == UNION {ToSet(Page(r)) : r \in ThreadRuns}
Requests == {NoLoad} \cup {[thread |-> r[1], run |-> r] : r \in ToldRuns}

(* What the hook may be when R are the runs of its thread, and when it also *)
(* has the messages of the runs that count as loaded, and each once.        *)
HookTypes(R) ==
  [runs : Seq(R), index : Nat, loading : BOOLEAN, pending : BOOLEAN,
   fetching : {NoRun} \cup R, loaded : SUBSET R, messages : Seq(RunMessages)]

Shapes(R) == {h \in HookTypes(R) : h.index <= Len(h.runs)}

Hooks(R) ==
  {h \in Shapes(R) : /\ IsInjective(h.messages)
                     /\ ToSet(h.messages) = UNION {ToSet(Page(r)) : r \in h.loaded}}

(* The hook has to do only with the thread on display, and every request    *)
(* names the thread of its run: what arrives for the thread on display is   *)
(* of a run of it, whatever was requested before.                           *)
HistoryInv ==
  /\ made \in [Threads -> 0 .. MaxRuns] /\ cached \in [Threads -> 0 .. MaxRuns]
  /\ \A t \in Threads : cached[t] <= made[t]
  /\ viewed \in Threads /\ views \in 0 .. MaxViews /\ loadErrors \in 0 .. MaxLoadErrors
  /\ hook \in Hooks(ViewedRuns)
  /\ loads \in [Slots -> Requests]

(* A message of a page is of the run's thread. *)
LEMMA PageOfThread ==
  ASSUME NEW r \in ThreadRuns
  PROVE  Page(r) \in Seq(RunMessages) /\ \A m \in ToSet(Page(r)) : m[1] = r[1]
<1>. DEFINE S == {Append(r, m) : m \in 1 .. RunLength}
            all == MessagesOf(r)
            rows == Newest(all, PageLimit + 1)
<1>1. RunLength \in Nat /\ PageLimit \in Nat
  BY HistoryAssumption DEF HistoryAssumption
<1>2. all \in Seq(S)
  BY <1>1 DEF MessagesOf
<1>. HIDE DEF all
<1>3. rows \in Seq(S)
  <2>1. CASE Len(all) <= PageLimit + 1
    BY <1>2, <2>1 DEF Newest
  <2>2. CASE ~(Len(all) <= PageLimit + 1)
    <3>. DEFINE n == Len(all) - (PageLimit + 1)
    <3>1. n \in 0 .. Len(all)
      BY <1>1, <1>2, <2>2
    <3>2. SubSeq(all, n + 1, Len(all)) \in Seq(S)
      <4>. HIDE DEF n, S
      <4>. QED
        BY <1>2, <3>1, Pieces
    <3>3. rows = SubSeq(all, n + 1, Len(all))
      BY <2>2 DEF Newest
    <3>. QED
      BY <3>2, <3>3
  <2>. QED
    BY <2>1, <2>2
<1>4. Page(r) = IF Len(rows) > PageLimit THEN SubSeq(rows, 1, PageLimit) ELSE rows
  BY DEF Page, all
<1>. HIDE DEF rows
<1>5. Page(r) \in Seq(S)
  <2>1. CASE Len(rows) > PageLimit
    <3>1. PageLimit \in 0 .. Len(rows)
      BY <1>1, <1>3, <2>1
    <3>2. SubSeq(rows, 1, PageLimit) \in Seq(S)
      <4>. HIDE DEF S
      <4>. QED
        BY <1>3, <3>1, Pieces
    <3>. QED
      BY <1>4, <2>1, <3>2
  <2>2. CASE ~(Len(rows) > PageLimit)
    BY <1>3, <1>4, <2>2
  <2>. QED
    BY <2>1, <2>2
<1>6. \A m \in S : m[1] = r[1]
  <2>1. PICK t \in Threads, n \in 1 .. MaxRuns : r = <<t, n>>
    BY DEF ThreadRuns
  <2>2. ASSUME NEW k \in 1 .. RunLength
        PROVE  Append(r, k)[1] = r[1]
    BY <2>1
  <2>. QED
    BY <2>2
<1>7. ToSet(Page(r)) \subseteq S
  <2>. HIDE DEF S
  <2>. QED
    BY <1>5 DEF ToSet
<1>8. Page(r) \in Seq(RunMessages)
  <2>. HIDE DEF S
  <2>1. \A i \in 1 .. Len(Page(r)) : Page(r)[i] \in RunMessages
    BY <1>5 DEF RunMessages, ToSet
  <2>. QED
    BY <1>5, <2>1
<1>. QED
  BY <1>6, <1>7, <1>8

(* The run to load next is one of the list. *)
LEMMA UnloadedPlace ==
  ASSUME NEW S, NEW h, h.runs \in Seq(S)
  PROVE  LatestUnloaded(h) \in 0 .. Len(h.runs)
<1>. DEFINE P == {i \in DOMAIN h.runs : h.runs[i] \notin h.loaded}
<1>1. P \in SUBSET (1 .. Len(h.runs)) /\ Len(h.runs) \in Nat
  OBVIOUS
<1>2. LastOf(P) \in P \cup {0}
  BY <1>1, LastPlace
<1>. QED
  BY <1>1, <1>2 DEF LatestUnloaded

(* The end of a load, and a turn of its loop: what is fetched is listed, and *)
(* neither is about what is loaded.                                         *)
LEMMA FinallyKeeps ==
  ASSUME NEW R, NEW h \in Shapes(R)
  PROVE  /\ Finally(h) \in Shapes(R) /\ ~Finally(h).loading
         /\ Finally(h).messages = h.messages /\ Finally(h).loaded = h.loaded
BY DEF Finally, Shapes, HookTypes

LEMMA TurnedKeeps ==
  ASSUME NEW R, NEW h \in Shapes(R)
  PROVE  /\ Turned(h) \in Shapes(R) /\ (Turned(h).loading => Turned(h).fetching \in R)
         /\ Turned(h).messages = h.messages /\ Turned(h).loaded = h.loaded
<1>. DEFINE i == LatestUnloaded(h)
            g == [h EXCEPT !.pending = FALSE, !.index = i]
<1>1. h.runs \in Seq(R)
  BY DEF Shapes, HookTypes
<1>2. i \in Nat /\ i <= Len(h.runs)
  <2>1. i \in 0 .. Len(h.runs)
    BY <1>1, UnloadedPlace
  <2>. HIDE DEF i
  <2>. QED
    BY <1>1, <2>1
<1>. HIDE DEF i
<1>3. g \in Shapes(R) /\ g.messages = h.messages /\ g.loaded = h.loaded
  <2>1. g \in HookTypes(R) /\ g.index = i /\ g.runs = h.runs
    BY <1>2 DEF Shapes, HookTypes
  <2>2. g.messages = h.messages /\ g.loaded = h.loaded
    BY DEF Shapes, HookTypes
  <2>. HIDE DEF g
  <2>. QED
    BY <1>2, <2>1, <2>2 DEF Shapes
<1>4. CASE i = 0
  <2>. HIDE DEF g
  <2>1. Turned(h) = Finally(g)
    BY <1>4 DEF Turned, g, i
  <2>. QED
    BY <1>3, <2>1, FinallyKeeps
<1>5. CASE i # 0
  <2>1. h.runs[i] \in R
    BY <1>1, <1>2, <1>5
  <2>. DEFINE f == [g EXCEPT !.fetching = h.runs[i]]
  <2>2. Turned(h) = f
    BY <1>5 DEF Turned, i
  <2>. HIDE DEF g
  <2>3. /\ f \in Shapes(R) /\ f.fetching = h.runs[i]
        /\ f.messages = g.messages /\ f.loaded = g.loaded
    BY <1>3, <2>1 DEF Shapes, HookTypes
  <2>. QED
    BY <1>3, <2>1, <2>2, <2>3
<1>. QED
  BY <1>4, <1>5

(* Both keep what the hook has of the loaded runs. *)
LEMMA LoopKeeps ==
  ASSUME NEW R, NEW h \in Hooks(R)
  PROVE  /\ Finally(h) \in Hooks(R)
         /\ Turned(h) \in Hooks(R) /\ (Turned(h).loading => Turned(h).fetching \in R)
<1>1. h \in Shapes(R)
  BY DEF Hooks
<1>. QED
  BY <1>1, FinallyKeeps, TurnedKeeps DEF Hooks

(* loadMessages, of whatever thread. *)
LEMMA LoadKeeps ==
  ASSUME NEW R, NEW Q, NEW h \in Hooks(R), NEW t, Load(h, t), loads \in [Slots -> Q],
         \A r \in R : [thread |-> t, run |-> r] \in Q
  PROVE  hook' \in Hooks(R) /\ loads' \in [Slots -> Q]
<1>. DEFINE begun == [h EXCEPT !.loading = TRUE]
            waits == [h EXCEPT !.pending = @ \/ AnotherWaits(h)]
<1>1. begun \in Hooks(R)
  BY DEF Hooks, Shapes, HookTypes
<1>2. waits \in Hooks(R) /\ waits.loading = h.loading
  <2>1. (h.pending \/ AnotherWaits(h)) \in BOOLEAN
    BY DEF Hooks, Shapes, HookTypes
  <2>. QED
    BY <2>1 DEF Hooks, Shapes, HookTypes
<1>3. Turned(begun) \in Hooks(R) /\ (Turned(begun).loading => Turned(begun).fetching \in R)
  <2>. HIDE DEF begun
  <2>. QED
    BY <1>1, LoopKeeps
<1>4. hook' = LoadMessages(h)
  BY DEF Load
<1>5. \/ hook' = waits /\ h.loading
      \/ hook' = h
      \/ hook' = Turned(begun)
  BY <1>4 DEF LoadMessages
<1>. HIDE DEF begun, waits
<1>6. hook' \in Hooks(R)
  BY <1>2, <1>3, <1>5
<1>7. ~h.loading /\ hook'.loading => hook'.fetching \in R
  BY <1>2, <1>3, <1>5
<1>8. loads' \in [Slots -> Q]
  <2>1. CASE ~h.loading /\ hook'.loading
    <3>1. PICK s \in Slots :
            loads' = [loads EXCEPT ![s] = [thread |-> t, run |-> hook'.fetching]]
      BY <2>1 DEF Load
    <3>2. [thread |-> t, run |-> hook'.fetching] \in Q
      BY <1>7, <2>1
    <3>. QED
      BY <3>1, <3>2
  <2>2. CASE ~(~h.loading /\ hook'.loading)
    BY <2>2 DEF Load
  <2>. QED
    BY <2>1, <2>2
<1>. QED
  BY <1>6, <1>8

(* The list of the query takes the place of the hook's. *)
LEMMA WithRunsKeeps ==
  ASSUME NEW R, NEW h \in Hooks(R), NEW t, NEW n \in Nat, \A k \in 1 .. n : <<t, k>> \in R
  PROVE  WithRuns(h, t, n) \in Hooks(R)
<1>. DEFINE g == [h EXCEPT !.runs = Listed(t, n)]
<1>1. Listed(t, n) \in Seq(R)
  <2>1. \A i \in 1 .. n : n + 1 - i \in 1 .. n
    OBVIOUS
  <2>2. \A i \in 1 .. n : <<t, n + 1 - i>> \in R
    BY <2>1
  <2>. QED
    BY <2>2 DEF Listed
<1>2. g.runs = Listed(t, n)
  BY DEF Hooks, Shapes, HookTypes
<1>3. LatestUnloaded(g) \in 0 .. Len(Listed(t, n))
  <2>. HIDE DEF g
  <2>. QED
    BY <1>1, <1>2, UnloadedPlace
<1>4. [g EXCEPT !.index = LatestUnloaded(g)] \in Hooks(R)
  <2>. DEFINE i == LatestUnloaded(g)
  <2>. DEFINE f == [g EXCEPT !.index = i]
  <2>1. i \in Nat /\ i <= Len(Listed(t, n))
    BY <1>1, <1>3
  <2>. HIDE DEF i
  <2>2. /\ f \in HookTypes(R)
        /\ f.index = i /\ f.runs = Listed(t, n)
        /\ f.loaded = h.loaded /\ f.messages = h.messages
    BY <1>1, <2>1 DEF Hooks, Shapes, HookTypes
  <2>. HIDE DEF f
  <2>3. f \in Hooks(R)
    BY <2>1, <2>2 DEF Hooks, Shapes, HookTypes
  <2>. QED
    BY <2>3 DEF f, i
<1>. QED
  BY <1>4 DEF WithRuns

(* The page of run r puts what it has with the messages, and the run with   *)
(* those that are loaded.                                                   *)
LEMMA PageAdded ==
  ASSUME NEW R \in SUBSET ThreadRuns, NEW h \in Hooks(R), NEW r \in R,
         NEW g \in Shapes(R), g.messages = h.messages, g.loaded = h.loaded \cup {r}
  PROVE  [g EXCEPT !.messages = Deduped(Page(r) \o @)] \in Hooks(R)
<1>. DEFINE all == Page(r) \o h.messages
            d == Deduped(all)
            f == [g EXCEPT !.messages = d]
<1>1. Page(r) \in Seq(RunMessages) /\ h.messages \in Seq(RunMessages)
  BY PageOfThread DEF Hooks, Shapes, HookTypes
<1>2. all \in Seq(RunMessages) /\ ToSet(all) = ToSet(Page(r)) \cup ToSet(h.messages)
  BY <1>1, JoinedSet
<1>3. /\ d \in Seq(RunMessages) /\ IsInjective(d)
      /\ ToSet(d) = ToSet(Page(r)) \cup ToSet(h.messages)
  <2>. HIDE DEF all
  <2>. QED
    BY <1>2, DedupedOnes
<1>. HIDE DEF d
<1>4. ToSet(d) = UNION {ToSet(Page(q)) : q \in g.loaded}
  <2>1. ToSet(h.messages) = UNION {ToSet(Page(q)) : q \in h.loaded}
    BY DEF Hooks
  <2>. QED
    BY <1>3, <2>1
<1>5. f \in Shapes(R) /\ f.messages = d /\ f.loaded = g.loaded
  BY <1>3 DEF Shapes, HookTypes
<1>6. f \in Hooks(R)
  <2>. HIDE DEF f
  <2>. QED
    BY <1>3, <1>4, <1>5 DEF Hooks
<1>. QED
  BY <1>6 DEF d

(* The hook once run r counts as loaded. *)
Counted(h, r) ==
  LET g == [h EXCEPT !.loaded = @ \union {r}]
  IN  [g EXCEPT !.index = LatestUnloaded(g)]

LEMMA CountedShape ==
  ASSUME NEW R, NEW h \in Shapes(R), NEW r \in R
  PROVE  LET f == Counted(h, r)
         IN  f \in Shapes(R) /\ f.messages = h.messages /\ f.loaded = h.loaded \cup {r}
<1>. DEFINE g == [h EXCEPT !.loaded = @ \union {r}]
            i == LatestUnloaded(g)
            f == Counted(h, r)
<1>1. /\ g \in Shapes(R) /\ g.messages = h.messages /\ g.loaded = h.loaded \cup {r}
      /\ g.runs \in Seq(R)
  BY DEF Shapes, HookTypes
<1>. HIDE DEF g
<1>2. i \in Nat /\ i <= Len(g.runs)
  <2>1. i \in 0 .. Len(g.runs)
    BY <1>1, UnloadedPlace
  <2>. HIDE DEF i
  <2>. QED
    BY <1>1, <2>1
<1>3. f = [g EXCEPT !.index = i]
  BY DEF Counted, g
<1>. HIDE DEF f, i
<1>4. /\ f \in HookTypes(R) /\ f.index = i /\ f.runs = g.runs
      /\ f.messages = g.messages /\ f.loaded = g.loaded
  BY <1>3, <1>1, <1>2 DEF Shapes, HookTypes
<1>5. f \in Shapes(R)
  BY <1>2, <1>4 DEF Shapes
<1>. QED
  BY <1>1, <1>4, <1>5 DEF f

LEMMA MoreRuns ==
  ASSUME NEW R, NEW R2, R \subseteq R2
  PROVE  Hooks(R) \subseteq Hooks(R2)
BY DEF Hooks, Shapes, HookTypes

LEMMA FreshHook ==
  ASSUME NEW R
  PROVE  Fresh \in Hooks(R)
<1>1. /\ Fresh.runs = << >> /\ Fresh.index = 0 /\ Fresh.loaded = {} /\ Fresh.messages = << >>
      /\ Fresh \in HookTypes(R)
  BY DEF Fresh, HookTypes
<1>2. ToSet(<< >>) = {} /\ IsInjective(<< >>) /\ Len(<< >>) = 0
  BY DEF ToSet, IsInjective
<1>. QED
  BY <1>1, <1>2 DEF Hooks, Shapes

(* The runs told of stay told of, so what was requested stays a request.    *)
LEMMA StillTold ==
  ASSUME HistoryInv, \A t \in Threads : cached[t] <= cached'[t],
         cached' \in [Threads -> 0 .. MaxRuns], viewed' \in Threads
  PROVE  /\ ToldRuns \subseteq ToldRuns' /\ Requests \subseteq Requests'
         /\ viewed' = viewed => ViewedRuns \subseteq ViewedRuns'
         /\ \A k \in 1 .. cached'[viewed'] : <<viewed', k>> \in ViewedRuns'
         /\ \A r \in ViewedRuns' : [thread |-> viewed', run |-> r] \in Requests'
<1>0. MaxRuns \in Nat
  BY HistoryAssumption DEF HistoryAssumption
<1>1. ASSUME NEW r \in ToldRuns
      PROVE  r \in ToldRuns'
  <2>1. PICK t \in Threads, n \in 1 .. MaxRuns : r = <<t, n>>
    BY DEF ToldRuns, ThreadRuns
  <2>2. n <= cached[t] /\ cached[t] <= cached'[t]
    BY <2>1 DEF ToldRuns
  <2>3. cached[t] \in Nat /\ cached'[t] \in Nat
    BY <1>0 DEF HistoryInv
  <2>4. n <= cached'[t]
    BY <1>0, <2>2, <2>3
  <2>. QED
    BY <2>1, <2>4 DEF ToldRuns, ThreadRuns
<1>2. Requests \subseteq Requests'
  BY <1>1 DEF Requests
<1>3. viewed' = viewed => ViewedRuns \subseteq ViewedRuns'
  BY <1>1 DEF ViewedRuns
<1>4. ASSUME NEW k \in 1 .. cached'[viewed']
      PROVE  <<viewed', k>> \in ViewedRuns'
  <2>1. cached'[viewed'] \in 0 .. MaxRuns
    OBVIOUS
  <2>2. k \in 1 .. MaxRuns /\ k <= cached'[viewed']
    BY <1>0, <2>1
  <2>. QED
    BY <2>2 DEF ViewedRuns, ToldRuns, ThreadRuns
<1>5. \A r \in ViewedRuns' : [thread |-> viewed', run |-> r] \in Requests'
  BY DEF ViewedRuns, Requests
<1>. QED
  BY <1>1, <1>2, <1>3, <1>4, <1>5

(* A step that changes neither the thread on display nor what is cached. *)
LEMMA NothingTold ==
  ASSUME HistoryInv, UNCHANGED <<cached, viewed>>
  PROVE  /\ Requests' = Requests /\ ViewedRuns' = ViewedRuns
         /\ \A r \in ViewedRuns : [thread |-> viewed, run |-> r] \in Requests
BY DEF Requests, ViewedRuns, ToldRuns

LEMMA MakeRunKeepsHistory ==
  ASSUME HistoryInv, NEW t \in Threads, MakeRun(t)
  PROVE  HistoryInv'
<1>0. MaxRuns \in Nat
  BY HistoryAssumption DEF HistoryAssumption
<1>1. made' \in [Threads -> 0 .. MaxRuns] /\ \A u \in Threads : cached[u] <= made'[u]
  BY <1>0 DEF MakeRun, HistoryInv
<1>2. Requests' = Requests /\ ViewedRuns' = ViewedRuns
  BY NothingTold DEF MakeRun
<1>. QED
  BY <1>1, <1>2 DEF MakeRun, HistoryInv

LEMMA ViewThreadKeepsHistory ==
  ASSUME HistoryInv, NEW t \in Threads, ViewThread(t)
  PROVE  HistoryInv'
<1>0. MaxRuns \in Nat /\ MaxViews \in Nat
  BY HistoryAssumption DEF HistoryAssumption
<1>1. /\ viewed' = t /\ views' \in 0 .. MaxViews /\ UNCHANGED <<made, cached, loadErrors>>
      /\ Load(WithRuns(Fresh, t, cached[t]), t)
  BY <1>0 DEF ViewThread, HistoryInv
<1>2. cached[t] \in Nat /\ \A u \in Threads : cached[u] <= cached[u]
  BY <1>0 DEF HistoryInv
<1>3. /\ Requests \subseteq Requests'
      /\ \A k \in 1 .. cached[t] : <<t, k>> \in ViewedRuns'
      /\ \A r \in ViewedRuns' : [thread |-> t, run |-> r] \in Requests'
  BY <1>1, <1>2, StillTold DEF HistoryInv
<1>4. WithRuns(Fresh, t, cached[t]) \in Hooks(ViewedRuns')
  BY <1>2, <1>3, FreshHook, WithRunsKeeps
<1>5. loads \in [Slots -> Requests']
  BY <1>3 DEF HistoryInv
<1>6. hook' \in Hooks(ViewedRuns') /\ loads' \in [Slots -> Requests']
  BY <1>1, <1>3, <1>4, <1>5, LoadKeeps
<1>. QED
  BY <1>1, <1>6 DEF HistoryInv

LEMMA RunsFetchedKeepsHistory ==
  ASSUME HistoryInv, NEW t \in Threads, RunsFetched(t)
  PROVE  HistoryInv'
<1>0. MaxRuns \in Nat
  BY HistoryAssumption DEF HistoryAssumption
<1>1. /\ cached' = [cached EXCEPT ![t] = made[t]]
      /\ UNCHANGED <<made, viewed, views, loadErrors>>
      /\ IF t = viewed THEN Load(WithRuns(hook, t, made[t]), t) ELSE UNCHANGED <<hook, loads>>
  BY DEF RunsFetched
<1>2. /\ cached' \in [Threads -> 0 .. MaxRuns] /\ cached'[t] = made[t]
      /\ \A u \in Threads : cached[u] <= cached'[u] /\ cached'[u] <= made[u]
  <2>1. \A u \in Threads : cached[u] \in Nat /\ made[u] \in Nat /\ cached[u] <= made[u]
    BY <1>0 DEF HistoryInv
  <2>2. \A u \in Threads : cached'[u] = IF u = t THEN made[t] ELSE cached[u]
    BY <1>1 DEF HistoryInv
  <2>3. cached' \in [Threads -> 0 .. MaxRuns]
    BY <1>1 DEF HistoryInv
  <2>. QED
    BY <2>1, <2>2, <2>3
<1>3. /\ Requests \subseteq Requests' /\ ViewedRuns \subseteq ViewedRuns'
      /\ \A k \in 1 .. cached'[viewed] : <<viewed, k>> \in ViewedRuns'
      /\ \A r \in ViewedRuns' : [thread |-> viewed, run |-> r] \in Requests'
  BY <1>1, <1>2, StillTold DEF HistoryInv
<1>4. hook \in Hooks(ViewedRuns') /\ loads \in [Slots -> Requests']
  BY <1>3, MoreRuns DEF HistoryInv
<1>5. hook' \in Hooks(ViewedRuns') /\ loads' \in [Slots -> Requests']
  <2>1. CASE t = viewed
    <3>1. made[t] \in Nat /\ \A k \in 1 .. made[t] : <<t, k>> \in ViewedRuns'
      BY <1>0, <1>2, <1>3, <2>1 DEF HistoryInv
    <3>2. WithRuns(hook, t, made[t]) \in Hooks(ViewedRuns')
      BY <1>4, <3>1, WithRunsKeeps
    <3>. QED
      BY <1>1, <1>3, <1>4, <2>1, <3>2, LoadKeeps
  <2>2. CASE t # viewed
    BY <1>1, <1>4, <2>2
  <2>. QED
    BY <2>1, <2>2
<1>. QED
  BY <1>1, <1>2, <1>5 DEF HistoryInv

LEMMA LoadMoreKeepsHistory ==
  ASSUME HistoryInv, LoadMore
  PROVE  HistoryInv'
<1>1. Load(hook, viewed) /\ UNCHANGED <<made, cached, viewed, views, loadErrors>>
  BY DEF LoadMore
<1>2. /\ Requests' = Requests /\ ViewedRuns' = ViewedRuns
      /\ \A r \in ViewedRuns : [thread |-> viewed, run |-> r] \in Requests
  BY <1>1, NothingTold
<1>3. hook' \in Hooks(ViewedRuns) /\ loads' \in [Slots -> Requests]
  BY <1>1, <1>2, LoadKeeps DEF HistoryInv
<1>. QED
  BY <1>1, <1>2, <1>3 DEF HistoryInv

(* What arrives is put with the messages only when it was requested for the *)
(* thread on display, of which its run then is.                             *)
LEMMA PageArrivesKeepsHistory ==
  ASSUME HistoryInv, NEW s \in Slots, PageArrives(s)
  PROVE  HistoryInv'
<1>. DEFINE r == loads[s].run
            g == [hook EXCEPT !.loaded = @ \union {r}]
            h == [g EXCEPT !.index = LatestUnloaded(g)]
            loop == IF h.pending THEN Turned(h) ELSE Finally(h)
            R == ViewedRuns
<1>1. loads[s] # NoLoad /\ UNCHANGED <<made, cached, viewed, views, loadErrors>>
  BY DEF PageArrives
<1>2. /\ Requests' = Requests /\ R' = R
      /\ \A q \in R : [thread |-> viewed, run |-> q] \in Requests
      /\ R \in SUBSET ThreadRuns /\ NoLoad \in Requests
      /\ hook \in Hooks(R) /\ loads \in [Slots -> Requests]
  BY <1>1, NothingTold DEF ViewedRuns, ToldRuns, HistoryInv, Requests
<1>3. CASE IsCurrent(s)
  <2>1. r \in R
    <3>1. PICK q \in ToldRuns : loads[s] = [thread |-> q[1], run |-> q]
      BY <1>1, <1>2 DEF Requests
    <3>. QED
      BY <1>3, <3>1 DEF IsCurrent, ViewedRuns
  <2>2. /\ hook' = [loop EXCEPT !.messages = Deduped(Page(r) \o @)]
        /\ loads' = [loads EXCEPT ![s] = IF h.pending /\ hook'.loading
                       THEN [thread |-> viewed, run |-> hook'.fetching] ELSE NoLoad]
    BY <1>3 DEF PageArrives
  <2>. HIDE DEF R, r
  <2>3. h \in Shapes(R) /\ h.messages = hook.messages /\ h.loaded = hook.loaded \cup {r}
    <3>1. hook \in Shapes(R)
      BY <1>2 DEF Hooks
    <3>2. h = Counted(hook, r)
      BY DEF Counted
    <3>. HIDE DEF h
    <3>. QED
      BY <2>1, <3>1, <3>2, CountedShape
  <2>. HIDE DEF h, g
  <2>4. /\ loop \in Shapes(R) /\ loop.messages = hook.messages
        /\ loop.loaded = hook.loaded \cup {r}
        /\ h.pending /\ loop.loading => loop.fetching \in R
    BY <2>3, TurnedKeeps, FinallyKeeps
  <2>. HIDE DEF loop
  <2>5. hook' \in Hooks(R)
    BY <1>2, <2>1, <2>2, <2>4, PageAdded
  <2>6. hook'.loading = loop.loading /\ hook'.fetching = loop.fetching
    BY <2>2, <2>4 DEF Shapes, HookTypes
  <2>7. (IF h.pending /\ hook'.loading
         THEN [thread |-> viewed, run |-> hook'.fetching] ELSE NoLoad) \in Requests
    BY <1>2, <2>4, <2>6
  <2>8. loads' \in [Slots -> Requests]
    BY <1>2, <2>2, <2>7
  <2>. QED
    BY <1>1, <1>2, <2>5, <2>8 DEF HistoryInv, R
<1>4. CASE ~IsCurrent(s)
  <2>1. hook' = Finally(hook) /\ loads' = [loads EXCEPT ![s] = NoLoad]
    BY <1>4 DEF PageArrives
  <2>2. hook' \in Hooks(R) /\ loads' \in [Slots -> Requests]
    BY <1>2, <2>1, LoopKeeps
  <2>. QED
    BY <1>1, <1>2, <2>2 DEF HistoryInv
<1>. QED
  BY <1>3, <1>4

LEMMA PageFailsKeepsHistory ==
  ASSUME HistoryInv, NEW s \in Slots, PageFails(s)
  PROVE  HistoryInv'
<1>0. MaxLoadErrors \in Nat
  BY HistoryAssumption DEF HistoryAssumption
<1>1. /\ hook' = Finally(hook) /\ loads' = [loads EXCEPT ![s] = NoLoad]
      /\ loadErrors' \in 0 .. MaxLoadErrors /\ UNCHANGED <<made, cached, viewed, views>>
  BY <1>0 DEF PageFails, HistoryInv
<1>2. Requests' = Requests /\ ViewedRuns' = ViewedRuns /\ NoLoad \in Requests
  BY <1>1, NothingTold DEF Requests
<1>3. hook' \in Hooks(ViewedRuns) /\ loads' \in [Slots -> Requests]
  BY <1>1, <1>2, LoopKeeps DEF HistoryInv
<1>. QED
  BY <1>1, <1>2, <1>3 DEF HistoryInv

LEMMA HistoryHolds == HistorySpec => []HistoryInv
<1>1. HistoryInit => HistoryInv
  <2>. SUFFICES ASSUME HistoryInit PROVE HistoryInv
    OBVIOUS
  <2>1. MaxRuns \in Nat /\ MaxViews \in Nat /\ MaxLoadErrors \in Nat
    BY HistoryAssumption DEF HistoryAssumption
  <2>2. cached \in [Threads -> 0 .. MaxRuns] /\ \A t \in Threads : cached[t] <= made[t]
    BY <2>1 DEF HistoryInit
  <2>3. hook \in Hooks(ViewedRuns)
    BY FreshHook DEF HistoryInit
  <2>4. loads \in [Slots -> Requests]
    BY DEF HistoryInit, Requests
  <2>. QED
    BY <2>1, <2>2, <2>3, <2>4 DEF HistoryInit, HistoryInv
<1>2. HistoryInv /\ [HistoryNext]_historyVars => HistoryInv'
  <2>. SUFFICES ASSUME HistoryInv, [HistoryNext]_historyVars PROVE HistoryInv'
    OBVIOUS
  <2>1. ASSUME NEW t \in Threads, MakeRun(t) \/ ViewThread(t) \/ RunsFetched(t)
        PROVE  HistoryInv'
    BY <2>1, MakeRunKeepsHistory, ViewThreadKeepsHistory, RunsFetchedKeepsHistory
  <2>2. CASE LoadMore
    BY <2>2, LoadMoreKeepsHistory
  <2>3. ASSUME NEW s \in Slots, PageArrives(s) \/ PageFails(s)
        PROVE  HistoryInv'
    BY <2>3, PageArrivesKeepsHistory, PageFailsKeepsHistory
  <2>4. CASE UNCHANGED historyVars
    <3>1. UNCHANGED <<made, cached, viewed, hook, loads, views, loadErrors>>
      BY <2>4 DEF historyVars
    <3>2. Requests' = Requests /\ ViewedRuns' = ViewedRuns
      BY <3>1, NothingTold
    <3>. QED
      BY <3>1, <3>2 DEF HistoryInv
  <2>. QED
    BY <2>1, <2>2, <2>3, <2>4 DEF HistoryNext
<1>. QED
  BY <1>1, <1>2, PTL DEF HistorySpec

(* The variables of the history keep their types, and every load in flight  *)
(* is of a run that the list of its thread had.                             *)
THEOREM HistoryTypes == HistorySpec => []HistoryTypeOK
<1>1. HistoryInv => HistoryTypeOK
  <2>. SUFFICES ASSUME HistoryInv PROVE HistoryTypeOK
    OBVIOUS
  <2>1. /\ hook.index \in 0 .. Len(hook.runs)
        /\ {hook.loading, hook.pending} \subseteq BOOLEAN
        /\ hook.fetching \in {NoRun} \union (Threads \X (1 .. MaxRuns))
    <3>1. hook \in HookTypes(ViewedRuns) /\ hook.index <= Len(hook.runs)
      BY DEF HistoryInv, Hooks, Shapes
    <3>2. ViewedRuns \subseteq Threads \X (1 .. MaxRuns)
      BY DEF ViewedRuns, ToldRuns, ThreadRuns
    <3>. QED
      BY <3>1, <3>2 DEF HookTypes
  <2>2. ASSUME NEW s \in Slots, loads[s] # NoLoad
        PROVE  /\ loads[s].run[1] = loads[s].thread
               /\ loads[s].run[2] \in 1 .. cached[loads[s].thread]
    <3>1. PICK r \in ToldRuns : loads[s] = [thread |-> r[1], run |-> r]
      BY <2>2 DEF HistoryInv, Requests
    <3>2. PICK t \in Threads, n \in 1 .. MaxRuns : r = <<t, n>>
      BY DEF ToldRuns, ThreadRuns
    <3>3. n <= cached[t] /\ cached[t] \in 0 .. MaxRuns
      BY <3>2 DEF ToldRuns, HistoryInv
    <3>4. MaxRuns \in Nat
      BY HistoryAssumption DEF HistoryAssumption
    <3>5. n \in 1 .. cached[t]
      BY <3>3, <3>4
    <3>. QED
      BY <3>1, <3>2, <3>5
  <2>. QED
    BY <2>1, <2>2 DEF HistoryInv, HistoryTypeOK
<1>. QED
  BY <1>1, HistoryHolds, PTL

(* Whatever loads were in flight when the user changed threads, what is     *)
(* displayed are the messages of the loaded runs and of the state of the    *)
(* thread on display, each once, and of no other thread.                    *)
THEOREM HistoryIsOfThread == HistorySpec => []HistoryOfThread
<1>1. HistoryInv => HistoryOfThread
  <2>. SUFFICES ASSUME HistoryInv PROVE HistoryOfThread
    OBVIOUS
  <2>. DEFINE live == Live(viewed)
              n == RunLength * (IF made[viewed] > Forgotten THEN made[viewed] - Forgotten ELSE 0)
              S == ToSet(hook.messages) \cup ToSet(live)
  <2>1. n \in Nat
    <3>1. made[viewed] \in Nat /\ Forgotten \in Nat /\ RunLength \in Nat
      BY HistoryAssumption DEF HistoryAssumption, HistoryInv
    <3>2. (IF made[viewed] > Forgotten THEN made[viewed] - Forgotten ELSE 0) \in Nat
      BY <3>1
    <3>. QED
      BY <3>1, <3>2
  <2>2. DOMAIN live = 1 .. n /\ \A k \in 1 .. n : live[k][1] = viewed
    BY DEF Live
  <2>3. live = [k \in 1 .. n |-> live[k]]
    BY DEF Live
  <2>. HIDE DEF live, n
  <2>4. live \in Seq(S) /\ \A m \in ToSet(live) : m[1] = viewed
    <3>1. \A k \in 1 .. n : live[k] \in S
      BY <2>2 DEF ToSet
    <3>2. [k \in 1 .. n |-> live[k]] \in Seq(S)
      BY <2>1, <3>1
    <3>. QED
      BY <2>2, <2>3, <3>2 DEF ToSet
  <2>5. hook.messages \in Seq(S)
    <3>1. hook.messages \in Seq(RunMessages)
      BY DEF HistoryInv, Hooks, Shapes, HookTypes
    <3>2. \A i \in 1 .. Len(hook.messages) : hook.messages[i] \in S
      BY <3>1 DEF ToSet
    <3>. QED
      BY <3>1, <3>2
  <2>6. Displayed = Deduped(SubSeq(hook.messages, 1, Cutoff(hook.messages, live)) \o live)
    BY DEF Displayed, live
  <2>7. ToSet(Displayed) = ToSet(hook.messages) \cup ToSet(live) /\ IsInjective(Displayed)
    <3>. HIDE DEF S
    <3>. QED
      BY <2>4, <2>5, <2>6, ShownOnes
  <2>8. ToSet(hook.messages) = UNION {ToSet(Page(r)) : r \in hook.loaded}
        /\ hook.loaded \subseteq ViewedRuns
    BY DEF HistoryInv, Hooks, Shapes, HookTypes
  <2>9. \A m \in ToSet(hook.messages) : m[1] = viewed
    <3>1. ASSUME NEW r \in hook.loaded, NEW m \in ToSet(Page(r))
          PROVE  m[1] = viewed
      <4>1. r \in ThreadRuns /\ r[1] = viewed
        BY <2>8 DEF ViewedRuns, ToldRuns
      <4>. QED
        BY <4>1, PageOfThread
    <3>. QED
      BY <2>8, <3>1
  <2>10. ToSet(Displayed) =
           (UNION {ToSet(Page(r)) : r \in hook.loaded}) \union ToSet(Live(viewed))
    BY <2>7, <2>8 DEF live
  <2>11. \A m \in ToSet(Displayed) : m[1] = viewed
    BY <2>4, <2>7, <2>9
  <2>. QED
    BY <2>7, <2>10, <2>11 DEF HistoryOfThread
<1>. QED
  BY <1>1, HistoryHolds, PTL

-----------------------------------------------------------------------------
(* Transcript: any ids, any length of the history and any number of calls.  *)

(* A set of numbers that has 0, and with each number below n the next one,  *)
(* has all of them up to n.                                                 *)
LEMMA Climb ==
  ASSUME NEW n \in Nat, NEW T, 0 \in T, \A i \in 0 .. n - 1 : i \in T => i + 1 \in T
  PROVE  \A i \in 0 .. n : i \in T
<1>. DEFINE D == {i \in 1 .. n : i \notin T}
<1>1. D \in SUBSET (1 .. n)
  OBVIOUS
<1>2. D = {}
  <2>. SUFFICES ASSUME NEW e \in D PROVE FALSE
    OBVIOUS
  <2>1. Cardinality(D) \in Nat /\ Rank(D, e) \in 1 .. Cardinality(D)
    BY <1>1, Ranks
  <2>2. 1 \in 1 .. Cardinality(D)
    BY <2>1
  <2>3. PICK d \in D : Rank(D, d) = 1
    BY <1>1, <2>2, Ranks
  <2>4. d - 1 \notin D
    <3>. SUFFICES ASSUME d - 1 \in D PROVE FALSE
      OBVIOUS
    <3>1. d \in Nat /\ d - 1 < d
      OBVIOUS
    <3>2. Rank(D, d - 1) < Rank(D, d)
      BY <1>1, <3>1, Ranks
    <3>3. Rank(D, d - 1) \in 1 .. Cardinality(D)
      BY <1>1, Ranks
    <3>. QED
      BY <2>1, <2>3, <3>2, <3>3
  <2>5. d - 1 \in 0 .. n - 1 /\ d - 1 \in T /\ (d - 1) + 1 = d
    BY <2>4
  <2>. QED
    BY <2>5
<1>. QED
  BY <1>2

(* The recursive function of FlattenSeq is what its equation says. *)
LEMMA FlattenSeqExists ==
  ASSUME NEW S, NEW s \in Seq(Seq(S)), Len(s) # 0
  PROVE  \E f : /\ f = [i \in 1 .. Len(s) |-> IF i = 1 THEN s[i] ELSE f[i - 1] \o s[i]]
                /\ FlattenSeq(s) = f[Len(s)]
<1>. DEFINE n == Len(s)
            Eq(f, j) == f = [i \in 1 .. j |-> IF i = 1 THEN s[i] ELSE f[i - 1] \o s[i]]
            T == {j \in 0 .. n : \E f : Eq(f, j)}
<1>1. n \in Nat
  OBVIOUS
<1>2. 0 \in T
  <2>1. ASSUME NEW f, f = [i \in 1 .. 0 |-> {}]
        PROVE  Eq(f, 0)
    BY <2>1
  <2>2. \E f : Eq(f, 0)
    <3>. HIDE DEF Eq
    <3>1. \E f : f = [i \in 1 .. 0 |-> {}]
      OBVIOUS
    <3>. QED
      BY <2>1, <3>1
  <2>3. 0 \in 0 .. n
    BY <1>1
  <2>. HIDE DEF Eq, n
  <2>. QED
    BY <2>2, <2>3
<1>3. ASSUME NEW j \in 0 .. n - 1, j \in T
      PROVE  j + 1 \in T
  <2>1. PICK f : Eq(f, j)
    BY <1>3
  <2>. DEFINE g == [i \in 1 .. j + 1 |-> IF i = 1 THEN s[i] ELSE f[i - 1] \o s[i]]
  <2>2. \A i \in 1 .. j : g[i] = f[i]
    <3>1. \A i \in 1 .. j : i \in 1 .. j + 1
      BY <1>1
    <3>. QED
      BY <2>1, <3>1
  <2>3. \A i \in 1 .. j + 1 : i # 1 => i - 1 \in 1 .. j
    BY <1>1
  <2>4. Eq(g, j + 1)
    <3>1. ASSUME NEW i \in 1 .. j + 1
          PROVE  (IF i = 1 THEN s[i] ELSE f[i - 1] \o s[i]) =
                 (IF i = 1 THEN s[i] ELSE g[i - 1] \o s[i])
      <4>. HIDE DEF g
      <4>. QED
        BY <2>2, <2>3
    <3>2. g = [i \in 1 .. j + 1 |-> IF i = 1 THEN s[i] ELSE g[i - 1] \o s[i]]
      <4>1. g = [i \in 1 .. j + 1 |-> IF i = 1 THEN s[i] ELSE f[i - 1] \o s[i]]
        OBVIOUS
      <4>. HIDE DEF g
      <4>. QED
        BY <3>1, <4>1
    <3>. QED
      BY <3>2
  <2>5. \E h : Eq(h, j + 1)
    BY <2>4
  <2>6. j + 1 \in 0 .. n
    BY <1>1
  <2>. QED
    BY <2>5, <2>6
<1>4. n \in T
  <2>. HIDE DEF T, n
  <2>1. \A i \in 0 .. n : i \in T
    BY <1>1, <1>2, <1>3, Climb
  <2>. QED
    BY <1>1, <2>1
<1>5. \E f : Eq(f, n)
  BY <1>4
<1>. DEFINE f == CHOOSE f : Eq(f, n)
<1>6. Eq(f, n)
  <2>. HIDE DEF Eq
  <2>. QED
    BY <1>5
<1>7. FlattenSeq(s) = f[n]
  BY DEF FlattenSeq
<1>. HIDE DEF f
<1>. QED
  BY <1>6, <1>7

\* Each element of the parts has its place in all, after those of the parts
\* before, and all has nothing else.
Placed(parts, all, off) ==
  /\ \A i \in 1 .. Len(parts) : \A k \in 1 .. Len(parts[i]) :
       off[i] + k \in 1 .. Len(all) /\ all[off[i] + k] = parts[i][k]
  /\ \A m \in DOMAIN all :
       \E i \in 1 .. Len(parts) : \E k \in 1 .. Len(parts[i]) : m = off[i] + k

(* What FlattenSeq returns. *)
LEMMA Flattened ==
  ASSUME NEW S, NEW s \in Seq(Seq(S))
  PROVE  /\ FlattenSeq(s) \in Seq(S)
         /\ \E off \in [1 .. Len(s) -> Nat] : Placed(s, FlattenSeq(s), off)
<1>. DEFINE n == Len(s)
<1>1. n \in Nat /\ \A i \in 1 .. n : s[i] \in Seq(S) /\ Len(s[i]) \in Nat
  OBVIOUS
<1>2. CASE n = 0
  <2>1. FlattenSeq(s) = << >>
    BY <1>2 DEF FlattenSeq
  <2>2. DOMAIN FlattenSeq(s) = {} /\ 1 .. n = {} /\ FlattenSeq(s) \in Seq(S)
    BY <1>2, <2>1
  <2>3. [i \in 1 .. n |-> 0] \in [1 .. n -> Nat]
    OBVIOUS
  <2>4. \A off : Placed(s, FlattenSeq(s), off)
    BY <2>2 DEF Placed
  <2>. QED
    BY <2>2, <2>3, <2>4
<1>3. CASE n # 0
  <2>1. PICK f : /\ f = [i \in 1 .. n |-> IF i = 1 THEN s[i] ELSE f[i - 1] \o s[i]]
                 /\ FlattenSeq(s) = f[n]
    BY <1>3, FlattenSeqExists
  <2>2. \A i \in 1 .. n : f[i] = IF i = 1 THEN s[i] ELSE f[i - 1] \o s[i]
    BY <2>1
  <2>. DEFINE off == [i \in 1 .. n |-> IF i = 1 THEN 0 ELSE Len(f[i - 1])]
              Typed == {j \in 0 .. n : j = 0 \/ f[j] \in Seq(S)}
              Right(j) == \A i \in 1 .. j : \A k \in 1 .. Len(s[i]) :
                            off[i] + k \in 1 .. Len(f[j]) /\ f[j][off[i] + k] = s[i][k]
              Whole(j) == \A m \in 1 .. Len(f[j]) :
                            \E i \in 1 .. j : \E k \in 1 .. Len(s[i]) : m = off[i] + k
              Done == {j \in 0 .. n : j = 0 \/ (Right(j) /\ Whole(j))}
  <2>. HIDE DEF n
  <2>3. \A j \in 1 .. n : f[j] \in Seq(S)
    <3>1. 0 \in Typed
      BY <1>1
    <3>2. ASSUME NEW j \in 0 .. n - 1, j \in Typed
          PROVE  j + 1 \in Typed
      <4>1. j + 1 \in 1 .. n /\ j + 1 \in 0 .. n /\ (j + 1 = 1 <=> j = 0) /\ (j + 1) - 1 = j
        BY <1>1
      <4>2. f[j + 1] = IF j = 0 THEN s[j + 1] ELSE f[j] \o s[j + 1]
        BY <2>2, <4>1
      <4>3. s[j + 1] \in Seq(S)
        BY <1>1, <4>1
      <4>4. f[j + 1] \in Seq(S)
        BY <3>2, <4>2, <4>3
      <4>. QED
        BY <4>1, <4>4
    <3>. HIDE DEF Typed
    <3>3. \A j \in 0 .. n : j \in Typed
      BY <1>1, <3>1, <3>2, Climb
    <3>. QED
      BY <1>1, <3>3 DEF Typed
  <2>4. off \in [1 .. n -> Nat] /\ \A i \in 1 .. n : i # 1 => off[i] = Len(f[i - 1])
    <3>1. ASSUME NEW i \in 1 .. n, i # 1
          PROVE  Len(f[i - 1]) \in Nat
      <4>1. i - 1 \in 1 .. n
        BY <1>1, <3>1
      <4>. QED
        BY <2>3, <4>1
    <3>. QED
      BY <3>1
  <2>5. off[1] = 0
    BY <1>1, <1>3
  <2>. HIDE DEF off
  <2>6. ASSUME NEW j \in 0 .. n - 1, j \in Done
        PROVE  j + 1 \in Done
    <3>1. j + 1 \in 1 .. n /\ j + 1 \in 0 .. n /\ (j + 1 = 1 <=> j = 0) /\ (j + 1) - 1 = j
      BY <1>1
    <3>2. s[j + 1] \in Seq(S) /\ Len(s[j + 1]) \in Nat /\ off[j + 1] \in Nat
      BY <1>1, <2>4, <3>1
    <3>7. ASSUME j # 0
          PROVE  f[j + 1] = f[j] \o s[j + 1] /\ off[j + 1] = Len(f[j]) /\ f[j] \in Seq(S)
      <4>1. j \in 1 .. n
        BY <1>1, <3>7
      <4>2. f[j] \in Seq(S)
        BY <2>3, <4>1
      <4>3. off[j + 1] = Len(f[(j + 1) - 1])
        BY <2>4, <3>1, <3>7
      <4>4. f[j + 1] = f[(j + 1) - 1] \o s[j + 1]
        BY <2>2, <3>1, <3>7
      <4>. QED
        BY <3>1, <4>2, <4>3, <4>4
    <3>3. /\ Len(f[j + 1]) = off[j + 1] + Len(s[j + 1])
          /\ \A k \in 1 .. Len(s[j + 1]) : f[j + 1][off[j + 1] + k] = s[j + 1][k]
      <4>1. CASE j = 0
        <5>1. f[j + 1] = s[j + 1] /\ off[j + 1] = 0
          BY <2>2, <2>5, <3>1, <4>1
        <5>. QED
          BY <3>2, <5>1
      <4>2. CASE j # 0
        <5>1. f[j + 1] = f[j] \o s[j + 1] /\ off[j + 1] = Len(f[j]) /\ f[j] \in Seq(S)
          BY <3>7, <4>2
        <5>2. /\ Len(f[j] \o s[j + 1]) = Len(f[j]) + Len(s[j + 1])
              /\ \A k \in 1 .. Len(s[j + 1]) : (f[j] \o s[j + 1])[Len(f[j]) + k] = s[j + 1][k]
          <6>1. \A a, b \in Seq(S) :
                  /\ Len(a \o b) = Len(a) + Len(b)
                  /\ \A k \in 1 .. Len(b) : (a \o b)[Len(a) + k] = b[k]
            BY Joined
          <6>. QED
            BY <3>2, <5>1, <6>1
        <5>. QED
          BY <5>1, <5>2
      <4>. QED
        BY <4>1, <4>2
    <3>4. \A m \in 1 .. off[j + 1] :
            /\ j # 0 /\ m \in 1 .. Len(f[j]) /\ f[j + 1][m] = f[j][m]
      <4>1. CASE j = 0
        BY <2>5, <4>1
      <4>2. CASE j # 0
        <5>1. f[j + 1] = f[j] \o s[j + 1] /\ off[j + 1] = Len(f[j]) /\ f[j] \in Seq(S)
          BY <3>7, <4>2
        <5>2. \A m \in 1 .. Len(f[j]) : (f[j] \o s[j + 1])[m] = f[j][m]
          BY <3>2, <5>1, Joined
        <5>. QED
          BY <4>2, <5>1, <5>2
      <4>. QED
        BY <4>1, <4>2
    <3>5. ASSUME NEW i \in 1 .. j + 1, NEW k \in 1 .. Len(s[i])
          PROVE  off[i] + k \in 1 .. Len(f[j + 1]) /\ f[j + 1][off[i] + k] = s[i][k]
      <4>1. CASE i = j + 1
        <5>1. k \in 1 .. Len(s[j + 1]) /\ off[i] = off[j + 1] /\ s[i] = s[j + 1]
          BY <4>1
        <5>2. f[j + 1][off[j + 1] + k] = s[j + 1][k]
          BY <3>3, <5>1
        <5>3. off[j + 1] + k \in 1 .. Len(f[j + 1])
          BY <3>2, <3>3, <5>1
        <5>. QED
          BY <5>1, <5>2, <5>3
      <4>2. CASE i # j + 1
        <5>1. i \in 1 .. j /\ j # 0
          BY <1>1, <4>2
        <5>2. off[i] + k \in 1 .. Len(f[j]) /\ f[j][off[i] + k] = s[i][k]
          BY <2>6, <5>1
        <5>3. off[j + 1] = Len(f[j])
          BY <2>4, <3>1, <5>1
        <5>4. off[i] + k \in 1 .. off[j + 1]
          BY <5>2, <5>3
        <5>5. f[j + 1][off[i] + k] = s[i][k]
          BY <3>4, <5>2, <5>4
        <5>. QED
          BY <3>2, <3>3, <5>4, <5>5
      <4>. QED
        BY <4>1, <4>2
    <3>6. ASSUME NEW m \in 1 .. Len(f[j + 1])
          PROVE  \E i \in 1 .. j + 1 : \E k \in 1 .. Len(s[i]) : m = off[i] + k
      <4>1. CASE m <= off[j + 1]
        <5>1. m \in 1 .. off[j + 1]
          BY <3>2, <3>3, <4>1
        <5>2. j # 0 /\ m \in 1 .. Len(f[j])
          BY <3>4, <5>1
        <5>3. PICK i \in 1 .. j : \E k \in 1 .. Len(s[i]) : m = off[i] + k
          BY <2>6, <5>2
        <5>4. i \in 1 .. j + 1
          BY <1>1
        <5>. QED
          BY <5>3, <5>4
      <4>2. CASE ~(m <= off[j + 1])
        <5>. DEFINE k == m - off[j + 1]
        <5>1. m \in Nat /\ m <= off[j + 1] + Len(s[j + 1])
          BY <3>2, <3>3
        <5>4. k \in 1 .. Len(s[j + 1]) /\ m = off[j + 1] + k
          <6>1. ASSUME NEW a \in Nat, NEW b \in Nat, m <= a + b, ~(m <= a)
                PROVE  m - a \in 1 .. b /\ m = a + (m - a)
            BY <5>1, <6>1
          <6>. QED
            BY <3>2, <4>2, <5>1, <6>1
        <5>2. j + 1 \in 1 .. j + 1
          BY <1>1
        <5>. HIDE DEF k
        <5>. QED
          BY <5>2, <5>4
      <4>. QED
        BY <4>1, <4>2
    <3>. QED
      BY <3>1, <3>5, <3>6
  <2>7. Right(n) /\ Whole(n)
    <3>1. 0 \in Done
      BY <1>1
    <3>. HIDE DEF Done
    <3>2. \A j \in 0 .. n : j \in Done
      BY <1>1, <2>6, <3>1, Climb
    <3>3. n \in Done
      BY <1>1, <3>2
    <3>. HIDE DEF Right, Whole
    <3>. QED
      BY <1>3, <3>3 DEF Done
  <2>8. FlattenSeq(s) \in Seq(S) /\ DOMAIN FlattenSeq(s) = 1 .. Len(f[n])
    <3>1. n \in 1 .. n
      BY <1>1, <1>3
    <3>2. f[n] \in Seq(S)
      BY <2>3, <3>1
    <3>3. FlattenSeq(s) = f[n]
      BY <2>1
    <3>4. DOMAIN f[n] = 1 .. Len(f[n])
      BY <3>2
    <3>. QED
      BY <3>2, <3>3, <3>4
  <2>9. FlattenSeq(s) = f[n]
    BY <2>1
  <2>. SUFFICES /\ \A i \in 1 .. n : \A k \in 1 .. Len(s[i]) :
                     /\ off[i] + k \in 1 .. Len(FlattenSeq(s))
                     /\ FlattenSeq(s)[off[i] + k] = s[i][k]
                /\ \A m \in DOMAIN FlattenSeq(s) :
                     \E i \in 1 .. n : \E k \in 1 .. Len(s[i]) : m = off[i] + k
    BY <2>4, <2>8 DEF n, Placed
  <2>. QED
    BY <2>7, <2>8, <2>9
<1>. QED
  BY <1>2, <1>3

\* The messages that a thread keeps; a request also shows placeholders.
Msgs ==
  {Human} \cup {Result(id) : id \in Ids}
    \cup {Ai(calls, raw, invalid) : calls \in Seq(Ids), raw \in Seq(Ids), invalid \in Seq(Ids)}
Requested == Msgs \cup {Interrupted(id) : id \in Ids}

\* A result comes after a message that made its call, with results between.
Led(h, q) ==
  IsResult(h[q]) =>
    \E p \in 1 .. q - 1 :
      /\ IsAi(h[p]) /\ h[q].id \in ToSet(h[p].calls)
      /\ \A r \in p + 1 .. q : IsResult(h[r])

WellFormed(h) == h \in Seq(Msgs) /\ \A q \in DOMAIN h : Led(h, q)

\* RequestPaired, of a request.
Paired(out) ==
  \A p \in DOMAIN out :
    /\ \A k \in DOMAIN CallsOf(out[p]) :
         /\ p + k <= Len(out)
         /\ IsResult(out[p + k]) /\ out[p + k].id = CallsOf(out[p])[k]
    /\ IsResult(out[p]) => \E k \in 1 .. p - 1 : k <= Len(CallsOf(out[p - k]))

\* The history leads every result, and the tools run for its last message.
TranscriptInv ==
  /\ WellFormed(history) /\ Len(history) <= MaxLength
  /\ history # << >> => history[1] = Human
  /\ doing \in {"nothing", "preparing", "calling", "tools"}
  /\ doing # "nothing" => history # << >>
  /\ doing = "tools" => IsAi(history[Len(history)])
  /\ Paired(outgoing)

(* What a message is made of. *)
LEMMA MessageParts ==
  ASSUME NEW m \in Requested
  PROVE  /\ IsAi(m) => /\ m.calls \in Seq(Ids) /\ m.raw \in Seq(Ids) /\ m.invalid \in Seq(Ids)
                       /\ m \in Msgs /\ ~IsResult(m)
         /\ IsResult(m) => m.id \in Ids
         /\ IsResult(m) /\ m \in Msgs => m = Result(m.id)
         /\ CallsOf(m) \in Seq(Ids)
         /\ IsResult(m) => CallsOf(m) = << >>
         /\ IsAi(m) => ToSet(m.calls) \subseteq ToSet(CallsOf(m))
<1>1. CASE m = Human
  BY <1>1 DEF Human, IsAi, IsResult, CallsOf
<1>2. CASE \E id \in Ids : m = Result(id) \/ m = Interrupted(id)
  <2>1. PICK id \in Ids : m = Result(id) \/ m = Interrupted(id)
    BY <1>2
  <2>2. m.type = "tool" /\ m.id = id
    BY <2>1 DEF Result, Interrupted
  <2>3. m \in Msgs => m = Result(id)
    <3>1. m = Interrupted(id) => DOMAIN m = {"type", "id", "placeholder"}
      BY DEF Interrupted
    <3>2. \A x : DOMAIN Result(x) = {"type", "id"}
      BY DEF Result
    <3>3. DOMAIN Human = {"type"}
      BY DEF Human
    <3>4. \A c, r, i : DOMAIN Ai(c, r, i) = {"type", "calls", "raw", "invalid"}
      BY DEF Ai
    <3>5. /\ {"type", "id", "placeholder"} # {"type", "id"}
          /\ {"type", "id", "placeholder"} # {"type"}
          /\ {"type", "id", "placeholder"} # {"type", "calls", "raw", "invalid"}
      OBVIOUS
    <3>6. m = Interrupted(id) => m \notin Msgs
      <4>. SUFFICES ASSUME m = Interrupted(id), m \in Msgs
                    PROVE  FALSE
        OBVIOUS
      <4>1. \/ m = Human
            \/ \E x \in Ids : m = Result(x)
            \/ \E c, r, i \in Seq(Ids) : m = Ai(c, r, i)
        BY DEF Msgs
      <4>2. \/ DOMAIN m = {"type"} \/ DOMAIN m = {"type", "id"}
            \/ DOMAIN m = {"type", "calls", "raw", "invalid"}
        BY <3>2, <3>3, <3>4, <4>1, Zenon
      <4>. QED
        BY <3>1, <3>5, <4>2
    <3>. QED
      BY <2>1, <3>6
  <2>. QED
    BY <2>2, <2>3 DEF IsAi, IsResult, CallsOf
<1>3. CASE \E c, r, i \in Seq(Ids) : m = Ai(c, r, i)
  <2>1. PICK c \in Seq(Ids), r \in Seq(Ids), i \in Seq(Ids) : m = Ai(c, r, i)
    BY <1>3
  <2>2. /\ m.type = "ai" /\ m.calls = c /\ m.raw = r /\ m.invalid = i
        /\ m \in Msgs
    <3>1. Ai(c, r, i) \in Msgs
      BY DEF Msgs
    <3>. QED
      BY <2>1, <3>1 DEF Ai
  <2>. DEFINE shown == IF c # << >> THEN c ELSE r
  <2>3. shown \in Seq(Ids) /\ CallsOf(m) = shown \o i
    BY <2>2 DEF CallsOf, IsAi
  <2>4. /\ CallsOf(m) \in Seq(Ids)
        /\ ToSet(CallsOf(m)) = ToSet(shown) \cup ToSet(i)
    <3>. HIDE DEF shown
    <3>. QED
      BY <2>3, JoinedSet
  <2>5. ToSet(c) \subseteq ToSet(CallsOf(m))
    <3>1. CASE c = << >>
      BY <3>1 DEF ToSet
    <3>2. CASE c # << >>
      BY <2>4, <3>2
    <3>. QED
      BY <3>1, <3>2
  <2>. QED
    BY <2>2, <2>4, <2>5 DEF IsAi, IsResult
<1>. QED
  BY <1>1, <1>2, <1>3 DEF Requested, Msgs

(* An element of a sequence is one of the set of its elements. *)
LEMMA ElementOf ==
  ASSUME NEW S, NEW s \in Seq(S)
  PROVE  /\ ToSet(s) \subseteq S
         /\ \A k \in 1 .. Len(s) : s[k] \in ToSet(s)
         /\ \A x \in ToSet(s) : \E k \in 1 .. Len(s) : x = s[k]
BY DEF ToSet

(* One history after another. *)
LEMMA JoinedWell ==
  ASSUME NEW h, NEW t, WellFormed(h), WellFormed(t)
  PROVE  WellFormed(h \o t)
<1>1. /\ h \o t \in Seq(Msgs) /\ Len(h \o t) = Len(h) + Len(t)
      /\ \A j \in 1 .. Len(h) : (h \o t)[j] = h[j]
      /\ \A j \in 1 .. Len(t) : (h \o t)[Len(h) + j] = t[j]
  BY Joined DEF WellFormed
<1>2. Len(h) \in Nat /\ Len(t) \in Nat /\ DOMAIN h = 1 .. Len(h) /\ DOMAIN t = 1 .. Len(t)
  BY DEF WellFormed
<1>. DEFINE all == h \o t
<1>. HIDE DEF all
<1>3. ASSUME NEW q \in 1 .. Len(all), IsResult(all[q])
      PROVE  \E p \in 1 .. q - 1 :
               /\ IsAi(all[p]) /\ all[q].id \in ToSet(all[p].calls)
               /\ \A r \in p + 1 .. q : IsResult(all[r])
  <2>0. q \in Nat /\ Len(all) = Len(h) + Len(t)
    BY <1>1, <1>2 DEF all
  <2>1. CASE q <= Len(h)
    <3>1. q \in 1 .. Len(h) /\ all[q] = h[q]
      BY <1>1, <1>2, <2>1 DEF all
    <3>2. PICK p \in 1 .. q - 1 :
            /\ IsAi(h[p]) /\ h[q].id \in ToSet(h[p].calls)
            /\ \A r \in p + 1 .. q : IsResult(h[r])
      BY <1>2, <1>3, <3>1 DEF WellFormed, Led
    <3>3. \A r \in p .. q : r \in 1 .. Len(h)
      BY <1>2, <3>1
    <3>4. \A r \in p .. q : all[r] = h[r]
      BY <1>1, <3>3 DEF all
    <3>5. p \in p .. q /\ \A r \in p + 1 .. q : r \in p .. q
      BY <3>1
    <3>. QED
      BY <3>1, <3>2, <3>4, <3>5
  <2>2. CASE ~(q <= Len(h))
    <3>. DEFINE n == Len(h)
                k == q - n
    <3>1. k \in 1 .. Len(t) /\ n + k = q
      <4>1. ASSUME NEW a \in Nat, NEW b \in Nat, q <= a + b, ~(q <= a)
            PROVE  q - a \in 1 .. b /\ a + (q - a) = q
        BY <2>0, <4>1
      <4>. QED
        BY <1>2, <2>0, <2>2, <4>1
    <3>2. \A j \in 1 .. Len(t) : all[n + j] = t[j]
      BY <1>1 DEF all
    <3>3. n \in Nat
      BY <1>2
    <3>. HIDE DEF n, k
    <3>4. PICK p \in 1 .. k - 1 :
            /\ IsAi(t[p]) /\ t[k].id \in ToSet(t[p].calls)
            /\ \A r \in p + 1 .. k : IsResult(t[r])
      <4>1. IsResult(t[k]) /\ k \in DOMAIN t
        BY <1>2, <1>3, <3>1, <3>2
      <4>. QED
        BY <4>1 DEF WellFormed, Led
    <3>5. p \in 1 .. Len(t) /\ n + p \in 1 .. q - 1
      BY <1>2, <3>1, <3>3
    <3>6. ASSUME NEW r \in (n + p) + 1 .. q
          PROVE  IsResult(all[r])
      <4>1. r - n \in p + 1 .. k /\ r - n \in 1 .. Len(t) /\ n + (r - n) = r
        BY <1>2, <3>1, <3>3
      <4>. QED
        BY <3>2, <3>4, <4>1
    <3>7. all[n + p] = t[p] /\ all[q] = t[k]
      BY <3>1, <3>2, <3>5
    <3>. QED
      BY <3>4, <3>5, <3>6, <3>7
  <2>. QED
    BY <2>1, <2>2
<1>4. \A q \in DOMAIN all : Led(all, q)
  <2>1. DOMAIN all = 1 .. Len(all)
    BY <1>1 DEF all
  <2>. QED
    BY <1>3, <2>1 DEF Led
<1>. QED
  BY <1>1, <1>4 DEF WellFormed, all

(* A message that is no result needs nothing before it. *)
LEMMA OneWell ==
  ASSUME NEW m \in Msgs, ~IsResult(m)
  PROVE  WellFormed(<<m>>)
<1>. DEFINE s == <<m>>
<1>1. s \in Seq(Msgs) /\ DOMAIN s = {1} /\ s[1] = m /\ Len(s) = 1
  OBVIOUS
<1>. HIDE DEF s
<1>2. \A q \in DOMAIN s : Led(s, q)
  BY <1>1 DEF Led
<1>. QED
  BY <1>1, <1>2 DEF WellFormed, s

(* Messages that are no results. *)
LEMMA PlainWell ==
  ASSUME NEW s \in Seq(Msgs), \A k \in 1 .. Len(s) : ~IsResult(s[k])
  PROVE  WellFormed(s)
<1>1. DOMAIN s = 1 .. Len(s)
  OBVIOUS
<1>. QED
  BY <1>1 DEF WellFormed, Led

LEMMA EmptyWell == WellFormed(<< >>)
BY DEF WellFormed

(* Histories one after another, as FlattenSeq joins them. *)
LEMMA FlattenedWell ==
  ASSUME NEW s \in Seq(Seq(Msgs)), \A i \in 1 .. Len(s) : WellFormed(s[i])
  PROVE  WellFormed(FlattenSeq(s))
<1>. DEFINE all == FlattenSeq(s)
<1>. HIDE DEF all
<1>1. all \in Seq(Msgs) /\ \E off \in [1 .. Len(s) -> Nat] : Placed(s, all, off)
  BY Flattened DEF all
<1>2. PICK off \in [1 .. Len(s) -> Nat] :
        /\ \A i \in 1 .. Len(s) : \A k \in 1 .. Len(s[i]) :
             off[i] + k \in 1 .. Len(all) /\ all[off[i] + k] = s[i][k]
        /\ \A m \in DOMAIN all : \E i \in 1 .. Len(s) : \E k \in 1 .. Len(s[i]) : m = off[i] + k
  BY <1>1 DEF Placed
<1>3. \A i \in 1 .. Len(s) : s[i] \in Seq(Msgs)
  BY DEF WellFormed
<1>4. ASSUME NEW q \in DOMAIN all, IsResult(all[q])
      PROVE  \E p \in 1 .. q - 1 :
               /\ IsAi(all[p]) /\ all[q].id \in ToSet(all[p].calls)
               /\ \A r \in p + 1 .. q : IsResult(all[r])
  <2>1. PICK i \in 1 .. Len(s) : \E k \in 1 .. Len(s[i]) : q = off[i] + k
    BY <1>2
  <2>2. PICK k \in 1 .. Len(s[i]) : q = off[i] + k
    BY <2>1
  <2>. DEFINE t == s[i]
              n == off[i]
  <2>3. t \in Seq(Msgs) /\ WellFormed(t) /\ n \in Nat /\ k \in 1 .. Len(t) /\ q = n + k
    BY <1>3, <2>2
  <2>4. \A j \in 1 .. Len(t) : n + j \in 1 .. Len(all) /\ all[n + j] = t[j]
    BY <1>2
  <2>. HIDE DEF t, n
  <2>5. Len(t) \in Nat /\ DOMAIN t = 1 .. Len(t) /\ k \in Nat /\ k <= Len(t)
    BY <2>3
  <2>6. PICK p \in 1 .. k - 1 :
          /\ IsAi(t[p]) /\ t[k].id \in ToSet(t[p].calls)
          /\ \A r \in p + 1 .. k : IsResult(t[r])
    <3>1. IsResult(t[k]) /\ k \in DOMAIN t
      BY <1>4, <2>3, <2>4, <2>5
    <3>. QED
      BY <2>3, <3>1 DEF WellFormed, Led
  <2>7. p \in 1 .. Len(t) /\ n + p \in 1 .. q - 1
    BY <2>3, <2>5
  <2>8. ASSUME NEW r \in (n + p) + 1 .. q
        PROVE  IsResult(all[r])
    <3>1. r - n \in p + 1 .. k /\ r - n \in 1 .. Len(t) /\ n + (r - n) = r
      BY <2>3, <2>5
    <3>. QED
      BY <2>4, <2>6, <3>1
  <2>9. all[n + p] = t[p] /\ all[q] = t[k]
    BY <2>3, <2>4, <2>7
  <2>. QED
    BY <2>6, <2>7, <2>8, <2>9
<1>. QED
  BY <1>1, <1>4 DEF WellFormed, Led, all

(* Results of calls of the last message, added to a history. *)
LEMMA ResultsWell ==
  ASSUME NEW h, NEW t \in Seq(Msgs), WellFormed(h), h # << >>, IsAi(h[Len(h)]),
         \A k \in 1 .. Len(t) : IsResult(t[k]) /\ t[k].id \in ToSet(h[Len(h)].calls)
  PROVE  WellFormed(h \o t)
<1>. DEFINE all == h \o t
            n == Len(h)
<1>1. /\ all \in Seq(Msgs) /\ Len(all) = n + Len(t)
      /\ \A j \in 1 .. n : all[j] = h[j]
      /\ \A j \in 1 .. Len(t) : all[n + j] = t[j]
  BY Joined DEF WellFormed
<1>2. n \in Nat /\ n # 0 /\ Len(t) \in Nat
  BY DEF WellFormed
<1>. HIDE DEF all
<1>3. ASSUME NEW q \in 1 .. Len(all), IsResult(all[q])
      PROVE  \E p \in 1 .. q - 1 :
               /\ IsAi(all[p]) /\ all[q].id \in ToSet(all[p].calls)
               /\ \A r \in p + 1 .. q : IsResult(all[r])
  <2>0. q \in Nat /\ Len(all) = n + Len(t)
    BY <1>1, <1>2
  <2>1. CASE q <= n
    <3>1. q \in 1 .. n /\ all[q] = h[q] /\ q \in DOMAIN h
      BY <1>1, <1>2, <2>1 DEF WellFormed
    <3>2. PICK p \in 1 .. q - 1 :
            /\ IsAi(h[p]) /\ h[q].id \in ToSet(h[p].calls)
            /\ \A r \in p + 1 .. q : IsResult(h[r])
      BY <1>2, <1>3, <3>1 DEF WellFormed, Led
    <3>3. \A r \in p .. q : r \in 1 .. n
      BY <1>2, <3>1
    <3>4. \A r \in p .. q : all[r] = h[r]
      BY <1>1, <3>3
    <3>5. p \in p .. q /\ \A r \in p + 1 .. q : r \in p .. q
      BY <3>1
    <3>. QED
      BY <3>1, <3>2, <3>4, <3>5
  <2>2. CASE ~(q <= n)
    <3>. HIDE DEF n
    <3>1. \A r \in n + 1 .. q : r - n \in 1 .. Len(t) /\ n + (r - n) = r
      BY <1>2, <2>0
    <3>2. \A r \in n + 1 .. q : all[r] = t[r - n]
      BY <1>1, <3>1
    <3>3. \A r \in n + 1 .. q : IsResult(all[r]) /\ all[r].id \in ToSet(h[n].calls)
      BY <3>1, <3>2 DEF n
    <3>4. q \in n + 1 .. q /\ n \in 1 .. q - 1 /\ n \in 1 .. n
      BY <1>2, <2>0, <2>2
    <3>5. all[n] = h[n] /\ IsAi(h[n])
      BY <1>1, <3>4 DEF n
    <3>. QED
      BY <3>3, <3>4, <3>5
  <2>. QED
    BY <2>1, <2>2
<1>4. \A q \in DOMAIN all : Led(all, q)
  <2>1. DOMAIN all = 1 .. Len(all)
    BY <1>1
  <2>. QED
    BY <1>3, <2>1 DEF Led
<1>. QED
  BY <1>1, <1>4 DEF WellFormed, all

(* What is kept from a message on that is no result. *)
LEMMA SuffixWell ==
  ASSUME NEW h, WellFormed(h), NEW cut \in 2 .. Len(h), ~IsResult(h[cut])
  PROVE  /\ WellFormed(SubSeq(h, cut, Len(h)))
         /\ Len(SubSeq(h, cut, Len(h))) = Len(h) - cut + 1
         /\ SubSeq(h, cut, Len(h))[Len(h) - cut + 1] = h[Len(h)]
<1>. DEFINE kept == SubSeq(h, cut, Len(h))
            n == cut - 1
<1>1. n \in 0 .. Len(h) /\ n + 1 = cut /\ Len(h) \in Nat /\ cut \in Nat /\ n \in Nat
  BY DEF WellFormed
<1>2. /\ kept \in Seq(Msgs) /\ Len(kept) = Len(h) - n
      /\ \A j \in 1 .. Len(h) - n : kept[j] = h[j + n]
  <2>. HIDE DEF n
  <2>1. /\ SubSeq(h, n + 1, Len(h)) \in Seq(Msgs)
        /\ Len(SubSeq(h, n + 1, Len(h))) = Len(h) - n
        /\ \A j \in 1 .. Len(h) - n : SubSeq(h, n + 1, Len(h))[j] = h[j + n]
    BY <1>1, Pieces DEF WellFormed
  <2>. QED
    BY <1>1, <2>1
<1>. HIDE DEF kept, n
<1>3. ASSUME NEW q \in 1 .. Len(kept), IsResult(kept[q])
      PROVE  \E p \in 1 .. q - 1 :
               /\ IsAi(kept[p]) /\ kept[q].id \in ToSet(kept[p].calls)
               /\ \A r \in p + 1 .. q : IsResult(kept[r])
  <2>1. q + n \in 1 .. Len(h) /\ kept[q] = h[q + n] /\ q + n \in DOMAIN h /\ q \in Nat
        /\ q <= Len(h) - n
    BY <1>1, <1>2 DEF WellFormed
  <2>2. PICK p \in 1 .. (q + n) - 1 :
          /\ IsAi(h[p]) /\ h[q + n].id \in ToSet(h[p].calls)
          /\ \A r \in p + 1 .. q + n : IsResult(h[r])
    BY <1>3, <2>1 DEF WellFormed, Led
  <2>3. cut <= p
    <3>1. cut <= q + n
      BY <1>1, <2>1
    <3>2. ~(cut \in p + 1 .. q + n)
      BY <2>2
    <3>. QED
      BY <1>1, <3>1, <3>2
  <2>4. p - n \in 1 .. q - 1 /\ p - n \in 1 .. Len(h) - n /\ (p - n) + n = p
    BY <1>1, <2>1, <2>3
  <2>5. ASSUME NEW r \in (p - n) + 1 .. q
        PROVE  IsResult(kept[r])
    <3>1. r + n \in p + 1 .. q + n /\ r \in 1 .. Len(h) - n
      BY <1>1, <2>1, <2>4
    <3>. QED
      BY <1>2, <2>2, <3>1
  <2>6. kept[p - n] = h[p]
    BY <1>2, <2>4
  <2>. QED
    BY <2>1, <2>2, <2>4, <2>5, <2>6
<1>4. \A q \in DOMAIN kept : Led(kept, q)
  <2>1. DOMAIN kept = 1 .. Len(kept)
    BY <1>2
  <2>. QED
    BY <1>3, <2>1 DEF Led
<1>5. Len(h) - n = Len(h) - cut + 1 /\ Len(h) - n \in 1 .. Len(h) - n /\ (Len(h) - n) + n = Len(h)
  BY <1>1
<1>. QED
  BY <1>2, <1>4, <1>5 DEF WellFormed, kept

(* The chosen elements, one by one, and how many they are. *)
LEMMA ChosenParts ==
  ASSUME NEW S, NEW s \in Seq(S), NEW P \in SUBSET DOMAIN s
  PROVE  /\ Chosen(s, P) \in Seq(S) /\ Len(Chosen(s, P)) = Cardinality(P)
         /\ \A k \in 1 .. Len(Chosen(s, P)) : \E i \in P : Chosen(s, P)[k] = s[i]
         /\ \A i \in P : s[i] \in ToSet(Chosen(s, P))
<1>1. Chosen(s, P) \in Seq(S) /\ ToSet(Chosen(s, P)) = {s[i] : i \in P}
  BY ChosenOnes
<1>2. Cardinality(P) \in Nat
  <2>1. P \in SUBSET (1 .. Len(s)) /\ Len(s) \in Nat
    OBVIOUS
  <2>. QED
    BY <2>1, Ranks
<1>3. Len(Chosen(s, P)) = Cardinality(P)
  <2>1. DOMAIN Chosen(s, P) = 1 .. Cardinality(P)
    BY DEF Chosen
  <2>. HIDE DEF Chosen
  <2>. QED
    BY <1>1, <1>2, <2>1
<1>4. \A k \in 1 .. Len(Chosen(s, P)) : Chosen(s, P)[k] \in ToSet(Chosen(s, P))
  BY <1>1, ElementOf
<1>. QED
  BY <1>1, <1>3, <1>4

(* The raw calls that are kept. *)
LEMMA SyncedCalls ==
  ASSUME NEW raw \in Seq(Ids), NEW kept
  PROVE  Synced(raw, kept) \in Seq(Ids)
BY ChosenParts DEF Synced

(* What is rescued of a message leads its results. *)
LEMMA RescuedWell ==
  ASSUME NEW h \in Seq(Msgs), NEW p \in DOMAIN h, IsAi(h[p]),
         NEW ids \in SUBSET Answered(h, p)
  PROVE  WellFormed(RescuedFrom(h, p, ids))
<1>. DEFINE m == h[p]
            keptCalls == {k \in DOMAIN m.calls : m.calls[k] \in ids}
            calls == Chosen(m.calls, keptCalls)
            lead == Ai(calls, Synced(m.raw, calls), m.invalid)
            block == {q \in p + 1 .. Len(h) : \A r \in p + 1 .. q : IsResult(h[r])}
            keptResults == {q \in block : h[q].id \in ids}
            found == Chosen(h, keptResults)
<1>1. /\ Len(h) \in Nat /\ p \in 1 .. Len(h) /\ m \in Msgs /\ m \in Requested
      /\ m.calls \in Seq(Ids) /\ m.raw \in Seq(Ids) /\ m.invalid \in Seq(Ids)
  <2>1. Len(h) \in Nat /\ p \in 1 .. Len(h) /\ m \in Msgs
    OBVIOUS
  <2>2. m \in Requested
    BY <2>1 DEF Requested
  <2>. HIDE DEF m
  <2>3. IsAi(m)
    BY DEF m
  <2>. QED
    BY <2>1, <2>2, <2>3, MessageParts
<1>2. ids \subseteq ToSet(m.calls)
  BY DEF Answered
<1>3. calls \in Seq(Ids) /\ ids \subseteq ToSet(calls)
  <2>1. keptCalls \in SUBSET DOMAIN m.calls
    OBVIOUS
  <2>2. ASSUME NEW x \in ids
        PROVE  \E k \in keptCalls : x = m.calls[k]
    <3>1. PICK k \in 1 .. Len(m.calls) : x = m.calls[k]
      BY <1>1, <1>2, ElementOf
    <3>2. k \in DOMAIN m.calls
      BY <1>1
    <3>. QED
      BY <3>1, <3>2
  <2>. HIDE DEF keptCalls, m
  <2>3. calls \in Seq(Ids) /\ \A k \in keptCalls : m.calls[k] \in ToSet(calls)
    BY <1>1, <2>1, ChosenParts
  <2>. QED
    BY <2>2, <2>3
<1>. HIDE DEF calls
<1>4. lead \in Msgs /\ ~IsResult(lead) /\ IsAi(lead) /\ lead.calls = calls
  <2>1. Synced(m.raw, calls) \in Seq(Ids)
    BY <1>1, SyncedCalls
  <2>. HIDE DEF m
  <2>2. lead \in Msgs
    BY <1>1, <1>3, <2>1 DEF Msgs
  <2>. QED
    BY <2>2 DEF Ai, IsAi, IsResult
<1>. HIDE DEF lead
<1>5. \A q \in block : q \in p + 1 .. Len(h) /\ IsResult(h[q])
  <2>1. \A q \in p + 1 .. Len(h) : q \in p + 1 .. q
    BY <1>1
  <2>. QED
    BY <2>1
<1>6. keptResults \in SUBSET DOMAIN h
  <2>1. p + 1 .. Len(h) \subseteq DOMAIN h
    BY <1>1
  <2>. QED
    BY <2>1
<1>7. \A q \in keptResults : IsResult(h[q]) /\ h[q].id \in ids
  BY <1>5
<1>. HIDE DEF block, keptResults
<1>8. /\ found \in Seq(Msgs) /\ Len(found) = Cardinality(keptResults)
      /\ \A k \in 1 .. Len(found) : \E i \in keptResults : found[k] = h[i]
  BY <1>6, ChosenParts
<1>. HIDE DEF found
<1>9. \A k \in 1 .. Len(found) : IsResult(found[k]) /\ found[k].id \in ToSet(lead.calls)
  BY <1>3, <1>4, <1>7, <1>8
<1>. DEFINE one == <<lead>>
<1>10. WellFormed(one) /\ one # << >> /\ one[Len(one)] = lead /\ Len(one) = 1 /\ one \in Seq(Msgs)
  BY <1>4, OneWell DEF WellFormed
<1>. HIDE DEF one
<1>11. WellFormed(one \o found)
  BY <1>4, <1>8, <1>9, <1>10, ResultsWell
<1>12. ids # {} => RescuedFrom(h, p, ids) = one \o found
  BY DEF RescuedFrom, one, found, lead, calls, block, keptResults
<1>13. ids = {} => RescuedFrom(h, p, ids) = << >>
  BY DEF RescuedFrom
<1>. QED
  BY <1>11, <1>12, <1>13, EmptyWell

(* The result that a call takes is one with its id. *)
LEMMA ResultsAre ==
  ASSUME NEW h \in Seq(Msgs), NEW p \in DOMAIN h, NEW k \in DOMAIN CallsOf(h[p])
  PROVE  /\ ResultOf(h, p, k) \in Requested
         /\ IsResult(ResultOf(h, p, k))
         /\ ResultOf(h, p, k).id = CallsOf(h[p])[k]
<1>. DEFINE id == CallsOf(h[p])[k]
            places == {q \in DOMAIN h : IsResult(h[q]) /\ h[q].id = id}
            found == ResultsFor(h, id)
            earlier == {c \in (1 .. p) \X (1 .. 2 * MaxCalls) :
                          /\ c[1] < p \/ c[2] < k
                          /\ c[2] <= Len(CallsOf(h[c[1]]))
                          /\ CallsOf(h[c[1]])[c[2]] = CallsOf(h[p])[k]}
            n == Earlier(h, p, k) + 1
<1>1. h[p] \in Requested /\ p \in Nat
  BY DEF Requested
<1>2. id \in Ids
  <2>1. CallsOf(h[p]) \in Seq(Ids)
    BY <1>1, MessageParts
  <2>. QED
    BY <2>1
<1>. HIDE DEF id
<1>3. places \in SUBSET DOMAIN h /\ found = Chosen(h, places)
  BY DEF ResultsFor
<1>4. /\ found \in Seq(Msgs)
      /\ \A j \in 1 .. Len(found) : IsResult(found[j]) /\ found[j].id = id
  <2>1. \A q \in places : IsResult(h[q]) /\ h[q].id = id
    OBVIOUS
  <2>. HIDE DEF places, found
  <2>2. /\ found \in Seq(Msgs)
        /\ \A j \in 1 .. Len(found) : \E i \in places : found[j] = h[i]
    BY <1>3, ChosenParts
  <2>. QED
    BY <2>1, <2>2
<1>5. Earlier(h, p, k) \in Nat
  <2>1. 2 * MaxCalls \in Int /\ p \in Int /\ 1 \in Int
    BY <1>1, TranscriptAssumption DEF TranscriptAssumption
  <2>2. IsFiniteSet(1 .. p) /\ IsFiniteSet(1 .. 2 * MaxCalls)
    BY <2>1, FS_Interval
  <2>3. IsFiniteSet((1 .. p) \X (1 .. 2 * MaxCalls))
    BY <2>2, FS_Product
  <2>4. earlier \in SUBSET ((1 .. p) \X (1 .. 2 * MaxCalls))
    OBVIOUS
  <2>5. Earlier(h, p, k) = Cardinality(earlier)
    BY DEF Earlier
  <2>. HIDE DEF earlier
  <2>6. IsFiniteSet(earlier)
    BY <2>3, <2>4, FS_Subset
  <2>. QED
    BY <2>5, <2>6, FS_CardinalityType
<1>6. ResultOf(h, p, k) = IF n <= Len(found) THEN found[n] ELSE Interrupted(id)
  BY DEF ResultOf, id
<1>. HIDE DEF found
<1>7. CASE n <= Len(found)
  <2>1. n \in 1 .. Len(found)
    BY <1>4, <1>5, <1>7
  <2>2. found[n] \in Msgs
    BY <1>4, <2>1
  <2>3. ResultOf(h, p, k) = found[n]
    BY <1>6, <1>7
  <2>. QED
    BY <1>4, <2>1, <2>2, <2>3 DEF Requested, id
<1>8. CASE ~(n <= Len(found))
  <2>1. ResultOf(h, p, k) = Interrupted(id)
    BY <1>6, <1>8
  <2>2. Interrupted(id) \in Requested
    BY <1>2 DEF Requested
  <2>. QED
    BY <2>1, <2>2 DEF Interrupted, IsResult, id
<1>. QED
  BY <1>7, <1>8

(* A message with the results of its calls, in the parts of a request. *)
LEMMA GroupedParts ==
  ASSUME NEW h, WellFormed(h), NEW p \in DOMAIN h
  PROVE  /\ Grouped(h, p) \in Seq(Requested)
         /\ Grouped(h, p) # << >> =>
              /\ ~IsResult(h[p])
              /\ Len(Grouped(h, p)) = 1 + Len(CallsOf(h[p]))
              /\ Grouped(h, p)[1] = h[p]
              /\ \A k \in 1 .. Len(CallsOf(h[p])) :
                   /\ IsResult(Grouped(h, p)[1 + k])
                   /\ Grouped(h, p)[1 + k].id = CallsOf(h[p])[k]
<1>. DEFINE calls == CallsOf(h[p])
            results == [k \in DOMAIN calls |-> ResultOf(h, p, k)]
            one == <<h[p]>>
<1>1. h \in Seq(Msgs) /\ h[p] \in Msgs /\ h[p] \in Requested
  BY DEF WellFormed, Requested
<1>2. calls \in Seq(Ids)
  BY <1>1, MessageParts
<1>3. /\ results \in Seq(Requested) /\ Len(results) = Len(calls)
      /\ \A k \in 1 .. Len(calls) : results[k] = ResultOf(h, p, k)
  <2>1. \A k \in DOMAIN calls : ResultOf(h, p, k) \in Requested
    BY <1>1, ResultsAre
  <2>. HIDE DEF calls
  <2>2. DOMAIN calls = 1 .. Len(calls) /\ Len(calls) \in Nat
    BY <1>2
  <2>3. results \in [1 .. Len(calls) -> Requested]
    BY <2>1, <2>2
  <2>. QED
    BY <2>2, <2>3
<1>4. one \in Seq(Requested) /\ Len(one) = 1 /\ one[1] = h[p]
  BY <1>1
<1>5. CASE IsResult(h[p])
  <2>1. PICK q \in 1 .. p - 1 : IsAi(h[q]) /\ h[p].id \in ToSet(h[q].calls)
    BY <1>5 DEF WellFormed, Led
  <2>2. q \in DOMAIN h
    <3>1. p \in 1 .. Len(h) /\ Len(h) \in Nat /\ DOMAIN h = 1 .. Len(h)
      BY <1>1
    <3>. QED
      BY <3>1
  <2>3. h[q] \in Requested
    BY <1>1, <2>2 DEF Requested
  <2>4. h[p].id \in ToSet(CallsOf(h[q]))
    BY <2>1, <2>3, MessageParts
  <2>5. Grouped(h, p) = << >>
    BY <1>5, <2>2, <2>4 DEF Grouped, Called
  <2>. QED
    BY <2>5
<1>6. CASE ~IsResult(h[p])
  <2>1. Grouped(h, p) = one \o results
    BY <1>6 DEF Grouped
  <2>2. \A k \in 1 .. Len(calls) : IsResult(results[k]) /\ results[k].id = calls[k]
    <3>1. DOMAIN calls = 1 .. Len(calls)
      BY <1>2
    <3>2. \A k \in DOMAIN calls : IsResult(ResultOf(h, p, k)) /\ ResultOf(h, p, k).id = calls[k]
      BY <1>1, ResultsAre
    <3>. QED
      BY <1>3, <3>1, <3>2
  <2>. HIDE DEF one, results
  <2>0. one \in Seq(Requested) /\ results \in Seq(Requested)
    BY <1>3, <1>4 DEF one, results
  <2>3. /\ one \o results \in Seq(Requested) /\ Len(one \o results) = 1 + Len(results)
        /\ \A j \in 1 .. Len(one) : (one \o results)[j] = one[j]
        /\ \A j \in 1 .. Len(results) : (one \o results)[1 + j] = results[j]
    <3>1. /\ one \o results \in Seq(Requested)
          /\ Len(one \o results) = Len(one) + Len(results)
          /\ \A j \in 1 .. Len(one) : (one \o results)[j] = one[j]
          /\ \A j \in 1 .. Len(results) : (one \o results)[Len(one) + j] = results[j]
      BY <2>0, Joined
    <3>2. Len(one) = 1
      BY <1>4
    <3>. QED
      BY <3>1, <3>2
  <2>4. 1 \in 1 .. Len(one)
    BY <1>4
  <2>. HIDE DEF calls
  <2>. QED
    BY <1>3, <1>4, <1>6, <2>1, <2>2, <2>3, <2>4 DEF calls
<1>. QED
  BY <1>5, <1>6

(* Whatever a well-formed history lacks or repeats, its request is paired.  *)
LEMMA PatchedPaired ==
  ASSUME NEW h, WellFormed(h)
  PROVE  Paired(Patched(h))
<1>. DEFINE s == [p \in DOMAIN h |-> Grouped(h, p)]
            out == Patched(h)
            n == Len(h)
<1>1. DOMAIN h = 1 .. n /\ n \in Nat
  BY DEF WellFormed
<1>2. s \in Seq(Seq(Requested)) /\ Len(s) = n /\ \A p \in 1 .. n : s[p] = Grouped(h, p)
  <2>1. \A p \in DOMAIN h : Grouped(h, p) \in Seq(Requested)
    BY GroupedParts
  <2>2. s \in [1 .. n -> Seq(Requested)]
    BY <1>1, <2>1
  <2>3. \A p \in 1 .. n : s[p] = Grouped(h, p)
    BY <1>1
  <2>. HIDE DEF s, n
  <2>. QED
    BY <1>1, <2>2, <2>3
<1>3. out = FlattenSeq(s)
  BY DEF Patched
<1>. HIDE DEF s
<1>4. PICK off \in [1 .. Len(s) -> Nat] :
        /\ \A i \in 1 .. Len(s) : \A k \in 1 .. Len(s[i]) :
             off[i] + k \in 1 .. Len(FlattenSeq(s)) /\ FlattenSeq(s)[off[i] + k] = s[i][k]
        /\ \A m \in DOMAIN FlattenSeq(s) :
             \E i \in 1 .. Len(s) : \E k \in 1 .. Len(s[i]) : m = off[i] + k
  <2>1. \E off \in [1 .. Len(s) -> Nat] : Placed(s, FlattenSeq(s), off)
    BY <1>2, Flattened
  <2>. QED
    BY <2>1 DEF Placed
<1>. HIDE DEF out, n
<1>5. \A i \in 1 .. n : \A k \in 1 .. Len(s[i]) :
        off[i] + k \in 1 .. Len(out) /\ out[off[i] + k] = s[i][k]
  BY <1>2, <1>3, <1>4
<1>6. ASSUME NEW m \in DOMAIN out
      PROVE  /\ \A k \in DOMAIN CallsOf(out[m]) :
                  /\ m + k <= Len(out)
                  /\ IsResult(out[m + k]) /\ out[m + k].id = CallsOf(out[m])[k]
             /\ IsResult(out[m]) => \E k \in 1 .. m - 1 : k <= Len(CallsOf(out[m - k]))
  <2>1. PICK i \in 1 .. n : \E k \in 1 .. Len(s[i]) : m = off[i] + k
    BY <1>2, <1>3, <1>4
  <2>2. PICK j \in 1 .. Len(s[i]) : m = off[i] + j
    BY <2>1
  <2>3. out[m] = s[i][j] /\ off[i] \in Nat /\ s[i] \in Seq(Requested) /\ i \in DOMAIN h
    BY <1>1, <1>2, <1>4, <1>5, <2>2
  <2>. DEFINE calls == CallsOf(h[i])
  <2>4. h[i] \in Requested /\ calls \in Seq(Ids)
    <3>1. h[i] \in Requested
      BY <2>3 DEF WellFormed, Requested
    <3>. QED
      BY <3>1, MessageParts
  <2>. HIDE DEF calls
  <2>5. /\ ~IsResult(h[i]) /\ Len(s[i]) = 1 + Len(calls) /\ s[i][1] = h[i]
        /\ \A k \in 1 .. Len(calls) : IsResult(s[i][1 + k]) /\ s[i][1 + k].id = calls[k]
    <3>1. s[i] = Grouped(h, i) /\ s[i] # << >>
      BY <1>2, <2>2, <2>3
    <3>. QED
      BY <2>3, <3>1, GroupedParts DEF calls
  <2>6. Len(calls) \in Nat /\ DOMAIN calls = 1 .. Len(calls) /\ j \in Nat
    BY <2>3, <2>4
  <2>7. CASE j = 1
    <3>1. out[m] = h[i] /\ CallsOf(out[m]) = calls
      BY <2>3, <2>5, <2>7 DEF calls
    <3>2. ASSUME NEW k \in 1 .. Len(calls)
          PROVE  m + k <= Len(out) /\ IsResult(out[m + k]) /\ out[m + k].id = calls[k]
      <4>1. 1 + k \in 1 .. Len(s[i]) /\ off[i] + (1 + k) = m + k /\ m + k \in Nat
        <5>1. m = off[i] + 1 /\ Len(s[i]) = 1 + Len(calls)
          BY <2>2, <2>5, <2>7
        <5>2. ASSUME NEW a \in Nat, NEW c \in Nat, k \in 1 .. c
              PROVE  1 + k \in 1 .. 1 + c /\ a + (1 + k) = (a + 1) + k /\ (a + 1) + k \in Nat
          BY <5>2
        <5>3. off[i] \in Nat /\ Len(calls) \in Nat
          BY <2>3, <2>6
        <5>. QED
          BY <5>1, <5>2, <5>3
      <4>2. m + k \in 1 .. Len(out) /\ out[m + k] = s[i][1 + k]
        BY <1>5, <4>1
      <4>3. m + k <= Len(out)
        BY <4>1, <4>2
      <4>. QED
        BY <2>5, <4>2, <4>3
    <3>. QED
      BY <2>5, <2>6, <3>1, <3>2
  <2>8. CASE j # 1
    <3>. DEFINE k == j - 1
    <3>1. k \in 1 .. Len(calls) /\ 1 + k = j /\ m - k = off[i] + 1 /\ k \in 1 .. m - 1
      BY <2>2, <2>3, <2>5, <2>6, <2>8
    <3>2. 1 \in 1 .. Len(s[i])
      BY <2>5, <2>6
    <3>3. out[m - k] = h[i]
      BY <1>5, <2>5, <3>1, <3>2
    <3>. HIDE DEF k
    <3>4. IsResult(out[m]) /\ out[m] \in Requested
      BY <2>3, <2>5, <3>1
    <3>5. CallsOf(out[m]) = << >> /\ DOMAIN CallsOf(out[m]) = {}
      BY <3>4, MessageParts
    <3>6. k <= Len(CallsOf(out[m - k]))
      BY <2>6, <3>1, <3>3 DEF calls
    <3>. QED
      BY <3>1, <3>5, <3>6
  <2>. QED
    BY <2>7, <2>8
<1>. QED
  BY <1>6 DEF Paired, out

(* A message of the user, a summary or a reminder. *)
LEMMA HumanWell == Human \in Msgs /\ ~IsResult(Human) /\ WellFormed(<<Human>>)
<1>1. Human \in Msgs /\ ~IsResult(Human)
  BY DEF Msgs, Human, IsResult
<1>. QED
  BY <1>1, OneWell

(* What the history is after messages were added. *)
LEMMA AddedParts ==
  ASSUME NEW t \in Seq(Msgs), WellFormed(history), AddMessages(t)
  PROVE  /\ history' = history \o t
         /\ Len(history') = Len(history) + Len(t) /\ Len(history') <= MaxLength
         /\ history # << >> => history'[1] = history[1]
         /\ t # << >> => history'[Len(history')] = t[Len(t)] /\ history' # << >>
<1>1. history \in Seq(Msgs) /\ Len(history) \in Nat /\ Len(t) \in Nat
  BY DEF WellFormed
<1>2. history' = history \o t /\ Len(history) + Len(t) <= MaxLength
  BY DEF AddMessages
<1>3. /\ Len(history') = Len(history) + Len(t) /\ history' \in Seq(Msgs)
      /\ \A j \in 1 .. Len(history) : history'[j] = history[j]
      /\ \A j \in 1 .. Len(t) : history'[Len(history) + j] = t[j]
  BY <1>1, <1>2, Joined
<1>4. history # << >> => 1 \in 1 .. Len(history)
  BY <1>1
<1>5. t # << >> => Len(t) \in 1 .. Len(t) /\ Len(history') # 0
  BY <1>1, <1>3
<1>6. Len(history') # 0 => history' # << >>
  BY <1>3
<1>. QED
  BY <1>2, <1>3, <1>4, <1>5, <1>6

(* Ask and Remind add a message of the user. *)
LEMMA HumanAdded ==
  ASSUME TranscriptInv, AddMessages(<<Human>>)
  PROVE  /\ WellFormed(history') /\ Len(history') <= MaxLength /\ history'[1] = Human
         /\ history' # << >>
<1>1. <<Human>> \in Seq(Msgs) /\ <<Human>> # << >> /\ Len(<<Human>>) = 1 /\ <<Human>>[1] = Human
  BY HumanWell
<1>2. WellFormed(history \o <<Human>>)
  BY HumanWell, JoinedWell DEF TranscriptInv
<1>3. /\ history' = history \o <<Human>> /\ Len(history') <= MaxLength
      /\ Len(history') = Len(history) + 1
      /\ history # << >> => history'[1] = history[1]
      /\ history'[Len(history')] = Human /\ history' # << >>
  BY <1>1, AddedParts DEF TranscriptInv
<1>4. history = << >> => Len(history') = 1
  BY <1>3
<1>. QED
  BY <1>2, <1>3, <1>4 DEF TranscriptInv

LEMMA RespondKeeps ==
  ASSUME TranscriptInv, NEW calls \in IdSeqs, NEW invalid \in IdSeqs, NEW hasRaw \in BOOLEAN,
         NEW places, Respond(calls, hasRaw, invalid, places)
  PROVE  TranscriptInv'
<1>. DEFINE raw == IF hasRaw THEN calls ELSE << >>
            left == Chosen(calls, places)
            m == Ai(left, Synced(raw, left), invalid)
            one == <<m>>
<1>1. calls \in Seq(Ids) /\ invalid \in Seq(Ids)
  BY TranscriptAssumption DEF TranscriptAssumption, IdSeqs
<1>2. left \in Seq(Ids)
  <2>1. places \in SUBSET DOMAIN calls
    BY DEF Respond
  <2>. QED
    BY <1>1, <2>1, ChosenParts
<1>3. raw \in Seq(Ids)
  BY <1>1
<1>4. /\ AddMessages(one) /\ outgoing' = outgoing
      /\ doing' = IF left = << >> THEN "nothing" ELSE "tools"
      /\ doing = "calling"
  BY DEF Respond
<1>. HIDE DEF raw, left
<1>5. m \in Msgs /\ IsAi(m) /\ ~IsResult(m)
  <2>1. Synced(raw, left) \in Seq(Ids)
    BY <1>3, SyncedCalls
  <2>2. m \in Msgs
    BY <1>1, <1>2, <2>1 DEF Msgs
  <2>. QED
    BY <2>2 DEF Ai, IsAi, IsResult
<1>. HIDE DEF m
<1>6. WellFormed(one) /\ one \in Seq(Msgs) /\ one # << >> /\ one[Len(one)] = m
  BY <1>5, OneWell
<1>. HIDE DEF one
<1>7. WellFormed(history \o one)
  BY <1>6, JoinedWell DEF TranscriptInv
<1>8. /\ history' = history \o one /\ Len(history') <= MaxLength
      /\ history # << >> => history'[1] = history[1]
      /\ history'[Len(history')] = m /\ history' # << >>
  BY <1>4, <1>6, AddedParts DEF TranscriptInv
<1>. QED
  BY <1>4, <1>5, <1>7, <1>8 DEF TranscriptInv

(* Three sequences, one after another. *)
LEMMA Joined3 ==
  ASSUME NEW S, NEW a \in Seq(S), NEW b \in Seq(S), NEW c \in Seq(S)
  PROVE  a \o b \o c = a \o (b \o c)
OBVIOUS

LEMMA FinishToolsKeeps ==
  ASSUME TranscriptInv, FinishTools
  PROVE  TranscriptInv'
<1>. DEFINE last == history[Len(history)]
            t == [k \in DOMAIN last.calls |-> Result(last.calls[k])]
<1>1. /\ history \in Seq(Msgs) /\ history # << >> /\ IsAi(last) /\ WellFormed(history)
      /\ Last(history) = last
  BY DEF TranscriptInv, WellFormed, FinishTools, Last
<1>2. AddMessages(t) /\ doing' = "preparing" /\ outgoing' = outgoing
  BY <1>1 DEF FinishTools
<1>3. last.calls \in Seq(Ids)
  <2>1. last \in Requested
    BY <1>1 DEF Requested
  <2>. HIDE DEF last
  <2>. QED
    BY <1>1, <2>1, MessageParts
<1>4. /\ t \in Seq(Msgs)
      /\ \A k \in 1 .. Len(t) : IsResult(t[k]) /\ t[k].id \in ToSet(last.calls)
  <2>. DEFINE calls == last.calls
  <2>1. DOMAIN calls = 1 .. Len(calls) /\ Len(calls) \in Nat
    BY <1>3
  <2>2. \A k \in 1 .. Len(calls) : calls[k] \in Ids /\ calls[k] \in ToSet(calls)
    BY <1>3, ElementOf
  <2>3. t = [k \in 1 .. Len(calls) |-> Result(calls[k])]
    BY <2>1
  <2>. HIDE DEF calls
  <2>4. \A k \in 1 .. Len(calls) : Result(calls[k]) \in Msgs
    BY <2>2 DEF Msgs
  <2>. HIDE DEF t
  <2>5. /\ t \in Seq(Msgs) /\ Len(t) = Len(calls)
        /\ \A k \in 1 .. Len(calls) : t[k] = Result(calls[k])
    BY <2>1, <2>3, <2>4
  <2>6. \A k \in 1 .. Len(calls) : IsResult(t[k]) /\ t[k].id = calls[k]
    <3>1. \A x : IsResult(Result(x)) /\ Result(x).id = x
      BY DEF Result, IsResult
    <3>. QED
      BY <2>5, <3>1
  <2>. QED
    BY <2>2, <2>5, <2>6 DEF calls
<1>. HIDE DEF t
<1>5. WellFormed(history \o t)
  BY <1>1, <1>4, ResultsWell
<1>6. /\ history' = history \o t /\ Len(history') <= MaxLength
      /\ history'[1] = history[1] /\ Len(history') = Len(history) + Len(t)
  BY <1>1, <1>2, <1>4, AddedParts
<1>7. history' # << >>
  BY <1>1, <1>4, <1>6
<1>. QED
  BY <1>1, <1>2, <1>5, <1>6, <1>7 DEF TranscriptInv

(* The summary, the reminders, what is rescued and what is kept are well    *)
(* formed one by one, so they are together.                                 *)
LEMMA SummariseKeeps ==
  ASSUME TranscriptInv, NEW cut, NEW reminders, Summarise(cut, reminders)
  PROVE  TranscriptInv'
<1>. DEFINE old == SubSeq(history, 1, cut - 1)
            kept == SubSeq(history, cut, Len(history))
            one == <<Human>>
            plain == Chosen(old, reminders)
<1>1. /\ history \in Seq(Msgs) /\ WellFormed(history) /\ Len(history) \in Nat
      /\ cut \in 2 .. Len(history) /\ ~IsResult(history[cut])
  BY DEF TranscriptInv, WellFormed, Summarise
<1>2. doing = "preparing" /\ doing' = doing /\ outgoing' = outgoing /\ Len(history') <= MaxLength
  BY DEF Summarise
<1>3. old \in Seq(Msgs) /\ DOMAIN old = 1 .. Len(old) /\ Len(old) \in Nat
  <2>1. cut - 1 \in 0 .. Len(history)
    BY <1>1
  <2>2. old \in Seq(Msgs)
    BY <1>1, <2>1, Pieces
  <2>. HIDE DEF old
  <2>. QED
    BY <2>2
<1>4. WellFormed(kept) /\ kept \in Seq(Msgs)
  BY <1>1, SuffixWell DEF WellFormed
<1>5. WellFormed(one) /\ one \in Seq(Msgs) /\ Len(one) = 1 /\ one[1] = Human
  BY HumanWell
<1>6. reminders \in SUBSET DOMAIN old /\ \A q \in reminders : old[q] = Human
  BY DEF Summarise
<1>. DEFINE ids(skills, p) == {id \in Ids : <<p, id>> \in skills}
            parts(skills) == [p \in DOMAIN old |-> RescuedFrom(old, p, ids(skills, p))]
<1>7. PICK skills \in SUBSET Rescuable(old) :
        history' = one \o plain \o FlattenSeq(parts(skills)) \o kept
  BY DEF Summarise
<1>. DEFINE s == parts(skills)
<1>. HIDE DEF old, kept, one
<1>8. WellFormed(plain) /\ plain \in Seq(Msgs)
  <2>1. plain \in Seq(Msgs) /\ \A k \in 1 .. Len(plain) : \E i \in reminders : plain[k] = old[i]
    BY <1>3, <1>6, ChosenParts
  <2>. HIDE DEF plain
  <2>2. \A k \in 1 .. Len(plain) : ~IsResult(plain[k])
    BY <1>6, <2>1, HumanWell
  <2>. QED
    BY <2>1, <2>2, PlainWell
<1>. HIDE DEF plain
<1>9. WellFormed(FlattenSeq(s)) /\ FlattenSeq(s) \in Seq(Msgs)
  <2>1. ASSUME NEW p \in DOMAIN old
        PROVE  WellFormed(RescuedFrom(old, p, ids(skills, p)))
    <3>1. CASE ids(skills, p) = {}
      <4>1. RescuedFrom(old, p, ids(skills, p)) = << >>
        BY <3>1 DEF RescuedFrom
      <4>. QED
        BY <4>1, EmptyWell
    <3>2. CASE ids(skills, p) # {}
      <4>1. \A id \in ids(skills, p) : IsAi(old[p]) /\ id \in Answered(old, p)
        BY DEF Rescuable
      <4>. HIDE DEF ids
      <4>2. IsAi(old[p]) /\ ids(skills, p) \in SUBSET Answered(old, p)
        BY <3>2, <4>1
      <4>. QED
        BY <1>3, <4>2, RescuedWell
    <3>. QED
      BY <3>1, <3>2
  <2>. HIDE DEF ids
  <2>2. DOMAIN s = 1 .. Len(old) /\ \A p \in 1 .. Len(old) : WellFormed(s[p])
    BY <1>3, <2>1
  <2>. HIDE DEF s
  <2>3. \A p \in 1 .. Len(old) : s[p] \in Seq(Msgs)
    BY <2>2 DEF WellFormed
  <2>4. s \in Seq(Seq(Msgs)) /\ Len(s) = Len(old)
    <3>1. s = [p \in 1 .. Len(old) |-> s[p]]
      BY <2>2 DEF s
    <3>. QED
      BY <1>3, <2>3, <3>1
  <2>5. WellFormed(FlattenSeq(s))
    BY <2>2, <2>4, FlattenedWell
  <2>. QED
    BY <2>5 DEF WellFormed
<1>10. history' = one \o plain \o FlattenSeq(s) \o kept
  BY <1>7
<1>. HIDE DEF s
<1>11. /\ WellFormed(one \o plain) /\ one \o plain \in Seq(Msgs)
       /\ Len(one \o plain) \in Nat \ {0} /\ (one \o plain)[1] = Human
  <2>1. WellFormed(one \o plain)
    BY <1>5, <1>8, JoinedWell
  <2>2. /\ Len(one \o plain) = 1 + Len(plain) /\ Len(plain) \in Nat
        /\ \A j \in 1 .. 1 : (one \o plain)[j] = one[j]
    BY <1>5, <1>8, Joined
  <2>3. (one \o plain)[1] = Human
    BY <1>5, <2>2
  <2>. QED
    BY <2>1, <2>2, <2>3 DEF WellFormed
<1>. DEFINE front == one \o plain
<1>. HIDE DEF front
<1>12. WellFormed(front \o FlattenSeq(s)) /\ front \o FlattenSeq(s) \in Seq(Msgs)
  BY <1>9, <1>11, JoinedWell DEF WellFormed, front
<1>13. /\ WellFormed(history') /\ history' \in Seq(Msgs)
  BY <1>4, <1>10, <1>12, JoinedWell DEF WellFormed, front
<1>14. history'[1] = Human /\ history' # << >>
  <2>1. /\ 1 \in 1 .. Len(front) /\ front \in Seq(Msgs) /\ front[1] = Human
        /\ 1 \in 1 .. Len(front \o FlattenSeq(s))
    BY <1>9, <1>11, Joined DEF front
  <2>2. (front \o FlattenSeq(s))[1] = Human
    BY <1>9, <2>1, Joined
  <2>3. history' = (front \o FlattenSeq(s)) \o kept
    BY <1>10 DEF front
  <2>4. history'[1] = Human /\ Len(history') # 0
    <3>1. /\ Len(history') = Len(front \o FlattenSeq(s)) + Len(kept)
          /\ \A j \in 1 .. Len(front \o FlattenSeq(s)) :
               history'[j] = (front \o FlattenSeq(s))[j]
      BY <1>4, <1>12, <2>3, Joined
    <3>2. Len(front \o FlattenSeq(s)) \in Nat /\ Len(kept) \in Nat
      BY <1>4, <1>12
    <3>. QED
      BY <2>1, <2>2, <3>1, <3>2
  <2>. QED
    BY <2>4
<1>. QED
  BY <1>2, <1>13, <1>14 DEF TranscriptInv

LEMMA TranscriptHolds == TranscriptSpec => []TranscriptInv
<1>1. TranscriptInit => TranscriptInv
  <2>. SUFFICES ASSUME TranscriptInit PROVE TranscriptInv
    OBVIOUS
  <2>1. history = << >> /\ outgoing = << >> /\ doing = "nothing"
    BY DEF TranscriptInit
  <2>2. WellFormed(history) /\ Paired(outgoing)
    BY <2>1 DEF WellFormed, Paired
  <2>. QED
    BY <2>1, <2>2, TranscriptAssumption DEF TranscriptAssumption, TranscriptInv
<1>2. TranscriptInv /\ [TranscriptNext]_transcriptVars => TranscriptInv'
  <2>. SUFFICES ASSUME TranscriptInv, [TranscriptNext]_transcriptVars PROVE TranscriptInv'
    OBVIOUS
  <2>1. CASE Ask \/ Remind
    <3>1. AddMessages(<<Human>>) /\ doing' = "preparing" /\ outgoing' = outgoing
      BY <2>1 DEF Ask, Remind
    <3>. QED
      BY <3>1, HumanAdded DEF TranscriptInv
  <2>2. CASE SendRequest
    <3>1. outgoing' = Patched(history) /\ history' = history /\ doing' = "calling"
          /\ doing = "preparing"
      BY <2>2 DEF SendRequest
    <3>2. Paired(outgoing')
      BY <3>1, PatchedPaired DEF TranscriptInv
    <3>. QED
      BY <3>1, <3>2 DEF TranscriptInv
  <2>3. CASE FinishTools
    BY <2>3, FinishToolsKeeps
  <2>4. CASE AbortRun
    BY <2>4 DEF AbortRun, TranscriptInv
  <2>5. ASSUME NEW calls \in IdSeqs, NEW invalid \in IdSeqs, NEW hasRaw \in BOOLEAN,
               NEW places, Respond(calls, hasRaw, invalid, places)
        PROVE  TranscriptInv'
    BY <2>5, RespondKeeps
  <2>6. ASSUME NEW cut, NEW reminders, Summarise(cut, reminders)
        PROVE  TranscriptInv'
    BY <2>6, SummariseKeeps
  <2>7. CASE UNCHANGED transcriptVars
    BY <2>7 DEF transcriptVars, TranscriptInv
  <2>. QED
    BY <2>1, <2>2, <2>3, <2>4, <2>5, <2>6, <2>7 DEF TranscriptNext
<1>. QED
  BY <1>1, <1>2, PTL DEF TranscriptSpec

(* TranscriptTypeOK: the history holds messages only, with results of known *)
(* ids, also after it was summarised and skill files were rescued.          *)
THEOREM TranscriptTypes == TranscriptSpec => []TranscriptTypeOK
<1>1. TranscriptInv => TranscriptTypeOK
  <2>. SUFFICES ASSUME TranscriptInv PROVE TranscriptTypeOK
    OBVIOUS
  <2>1. ASSUME NEW p \in DOMAIN history
        PROVE  \/ history[p] = Human \/ (\E id \in Ids : history[p] = Result(id))
               \/ IsAi(history[p])
    <3>1. history[p] \in Msgs
      BY DEF TranscriptInv, WellFormed
    <3>2. \A c, r, i : IsAi(Ai(c, r, i))
      BY DEF IsAi, Ai
    <3>. QED
      BY <3>1, <3>2 DEF Msgs
  <2>. QED
    BY <2>1 DEF TranscriptInv, TranscriptTypeOK
<1>. QED
  BY <1>1, TranscriptHolds, PTL

(* RequestPaired: whatever runs were aborted between calls and results,     *)
(* whatever was stripped, cut, repeated or summarised, a request shows each *)
(* call with its result right after it, and no result anywhere else.        *)
THEOREM RequestsArePaired == TranscriptSpec => []RequestPaired
<1>1. TranscriptInv => RequestPaired
  BY DEF TranscriptInv, Paired, RequestPaired
<1>. QED
  BY <1>1, TranscriptHolds, PTL
=============================================================================
