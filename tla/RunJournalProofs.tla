--------------------------- MODULE RunJournalProofs ---------------------------
(***************************************************************************)
(* The journal stores the events of every run in their order, and a flush  *)
(* that returns has stored all of them.                                    *)
(*                                                                         *)
(* As long as the worker of a run has not failed, what is being written    *)
(* and what is buffered are the last numbers the run has put, in this      *)
(* order, and the rows have all the numbers before them.  At most one      *)
(* writer has a batch.  A write or its failure then keeps the order        *)
(* whatever the other runs of the thread do to the table.                  *)
(***************************************************************************)
EXTENDS RunJournal, SequenceTheorems, TLAPS

USE JournalAssumption

Numbers == 1 .. MaxEvents
Row == [run : JournalRuns, n : Numbers]

InRows(r, n) == \E j \in DOMAIN rows : rows[j] = [run |-> r, n |-> n]

\* s counts on from k.
Follows(s, k) == \A i \in 1 .. Len(s) : s[i] = k + i

\* The last number of r that is not buffered, and the last that is stored.
Taken(r) == put[r] - Len(buffer[r])
Done(r) == Taken(r) - Len(batch[r]["task"]) - Len(batch[r]["flush"])

OneWriter(r) ==
  /\ worker[r] # "draining" => batch[r]["flush"] = << >>
  /\ worker[r] \in {"draining", "flushed", "failed"} => batch[r]["task"] = << >>

Numbered(r) ==
  /\ Done(r) \in Nat
  /\ Follows(buffer[r], Taken(r))
  /\ \A w \in Writers : Follows(batch[r][w], Done(r))
  /\ \A n \in 1 .. Done(r) : InRows(r, n)

RunInv(r) == OneWriter(r) /\ (worker[r] # "failed" => Numbered(r))

JournalInv ==
  /\ JournalTypeOK
  /\ StoredInOrder
  /\ \A r \in JournalRuns : RunInv(r)

-----------------------------------------------------------------------------
(* The table. *)

LEMMA RowNumber ==
  ASSUME NEW s \in Seq(Row), NEW i \in DOMAIN s
  PROVE  s[i].n \in Nat
  <1>1. s[i] \in Row
    OBVIOUS
  <1> QED
    BY <1>1 DEF Row, Numbers

\* What a transaction adds to the rows, b behind what is there.
Extended(r, b, k) ==
  /\ rows' \in Seq(Row)
  /\ DOMAIN rows' = 1 .. Len(rows) + Len(b)
  /\ \A i \in 1 .. Len(rows) : rows'[i] = rows[i]
  /\ \A i \in 1 .. Len(b) : rows'[Len(rows) + i] = [run |-> r, n |-> k + i]

LEMMA InsertExtends ==
  ASSUME rows \in Seq(Row), NEW r \in JournalRuns, NEW b \in Seq(Numbers),
         NEW k \in Nat, Follows(b, k),
         rows' = rows \o [i \in DOMAIN b |-> [run |-> r, n |-> b[i]]]
  PROVE  Extended(r, b, k)
  <1> DEFINE new == [i \in DOMAIN b |-> [run |-> r, n |-> b[i]]]
  <1>1. /\ DOMAIN b = 1 .. Len(b) /\ Len(b) \in Nat
        /\ \A i \in 1 .. Len(b) : b[i] \in Numbers
    BY LenProperties, ElementOfSeq
  <1>2. new \in Seq(Row) /\ Len(new) = Len(b) /\ \A i \in 1 .. Len(b) : new[i] = [run |-> r, n |-> k + i]
    BY <1>1 DEF Row, Follows
  <1>3. Len(rows) \in Nat
    OBVIOUS
  <1>4. rows' = rows \o new
    OBVIOUS
  <1> HIDE DEF new
  <1>5. /\ rows' \in Seq(Row) /\ Len(rows') = Len(rows) + Len(b)
        /\ \A i \in 1 .. Len(rows) + Len(b) :
             rows'[i] = IF i <= Len(rows) THEN rows[i] ELSE new[i - Len(rows)]
    <2>1. rows \in Seq(Row)
      OBVIOUS
    <2>2. /\ rows \o new \in Seq(Row) /\ Len(rows \o new) = Len(rows) + Len(new)
          /\ \A i \in 1 .. Len(rows) + Len(new) :
               (rows \o new)[i] = IF i <= Len(rows) THEN rows[i] ELSE new[i - Len(rows)]
      BY ONLY <2>1, <1>2, ConcatProperties
    <2> QED
      BY ONLY <2>2, <1>2, <1>4
  <1>6. DOMAIN rows' = 1 .. Len(rows) + Len(b)
    BY ONLY <1>5, LenProperties
  <1>7. \A i \in 1 .. Len(rows) : rows'[i] = rows[i]
    BY ONLY <1>1, <1>3, <1>5
  <1>8. ASSUME NEW i \in 1 .. Len(b)
        PROVE  rows'[Len(rows) + i] = [run |-> r, n |-> k + i]
    <2>1. /\ Len(rows) + i \in 1 .. Len(rows) + Len(b)
          /\ ~(Len(rows) + i <= Len(rows)) /\ (Len(rows) + i) - Len(rows) = i
      BY ONLY <1>1, <1>3, i \in 1 .. Len(b)
    <2> QED
      BY ONLY <1>2, <1>5, <2>1, i \in 1 .. Len(b)
  <1> QED
    BY ONLY <1>5, <1>6, <1>7, <1>8 DEF Extended

\* A batch that counts on from what is stored keeps the order of the rows.
LEMMA ExtendKeepsOrder ==
  ASSUME rows \in Seq(Row), StoredInOrder, NEW r \in JournalRuns, NEW b \in Seq(Numbers),
         NEW k \in Nat, \A n \in 1 .. k : InRows(r, n), Extended(r, b, k)
  PROVE  /\ StoredInOrder'
         /\ \A q, n : InRows(q, n) => InRows(q, n)'
         /\ \A n \in 1 .. k + Len(b) : InRows(r, n)'
  <1>1. Len(b) \in Nat
    OBVIOUS
  <1>3. Len(rows) \in Nat /\ DOMAIN rows = 1 .. Len(rows)
    OBVIOUS
  <1>4. /\ rows' \in Seq(Row)
        /\ DOMAIN rows' = 1 .. Len(rows) + Len(b)
        /\ \A i \in 1 .. Len(rows) : rows'[i] = rows[i]
        /\ \A i \in 1 .. Len(b) : rows'[Len(rows) + i] = [run |-> r, n |-> k + i]
    BY DEF Extended
  <1>5. \A q, n : InRows(q, n) => InRows(q, n)'
    BY <1>1, <1>3, <1>4 DEF InRows
  <1>6. \A n \in 1 .. k + Len(b) : InRows(r, n)'
    <2> SUFFICES ASSUME NEW n \in 1 .. k + Len(b)
                 PROVE  InRows(r, n)'
      OBVIOUS
    <2>1. CASE n <= k
      BY <1>5, <2>1
    <2>2. CASE n > k
      <3>1. n - k \in 1 .. Len(b) /\ Len(rows) + (n - k) \in DOMAIN rows'
        BY <1>1, <1>3, <1>4, <2>2
      <3>2. rows'[Len(rows) + (n - k)] = [run |-> r, n |-> n]
        BY <1>1, <1>4, <2>2, <3>1
      <3> QED
        BY <3>1, <3>2 DEF InRows
    <2> QED
      BY <1>1, <2>1, <2>2
  <1>7. StoredInOrder'
    <2> SUFFICES ASSUME NEW i \in 1 .. Len(rows) + Len(b), NEW n \in Nat, 1 <= n, n < rows'[i].n
                 PROVE  \E j \in 1 .. i - 1 : rows'[j] = [run |-> rows'[i].run, n |-> n]
      <3>1. \A i \in DOMAIN rows' : rows'[i].n \in Nat
        BY <1>4, RowNumber
      <3>2. ASSUME NEW i \in DOMAIN rows', NEW n \in 1 .. rows'[i].n - 1
            PROVE  n \in Nat /\ 1 <= n /\ n < rows'[i].n
        BY <3>1
      <3> QED
        BY <1>4, <3>2 DEF StoredInOrder
    <2>0. i \in Nat
      BY <1>1, <1>3
    <2>1. CASE i <= Len(rows)
      <3>1. i \in DOMAIN rows /\ rows'[i] = rows[i] /\ rows[i].n \in Nat
        BY <1>3, <1>4, <2>0, <2>1, RowNumber
      <3>2. n \in 1 .. rows[i].n - 1
        BY <3>1
      <3>3. PICK j \in 1 .. i - 1 : rows[j] = [run |-> rows[i].run, n |-> n]
        BY <3>1, <3>2 DEF StoredInOrder
      <3>4. j \in 1 .. Len(rows)
        BY <1>3, <2>0, <2>1
      <3> QED
        BY <1>4, <3>1, <3>3, <3>4
    <2>2. CASE i > Len(rows)
      <3> DEFINE m == i - Len(rows)
      <3>1. m \in 1 .. Len(b) /\ i = Len(rows) + m
        BY <1>1, <1>3, <2>0, <2>2
      <3>2. rows'[i] = [run |-> r, n |-> k + m]
        BY <1>4, <3>1
      <3>3. rows'[i].run = r /\ n < k + m
        BY <3>2
      <3> HIDE DEF m
      <3>4. CASE n <= k
        <4>1. PICK j \in DOMAIN rows : rows[j] = [run |-> r, n |-> n]
          BY <3>4 DEF InRows
        <4>2. j \in 1 .. Len(rows) /\ j \in 1 .. i - 1
          BY <1>1, <1>3, <2>0, <2>2
        <4> QED
          BY <1>4, <3>3, <4>1, <4>2
      <3>5. CASE n > k
        <4>1. n - k \in 1 .. Len(b) /\ Len(rows) + (n - k) \in 1 .. i - 1 /\ k + (n - k) = n
          BY <1>1, <1>3, <3>1, <3>3, <3>5
        <4>2. rows'[Len(rows) + (n - k)] = [run |-> r, n |-> n]
          BY <1>4, <4>1
        <4> QED
          BY <3>3, <4>1, <4>2
      <3> QED
        BY <3>4, <3>5
    <2> QED
      BY <1>3, <2>0, <2>1, <2>2
  <1> QED
    BY <1>5, <1>6, <1>7
-----------------------------------------------------------------------------
(* The runs. *)

LEMMA InitJournalInv == JournalInit => JournalInv
  <1> SUFFICES ASSUME JournalInit
               PROVE  JournalInv
    OBVIOUS
  <1>1. JournalTypeOK
    BY DEF JournalInit, JournalTypeOK, Writers, Idle
  <1>2. StoredInOrder
    BY DEF JournalInit, StoredInOrder
  <1>3. ASSUME NEW r \in JournalRuns
        PROVE  RunInv(r)
    <2>1. /\ put[r] = 0 /\ buffer[r] = << >> /\ worker[r] = "running"
          /\ batch[r]["task"] = << >> /\ batch[r]["flush"] = << >>
      BY DEF JournalInit, Writers
    <2> QED
      BY <2>1 DEF RunInv, OneWriter, Numbered, Done, Taken, Follows, Writers
  <1> QED
    BY <1>1, <1>2, <1>3 DEF JournalInv

\* What a step of one run leaves to the others.
OnlyMoves(r) ==
  /\ \A q \in JournalRuns \ {r} : UNCHANGED <<put[q], buffer[q], batch[q], worker[q]>>
  /\ \A q, n : InRows(q, n) => InRows(q, n)'

LEMMA OneRunMoves ==
  ASSUME JournalInv, NEW r \in JournalRuns, OnlyMoves(r),
         JournalTypeOK', StoredInOrder', RunInv(r)'
  PROVE  JournalInv'
  <1>1. ASSUME NEW q \in JournalRuns, q # r
        PROVE  RunInv(q)'
    <2>1. /\ put'[q] = put[q] /\ buffer'[q] = buffer[q]
          /\ batch'[q] = batch[q] /\ worker'[q] = worker[q]
      BY <1>1 DEF OnlyMoves
    <2>2. Done(q)' = Done(q) /\ Taken(q)' = Taken(q)
      BY <2>1 DEF Done, Taken
    <2>3. RunInv(q) /\ \A n : InRows(q, n) => InRows(q, n)'
      BY DEF JournalInv, OnlyMoves
    <2> QED
      BY <2>1, <2>2, <2>3 DEF RunInv, OneWriter, Numbered, Follows
  <1> QED
    BY <1>1 DEF JournalInv

LEMMA SameRows ==
  ASSUME JournalInv, UNCHANGED rows
  PROVE  StoredInOrder' /\ \A q, n : InRows(q, n) => InRows(q, n)'
  BY DEF JournalInv, StoredInOrder, InRows

\* What the invariant says of one run, in the terms the steps need.
LEMMA RunFacts ==
  ASSUME JournalInv, NEW r \in JournalRuns
  PROVE  /\ put[r] \in 0 .. MaxEvents
         /\ buffer[r] \in Seq(Numbers) /\ Len(buffer[r]) \in Nat
         /\ batch[r]["task"] \in Seq(Numbers) /\ Len(batch[r]["task"]) \in Nat
         /\ batch[r]["flush"] \in Seq(Numbers) /\ Len(batch[r]["flush"]) \in Nat
         /\ batch[r]["task"] = << >> \/ batch[r]["flush"] = << >>
         /\ OneWriter(r)
         /\ worker[r] # "failed" => Numbered(r)
  <1>1. /\ put[r] \in 0 .. MaxEvents /\ buffer[r] \in Seq(Numbers)
        /\ batch[r] \in [Writers -> Seq(Numbers)]
    BY DEF JournalInv, JournalTypeOK, Numbers
  <1>2. batch[r]["task"] \in Seq(Numbers) /\ batch[r]["flush"] \in Seq(Numbers)
    BY <1>1 DEF Writers
  <1>3. Len(buffer[r]) \in Nat /\ Len(batch[r]["task"]) \in Nat /\ Len(batch[r]["flush"]) \in Nat
    BY <1>1, <1>2, LenProperties
  <1>4. OneWriter(r) /\ (worker[r] # "failed" => Numbered(r))
    BY DEF JournalInv, RunInv
  <1> QED
    BY <1>1, <1>2, <1>3, <1>4 DEF OneWriter

\* A transaction that commits extends the rows by the numbers that follow.
LEMMA InsertKeeps ==
  ASSUME JournalInv, NEW r \in JournalRuns, NEW w \in Writers, InsertRows(r, w)
  PROVE  /\ rows' \in Seq(Row)
         /\ StoredInOrder'
         /\ \A q, n : InRows(q, n) => InRows(q, n)'
         /\ worker[r] # "failed" =>
              \A n \in 1 .. Done(r) + Len(batch[r][w]) : InRows(r, n)'
  <1> DEFINE k == IF worker[r] = "failed" THEN 0 ELSE Done(r)
  <1>1. batch[r][w] \in Seq(Numbers)
    BY RunFacts DEF Writers
  <1>2. worker[r] = "failed" => batch[r][w] = << >>
    BY RunFacts DEF OneWriter, Writers
  <1>3. k \in Nat /\ Follows(batch[r][w], k) /\ \A n \in 1 .. k : InRows(r, n)
    BY <1>2, RunFacts DEF Numbered, Follows
  <1>4. rows \in Seq(Row) /\ StoredInOrder
    BY DEF JournalInv, JournalTypeOK, Row, Numbers
  <1> HIDE DEF k
  <1>5. Extended(r, batch[r][w], k)
    BY <1>1, <1>3, <1>4, InsertExtends DEF InsertRows
  <1>6. /\ StoredInOrder'
        /\ \A q, n : InRows(q, n) => InRows(q, n)'
        /\ \A n \in 1 .. k + Len(batch[r][w]) : InRows(r, n)'
    BY <1>1, <1>3, <1>4, <1>5, ExtendKeepsOrder
  <1> QED
    BY <1>5, <1>6 DEF Extended, k

-----------------------------------------------------------------------------
(* One lemma per action. *)

\* A step that only moves the worker of r, or reads the largest seq.
LEMMA QuietStep ==
  ASSUME JournalInv, NEW r \in JournalRuns, UNCHANGED <<rows, put, buffer, batch>>,
         JournalTypeOK', OneWriter(r)', worker[r] # "failed",
         \A q \in JournalRuns \ {r} : worker'[q] = worker[q]
  PROVE  JournalInv'
  <1>1. StoredInOrder' /\ \A q, n : InRows(q, n) => InRows(q, n)'
    BY SameRows
  <1>2. OnlyMoves(r)
    BY <1>1 DEF OnlyMoves
  <1>3. Done(r)' = Done(r) /\ Taken(r)' = Taken(r)
    BY DEF Done, Taken
  <1>4. RunInv(r)'
    BY <1>1, <1>3, RunFacts DEF RunInv, Numbered, Follows
  <1> QED
    BY <1>1, <1>2, <1>4, OneRunMoves

LEMMA ReadMaxKeeps ==
  ASSUME JournalInv, NEW r \in JournalRuns, NEW w \in Writers, ReadMax(r, w)
  PROVE  JournalInv'
  <1>1. Len(rows) \in Nat /\ base \in [JournalRuns -> [Writers -> Nat]]
    BY DEF JournalInv, JournalTypeOK
  <1>2. JournalTypeOK'
    BY <1>1 DEF JournalInv, JournalTypeOK, ReadMax
  <1>3. OneWriter(r)' /\ worker[r] # "failed"
    BY RunFacts DEF ReadMax, OneWriter, Writers
  <1> QED
    BY <1>2, <1>3, QuietStep DEF ReadMax

LEMMA FlushKeeps ==
  ASSUME JournalInv, NEW r \in JournalRuns, Flush(r) \/ StartDrain(r) \/ EndFlush(r)
  PROVE  JournalInv'
  <1>1. JournalTypeOK'
    BY DEF JournalInv, JournalTypeOK, Flush, StartDrain, EndFlush
  <1>2. worker \in [JournalRuns -> {"running", "waiting", "draining", "flushed", "failed"}]
    BY DEF JournalInv, JournalTypeOK
  <1>3. OneWriter(r)' /\ worker[r] # "failed"
    BY <1>2, RunFacts DEF Flush, StartDrain, EndFlush, OneWriter
  <1>4. \A q \in JournalRuns \ {r} : worker'[q] = worker[q]
    BY <1>2 DEF Flush, StartDrain, EndFlush
  <1> QED
    BY <1>1, <1>3, <1>4, QuietStep DEF Flush, StartDrain, EndFlush

LEMMA PutKeeps ==
  ASSUME JournalInv, NEW r \in JournalRuns, NEW onLoop \in BOOLEAN, NEW ends \in BOOLEAN,
         Put(r, onLoop, ends)
  PROVE  JournalInv'
  <1> DEFINE events == Append(buffer[r], put[r] + 1)
             took == batch'[r]["task"] # batch[r]["task"]
  <1>1. put[r] + 1 \in Numbers /\ put[r] \in Nat /\ buffer[r] \in Seq(Numbers)
    BY RunFacts DEF Put, Numbers
  <1>2. /\ events \in Seq(Numbers) /\ Len(events) = Len(buffer[r]) + 1
        /\ \A i \in 1 .. Len(buffer[r]) : events[i] = buffer[r][i]
        /\ events[Len(buffer[r]) + 1] = put[r] + 1
    BY <1>1
  <1>3. /\ put \in [JournalRuns -> 0 .. MaxEvents]
        /\ buffer \in [JournalRuns -> Seq(Numbers)]
        /\ batch \in [JournalRuns -> [Writers -> Seq(Numbers)]]
    BY DEF JournalInv, JournalTypeOK, Numbers
  <1> HIDE DEF events, took
  <1>4. /\ put' = [put EXCEPT ![r] = @ + 1]
        /\ \/ buffer' = [buffer EXCEPT ![r] = events] /\ batch' = batch
           \/ /\ batch[r]["task"] = << >> /\ worker[r] = "running"
              /\ buffer' = [buffer EXCEPT ![r] = << >>]
              /\ batch' = [batch EXCEPT ![r]["task"] = events]
        /\ UNCHANGED <<rows, base, worker, failed>>
    BY DEF Put, FlushSync, events
  <1>5. StoredInOrder' /\ \A q, n : InRows(q, n) => InRows(q, n)'
    BY <1>4, SameRows
  <1>6. put' \in [JournalRuns -> 0 .. MaxEvents] /\ put'[r] = put[r] + 1
    BY <1>1, <1>3, <1>4 DEF Numbers
  <1>7. buffer' \in [JournalRuns -> Seq(Numbers)] /\ batch' \in [JournalRuns -> [Writers -> Seq(Numbers)]]
    <2>1. << >> \in Seq(Numbers) /\ "task" \in Writers
      BY DEF Writers
    <2>2. CASE buffer' = [buffer EXCEPT ![r] = events] /\ batch' = batch
      BY ONLY <1>2, <1>3, <2>2, r \in JournalRuns
    <2>3. CASE /\ buffer' = [buffer EXCEPT ![r] = << >>]
               /\ batch' = [batch EXCEPT ![r]["task"] = events]
      <3>1. buffer' \in [JournalRuns -> Seq(Numbers)]
        BY ONLY <1>3, <2>1, <2>3, r \in JournalRuns
      <3>2. batch' \in [JournalRuns -> [Writers -> Seq(Numbers)]]
        BY ONLY <1>2, <1>3, <2>1, <2>3, r \in JournalRuns
      <3> QED
        BY <3>1, <3>2
    <2> QED
      BY <1>4, <2>2, <2>3
  <1>8. JournalTypeOK'
    BY <1>4, <1>6, <1>7 DEF JournalInv, JournalTypeOK, Numbers
  <1>9. OnlyMoves(r)
    BY <1>3, <1>4, <1>5 DEF OnlyMoves
  <1>10. RunInv(r)'
    <2>0. /\ Len(buffer[r]) \in Nat
          /\ Len(batch[r]["task"]) \in Nat /\ Len(batch[r]["flush"]) \in Nat
      BY RunFacts
    <2>1. CASE buffer' = [buffer EXCEPT ![r] = events] /\ batch' = batch
      <3>1. buffer'[r] = events /\ batch'[r] = batch[r] /\ worker'[r] = worker[r]
        BY <1>3, <1>4, <2>1
      <3>2. Taken(r)' = Taken(r) /\ Done(r)' = Done(r)
        <4>1. \A p, a \in Int : (p + 1) - (a + 1) = p - a
          OBVIOUS
        <4>2. put[r] \in Int /\ Len(buffer[r]) \in Int
          BY ONLY <1>1, <2>0
        <4>3. put'[r] = put[r] + 1 /\ Len(buffer'[r]) = Len(buffer[r]) + 1
          BY ONLY <1>2, <1>6, <3>1
        <4>4. Taken(r)' = Taken(r)
          BY ONLY <4>1, <4>2, <4>3 DEF Taken
        <4> QED
          BY ONLY <3>1, <4>4 DEF Done
      <3>3. OneWriter(r)'
        BY <3>1, RunFacts DEF OneWriter
      <3>4. ASSUME worker[r] # "failed"
            PROVE  Follows(events, Taken(r))
        <4>1. Follows(buffer[r], Taken(r)) /\ Taken(r) + Len(buffer[r]) + 1 = put[r] + 1
          BY <1>1, <3>4, RunFacts DEF Numbered, Taken
        <4>2. ASSUME NEW i \in 1 .. Len(buffer[r]) + 1
              PROVE  events[i] = Taken(r) + i
          <5>1. CASE i \in 1 .. Len(buffer[r])
            BY <1>2, <4>1, <5>1 DEF Follows
          <5>2. CASE i = Len(buffer[r]) + 1
            BY <1>1, <1>2, <4>1, <5>2, RunFacts DEF Taken
          <5> QED
            BY <5>1, <5>2, RunFacts
        <4> QED
          BY <1>2, <4>2 DEF Follows
      <3>5. worker[r] # "failed" => Numbered(r)'
        BY <1>5, <3>1, <3>2, <3>4, RunFacts DEF Numbered, Follows
      <3> QED
        BY <3>1, <3>3, <3>5 DEF RunInv
    <2>2. CASE /\ batch[r]["task"] = << >> /\ worker[r] = "running"
               /\ buffer' = [buffer EXCEPT ![r] = << >>]
               /\ batch' = [batch EXCEPT ![r]["task"] = events]
      <3>1. /\ buffer'[r] = << >> /\ worker'[r] = "running"
            /\ batch'[r]["task"] = events /\ batch'[r]["flush"] = batch[r]["flush"]
        BY <1>3, <1>4, <2>2 DEF Writers
      <3>2. batch[r]["flush"] = << >> /\ Numbered(r)
        BY <2>2, RunFacts DEF OneWriter
      <3>3. Done(r)' = Done(r) /\ Taken(r)' = put[r] + 1 /\ Done(r) = Taken(r)
        <4>1. /\ Len(batch[r]["task"]) = 0 /\ Len(batch[r]["flush"]) = 0
              /\ Len(batch'[r]["flush"]) = 0 /\ Len(buffer'[r]) = 0
          BY <2>2, <3>1, <3>2
        <4>2. Done(r)' = Taken(r)' - Len(events) - 0 /\ Done(r) = Taken(r) - 0 - 0
          BY ONLY <3>1, <4>1 DEF Done
        <4>3. Taken(r)' = put'[r] - 0 /\ Taken(r) = put[r] - Len(buffer[r])
          BY ONLY <4>1 DEF Taken
        <4>4. put[r] \in Int /\ Len(buffer[r]) \in Int
          BY ONLY <1>1, <2>0
        <4>5. Taken(r)' = put[r] + 1 /\ Taken(r) \in Int
          BY ONLY <1>6, <4>3, <4>4
        <4>6. Done(r) = Taken(r)
          BY ONLY <4>2, <4>5
        <4>7. \A p, a \in Int : (p + 1) - (a + 1) - 0 = p - a
          OBVIOUS
        <4>8. Done(r)' = (put[r] + 1) - (Len(buffer[r]) + 1) - 0
          BY ONLY <1>2, <4>2, <4>5
        <4>9. Done(r)' = Taken(r)
          BY ONLY <4>3, <4>4, <4>7, <4>8
        <4> QED
          BY ONLY <4>5, <4>6, <4>9
      <3>4. ASSUME NEW i \in 1 .. Len(buffer[r]) + 1
            PROVE  events[i] = Taken(r) + i
        <4>1. CASE i \in 1 .. Len(buffer[r])
          BY <1>2, <3>2, <4>1 DEF Numbered, Follows
        <4>2. CASE i = Len(buffer[r]) + 1
          BY <1>1, <1>2, <4>2, RunFacts DEF Taken
        <4> QED
          BY <4>1, <4>2, RunFacts
      <3>5. Numbered(r)'
        <4>1. Done(r)' \in Nat /\ \A n \in 1 .. Done(r)' : InRows(r, n)'
          BY <1>5, <3>2, <3>3 DEF Numbered
        <4>2. Follows(buffer[r], Taken(r))'
          BY <3>1 DEF Follows
        <4>3. \A w \in Writers : Follows(batch[r][w], Done(r))'
          BY <1>2, <3>1, <3>2, <3>3, <3>4 DEF Follows, Writers
        <4> QED
          BY <4>1, <4>2, <4>3 DEF Numbered
      <3> QED
        BY <3>1, <3>2, <3>5 DEF RunInv, OneWriter
    <2> QED
      BY <1>4, <2>1, <2>2
  <1> QED
    BY <1>5, <1>8, <1>9, <1>10, OneRunMoves

\* The types a step keeps that empties the batch of one writer.
LEMMA WrittenKeepsTypes ==
  ASSUME JournalInv, NEW r \in JournalRuns, NEW w \in Writers, Written(r, w)
  PROVE  /\ batch' \in [JournalRuns -> [Writers -> Seq(Numbers)]]
         /\ base' \in [JournalRuns -> [Writers -> Nat]]
         /\ batch'[r][w] = << >>
         /\ \A x \in Writers \ {w} : batch'[r][x] = batch[r][x]
         /\ \A q \in JournalRuns \ {r} : batch'[q] = batch[q]
  <1>1. /\ batch \in [JournalRuns -> [Writers -> Seq(Numbers)]]
        /\ base \in [JournalRuns -> [Writers -> Nat]]
    BY DEF JournalInv, JournalTypeOK, Numbers
  <1>2. << >> \in Seq(Numbers) /\ Idle \in Nat
    BY DEF Idle
  <1>3. batch' = [batch EXCEPT ![r][w] = << >>] /\ base' = [base EXCEPT ![r][w] = Idle]
    BY DEF Written
  <1>4. batch' \in [JournalRuns -> [Writers -> Seq(Numbers)]] /\ base' \in [JournalRuns -> [Writers -> Nat]]
    BY ONLY <1>1, <1>2, <1>3, r \in JournalRuns, w \in Writers
  <1> QED
    BY ONLY <1>1, <1>3, <1>4, r \in JournalRuns, w \in Writers

LEMMA CommitKeeps ==
  ASSUME JournalInv, NEW r \in JournalRuns, NEW w \in Writers, Commit(r, w)
  PROVE  JournalInv'
  <1>1. /\ InsertRows(r, w) /\ Written(r, w)
        /\ put' = put /\ buffer' = buffer /\ worker' = worker /\ failed' = failed
    BY DEF Commit
  <1>2. /\ rows' \in Seq(Row) /\ StoredInOrder'
        /\ \A q, n : InRows(q, n) => InRows(q, n)'
        /\ worker[r] # "failed" =>
             \A n \in 1 .. Done(r) + Len(batch[r][w]) : InRows(r, n)'
    BY <1>1, InsertKeeps
  <1>3. /\ batch' \in [JournalRuns -> [Writers -> Seq(Numbers)]]
        /\ base' \in [JournalRuns -> [Writers -> Nat]]
        /\ batch'[r][w] = << >>
        /\ \A x \in Writers \ {w} : batch'[r][x] = batch[r][x]
        /\ \A q \in JournalRuns \ {r} : batch'[q] = batch[q]
    BY <1>1, WrittenKeepsTypes
  <1>4. JournalTypeOK'
    <2>1. /\ put \in [JournalRuns -> 0 .. MaxEvents] /\ failed \in 0 .. MaxLostWrites
          /\ buffer \in [JournalRuns -> Seq(Numbers)]
          /\ worker \in [JournalRuns -> {"running", "waiting", "draining", "flushed", "failed"}]
      BY DEF JournalInv, JournalTypeOK, Numbers
    <2> QED
      BY ONLY <1>1, <1>2, <1>3, <2>1 DEF JournalTypeOK, Row, Numbers
  <1>5. OnlyMoves(r)
    BY ONLY <1>1, <1>2, <1>3 DEF OnlyMoves
  <1>6. /\ put[r] \in 0 .. MaxEvents /\ Len(buffer[r]) \in Nat
        /\ Len(batch[r]["task"]) \in Nat /\ Len(batch[r]["flush"]) \in Nat
        /\ batch[r]["task"] = << >> \/ batch[r]["flush"] = << >>
        /\ OneWriter(r)
        /\ worker[r] # "failed" => Numbered(r)
    BY RunFacts
  <1>7. OneWriter(r)'
    BY ONLY <1>1, <1>3, <1>6, w \in Writers DEF OneWriter, Writers
  <1>8. ASSUME worker[r] # "failed"
        PROVE  Numbered(r)'
    <2>0. /\ Len(batch[r]["task"]) \in Nat /\ Len(batch[r]["flush"]) \in Nat
          /\ Len(batch[r][w]) \in Nat /\ Len(buffer[r]) \in Nat /\ put[r] \in Int
      BY <1>6 DEF Writers
    <2>2. Taken(r)' = Taken(r) /\ Taken(r) \in Int
      BY ONLY <1>1, <2>0 DEF Taken
    <2>3. Done(r)' = Done(r) + Len(batch[r][w]) /\ Done(r) \in Nat
      <3>1. Done(r) \in Nat
        BY <1>6, <1>8 DEF Numbered
      <3>2. CASE w = "task"
        <4>1. batch'[r]["task"] = << >> /\ batch'[r]["flush"] = batch[r]["flush"]
          BY <1>3, <3>2 DEF Writers
        <4>2. Len(batch'[r]["task"]) = 0 /\ Len(batch'[r]["flush"]) = Len(batch[r]["flush"])
          BY <4>1
        <4>3. Done(r)' = Taken(r) - 0 - Len(batch[r]["flush"])
          BY ONLY <2>2, <4>2 DEF Done
        <4> QED
          BY ONLY <2>0, <2>2, <3>1, <3>2, <4>3 DEF Done
      <3>3. CASE w = "flush"
        <4>1. batch'[r]["flush"] = << >> /\ batch'[r]["task"] = batch[r]["task"]
          BY <1>3, <3>3 DEF Writers
        <4>2. Len(batch'[r]["flush"]) = 0 /\ Len(batch'[r]["task"]) = Len(batch[r]["task"])
          BY <4>1
        <4>3. Done(r)' = Taken(r) - Len(batch[r]["task"]) - 0
          BY ONLY <2>2, <4>2 DEF Done
        <4> QED
          BY ONLY <2>0, <2>2, <3>1, <3>3, <4>3 DEF Done
      <3> QED
        BY <3>2, <3>3 DEF Writers
    <2>4. Follows(buffer[r], Taken(r))'
      BY ONLY <1>1, <1>6, <1>8, <2>2 DEF Numbered, Follows
    <2>5. ASSUME NEW x \in Writers
          PROVE  Follows(batch[r][x], Done(r))'
      <3>1. CASE batch'[r][x] = << >>
        BY <3>1 DEF Follows
      <3>2. CASE batch'[r][x] # << >>
        <4>1. x # w /\ batch'[r][x] = batch[r][x]
          BY <1>3, <3>2
        <4>2. batch[r][w] = << >>
          BY <1>6, <3>2, <4>1 DEF Writers
        <4>3. Done(r)' = Done(r)
          BY <2>3, <4>2
        <4> QED
          BY <1>6, <1>8, <4>1, <4>3 DEF Numbered, Follows
      <3> QED
        BY <3>1, <3>2
    <2> QED
      BY ONLY <1>2, <1>8, <2>2, <2>3, <2>4, <2>5 DEF Numbered
  <1> QED
    BY <1>1, <1>2, <1>4, <1>5, <1>7, <1>8, OneRunMoves DEF RunInv

LEMMA FailWriteKeeps ==
  ASSUME JournalInv, NEW r \in JournalRuns, NEW w \in Writers, FailWrite(r, w)
  PROVE  JournalInv'
  <1>1. /\ batch[r][w] # << >> /\ put' = put /\ Written(r, w)
        /\ buffer' = [buffer EXCEPT ![r] = batch[r][w] \o @]
        /\ worker' = IF w = "flush" THEN [worker EXCEPT ![r] = "failed"] ELSE worker
    BY DEF FailWrite, ReturnBatch
  <1>2. rows' \in Seq(Row) /\ StoredInOrder' /\ \A q, n : InRows(q, n) => InRows(q, n)'
    <2>1. CASE UNCHANGED rows
      <3>1. rows \in Seq(Row)
        BY DEF JournalInv, JournalTypeOK, Row, Numbers
      <3> QED
        BY <2>1, <3>1, SameRows
    <2>2. CASE InsertRows(r, w)
      BY <2>2, InsertKeeps
    <2> QED
      BY <2>1, <2>2 DEF FailWrite
  <1>3. /\ batch' \in [JournalRuns -> [Writers -> Seq(Numbers)]]
        /\ base' \in [JournalRuns -> [Writers -> Nat]]
        /\ batch'[r][w] = << >>
        /\ \A x \in Writers \ {w} : batch'[r][x] = batch[r][x]
        /\ \A q \in JournalRuns \ {r} : batch'[q] = batch[q]
    BY <1>1, WrittenKeepsTypes
  <1>4. /\ put \in [JournalRuns -> 0 .. MaxEvents]
        /\ buffer \in [JournalRuns -> Seq(Numbers)]
        /\ worker \in [JournalRuns -> {"running", "waiting", "draining", "flushed", "failed"}]
    BY DEF JournalInv, JournalTypeOK, Numbers
  <1>5. /\ put[r] \in 0 .. MaxEvents /\ buffer[r] \in Seq(Numbers) /\ Len(buffer[r]) \in Nat
        /\ batch[r][w] \in Seq(Numbers) /\ Len(batch[r][w]) \in Nat
        /\ batch[r]["task"] = << >> \/ batch[r]["flush"] = << >>
        /\ OneWriter(r)
        /\ worker[r] # "failed" => Numbered(r)
    BY RunFacts DEF Writers
  <1> DEFINE events == batch[r][w] \o buffer[r]
  <1>6. /\ events \in Seq(Numbers) /\ Len(events) = Len(batch[r][w]) + Len(buffer[r])
        /\ \A i \in 1 .. Len(batch[r][w]) + Len(buffer[r]) :
             events[i] = IF i <= Len(batch[r][w]) THEN batch[r][w][i]
                         ELSE buffer[r][i - Len(batch[r][w])]
    BY ONLY <1>5, ConcatProperties
  <1>7. buffer' = [buffer EXCEPT ![r] = events]
    BY <1>1
  <1> HIDE DEF events
  <1>8. failed' \in 0 .. MaxLostWrites
    <2>1. failed \in 0 .. MaxLostWrites
      BY DEF JournalInv, JournalTypeOK
    <2>2. UNCHANGED failed \/ (failed < MaxLostWrites /\ failed' = failed + 1)
      BY DEF FailWrite
    <2> QED
      BY ONLY <2>1, <2>2, JournalAssumption DEF JournalAssumption
  <1>9. JournalTypeOK'
    <2>1. buffer' \in [JournalRuns -> Seq(Numbers)]
      BY ONLY <1>4, <1>6, <1>7
    <2>2. worker' \in [JournalRuns -> {"running", "waiting", "draining", "flushed", "failed"}]
      BY ONLY <1>1, <1>4
    <2> QED
      BY ONLY <1>1, <1>2, <1>3, <1>4, <1>8, <2>1, <2>2 DEF JournalTypeOK, Row, Numbers
  <1>10. OnlyMoves(r)
    BY ONLY <1>1, <1>2, <1>3, <1>4, <1>7 DEF OnlyMoves
  <1>11. CASE w = "flush"
    <2>1. worker'[r] = "failed" /\ batch'[r]["task"] = << >> /\ batch'[r]["flush"] = << >>
      BY <1>1, <1>3, <1>4, <1>5, <1>11 DEF Writers
    <2>2. RunInv(r)'
      BY ONLY <2>1 DEF RunInv, OneWriter
    <2> QED
      BY <1>2, <1>9, <1>10, <2>2, OneRunMoves
  <1>12. CASE w = "task"
    <2>1. /\ batch'[r]["task"] = << >> /\ batch'[r]["flush"] = << >>
          /\ batch[r]["flush"] = << >> /\ worker' = worker /\ worker[r] # "failed"
          /\ buffer'[r] = events
      BY <1>1, <1>3, <1>4, <1>5, <1>7, <1>12 DEF Writers, OneWriter
    <2>2. Numbered(r)
      BY <1>5, <2>1
    <2>3. Done(r) = Taken(r) - Len(batch[r][w]) /\ Taken(r) = put[r] - Len(buffer[r])
      <3>1. Len(batch[r]["flush"]) = 0
        BY <2>1
      <3> QED
        BY ONLY <1>5, <1>12, <3>1 DEF Done, Taken
    <2>4. Taken(r)' = Done(r) /\ Done(r)' = Done(r)
      <3>1. Len(batch'[r]["task"]) = 0 /\ Len(batch'[r]["flush"]) = 0
        BY <2>1
      <3>2. /\ Len(batch[r][w]) \in Nat /\ Len(buffer[r]) \in Nat /\ put[r] \in Int
            /\ Len(buffer'[r]) = Len(batch[r][w]) + Len(buffer[r]) /\ put'[r] = put[r]
        <4>1. Len(batch[r][w]) \in Nat /\ Len(buffer[r]) \in Nat /\ put[r] \in Int
          BY <1>5
        <4>2. Len(buffer'[r]) = Len(batch[r][w]) + Len(buffer[r])
          BY ONLY <1>6, <2>1
        <4>3. put' = put
          BY <1>1
        <4> QED
          BY ONLY <4>1, <4>2, <4>3
      <3>3. Taken(r)' = Done(r) /\ Done(r) \in Int
        <4>1. Taken(r)' = put[r] - (Len(batch[r][w]) + Len(buffer[r]))
          BY ONLY <3>2 DEF Taken
        <4>2. Done(r) = put[r] - Len(buffer[r]) - Len(batch[r][w])
          BY ONLY <2>3
        <4>3. \A p, a, b \in Int : p - (a + b) = p - b - a /\ p - b - a \in Int
          OBVIOUS
        <4>4. Len(batch[r][w]) \in Int /\ Len(buffer[r]) \in Int /\ put[r] \in Int
          BY ONLY <3>2
        <4> QED
          BY ONLY <4>1, <4>2, <4>3, <4>4, Zenon
      <3>4. Done(r)' = Taken(r)' - 0 - 0
        BY ONLY <3>1 DEF Done
      <3> QED
        BY ONLY <3>3, <3>4
    <2>5. Follows(events, Done(r))
      <3> DEFINE m == Len(batch[r][w])
                 l == Len(buffer[r])
      <3>1. m \in Nat /\ l \in Nat /\ Len(events) = m + l
        BY <1>5, <1>6
      <3>2. /\ \A i \in 1 .. m : batch[r][w][i] = Done(r) + i
            /\ \A i \in 1 .. l : buffer[r][i] = Taken(r) + i
            /\ Done(r) \in Nat /\ Taken(r) \in Int /\ Done(r) = Taken(r) - m
        BY <1>5, <2>2, <2>3 DEF Numbered, Follows
      <3>3. \A i \in 1 .. m + l : events[i] = IF i <= m THEN batch[r][w][i] ELSE buffer[r][i - m]
        BY <1>6
      <3> HIDE DEF m, l
      <3>4. ASSUME NEW i \in 1 .. m + l
            PROVE  events[i] = Done(r) + i
        <4>0. i \in 1 .. m + l
          OBVIOUS
        <4>1. CASE i <= m
          BY ONLY <3>1, <3>2, <3>3, <4>0, <4>1
        <4>2. CASE ~(i <= m)
          <5>1. i - m \in 1 .. l /\ i \in Int
            BY ONLY <3>1, <4>0, <4>2
          <5>2. events[i] = buffer[r][i - m]
            BY ONLY <3>3, <4>0, <4>2
          <5>3. buffer[r][i - m] = Taken(r) + (i - m)
            BY ONLY <3>2, <5>1
          <5> QED
            BY ONLY <3>1, <3>2, <5>1, <5>2, <5>3
        <4> QED
          BY <4>1, <4>2
      <3> QED
        BY ONLY <3>1, <3>4 DEF Follows
    <2>6. RunInv(r)'
      <3>1. Follows(buffer[r], Taken(r))'
        BY <2>1, <2>4, <2>5 DEF Follows
      <3>2. \A x \in Writers : Follows(batch[r][x], Done(r))'
        BY <2>1 DEF Follows, Writers
      <3>3. Done(r)' \in Nat /\ \A n \in 1 .. Done(r)' : InRows(r, n)'
        BY ONLY <1>2, <2>2, <2>4 DEF Numbered
      <3>4. OneWriter(r)'
        BY ONLY <2>1 DEF OneWriter
      <3> QED
        BY ONLY <3>1, <3>2, <3>3, <3>4 DEF RunInv, Numbered
    <2> QED
      BY <1>2, <1>9, <1>10, <2>6, OneRunMoves
  <1> QED
    BY <1>11, <1>12 DEF Writers

LEMMA DrainBatchKeeps ==
  ASSUME JournalInv, NEW r \in JournalRuns, DrainBatch(r)
  PROVE  JournalInv'
  <1> DEFINE l == Len(buffer[r])
             n == IF l < FlushThreshold THEN l ELSE FlushThreshold
             first == SubSeq(buffer[r], 1, n)
             rest == SubSeq(buffer[r], n + 1, l)
  <1>1. /\ worker[r] = "draining" /\ batch[r]["flush"] = << >>
        /\ batch' = [batch EXCEPT ![r]["flush"] = first] /\ buffer' = [buffer EXCEPT ![r] = rest]
        /\ rows' = rows /\ put' = put /\ base' = base /\ worker' = worker /\ failed' = failed
    BY DEF DrainBatch
  <1>2. /\ put \in [JournalRuns -> 0 .. MaxEvents]
        /\ buffer \in [JournalRuns -> Seq(Numbers)]
        /\ batch \in [JournalRuns -> [Writers -> Seq(Numbers)]]
        /\ rows \in Seq(Row) /\ base \in [JournalRuns -> [Writers -> Nat]]
        /\ failed \in 0 .. MaxLostWrites
        /\ worker \in [JournalRuns -> {"running", "waiting", "draining", "flushed", "failed"}]
    BY DEF JournalInv, JournalTypeOK, Row, Numbers
  <1>3. /\ batch[r]["task"] = << >> /\ Numbered(r) /\ put[r] \in Int
        /\ buffer[r] \in Seq(Numbers)
    BY <1>1, RunFacts DEF OneWriter
  <1>4. l \in Nat /\ n \in 0 .. l
    BY <1>3
  <1>5. \A i \in 1 .. l : buffer[r][i] \in Numbers
    BY <1>3
  <1>6. first \in Seq(Numbers) /\ Len(first) = n /\ \A i \in 1 .. n : first[i] = buffer[r][i]
    <2> HIDE DEF l, n
    <2>1. /\ 1 \in Int /\ n \in Int /\ \A i \in 1 .. n : buffer[r][i] \in Numbers
      BY ONLY <1>4, <1>5
    <2>2. /\ first \in Seq(Numbers)
          /\ Len(first) = IF 1 <= n THEN n - 1 + 1 ELSE 0
          /\ \A i \in 1 .. n - 1 + 1 : first[i] = buffer[r][1 + i - 1]
      BY ONLY <2>1, SubSeqProperties
    <2>3. n - 1 + 1 = n /\ \A i \in 1 .. n : 1 + i - 1 = i
      BY ONLY <1>4
    <2> HIDE DEF first
    <2> QED
      BY ONLY <1>4, <2>2, <2>3
  <1>7. rest \in Seq(Numbers) /\ Len(rest) = l - n /\ \A i \in 1 .. l - n : rest[i] = buffer[r][n + i]
    <2> HIDE DEF l, n
    <2>1. /\ n + 1 \in Int /\ l \in Int /\ \A i \in n + 1 .. l : buffer[r][i] \in Numbers
      BY ONLY <1>4, <1>5
    <2>2. /\ rest \in Seq(Numbers)
          /\ Len(rest) = IF n + 1 <= l THEN l - (n + 1) + 1 ELSE 0
          /\ \A i \in 1 .. l - (n + 1) + 1 : rest[i] = buffer[r][n + 1 + i - 1]
      BY ONLY <2>1, SubSeqProperties
    <2>3. l - (n + 1) + 1 = l - n /\ \A i \in 1 .. l - n : n + 1 + i - 1 = n + i
      BY ONLY <1>4
    <2> HIDE DEF rest
    <2> QED
      BY ONLY <1>4, <2>2, <2>3
  <1> HIDE DEF n, first, rest
  <1>8. JournalTypeOK'
    <2>1. buffer' \in [JournalRuns -> Seq(Numbers)]
      BY ONLY <1>1, <1>2, <1>7
    <2>2. batch' \in [JournalRuns -> [Writers -> Seq(Numbers)]]
      BY ONLY <1>1, <1>2, <1>6
    <2> QED
      BY ONLY <1>1, <1>2, <2>1, <2>2 DEF JournalTypeOK, Row, Numbers
  <1>9. StoredInOrder' /\ \A q, k : InRows(q, k) => InRows(q, k)'
    BY <1>1, SameRows
  <1>10. OnlyMoves(r)
    BY ONLY <1>1, <1>2, <1>9 DEF OnlyMoves
  <1>11. /\ buffer'[r] = rest /\ batch'[r]["flush"] = first
         /\ batch'[r]["task"] = << >> /\ worker'[r] = "draining" /\ put'[r] = put[r]
    BY ONLY <1>1, <1>2, <1>3, r \in JournalRuns DEF Writers
  <1>12. Taken(r) = put[r] - l /\ Done(r) = Taken(r) /\ Done(r) \in Nat
    <2>1. Len(batch[r]["task"]) = 0 /\ Len(batch[r]["flush"]) = 0
      BY <1>1, <1>3
    <2>2. Done(r) = Taken(r) - 0 - 0
      BY ONLY <2>1 DEF Done
    <2>3. Taken(r) = put[r] - l
      BY DEF Taken
    <2> HIDE DEF l
    <2>4. Done(r) \in Nat
      BY <1>3 DEF Numbered
    <2> QED
      BY ONLY <1>3, <1>4, <2>2, <2>3, <2>4
  <1>13. /\ Follows(first, Done(r)) /\ Follows(rest, Done(r) + n)
    <2>1. \A i \in 1 .. l : buffer[r][i] = Done(r) + i
      BY <1>3, <1>12 DEF Numbered, Follows
    <2> HIDE DEF l
    <2>2. Follows(first, Done(r))
      BY ONLY <1>4, <1>6, <2>1 DEF Follows
    <2>3. \A i \in 1 .. l - n : n + i \in 1 .. l /\ Done(r) + (n + i) = (Done(r) + n) + i
      BY ONLY <1>4, <1>12
    <2>4. Follows(rest, Done(r) + n)
      BY ONLY <1>7, <2>1, <2>3 DEF Follows
    <2> QED
      BY <2>2, <2>4
  <1>14. Taken(r)' = Done(r) + n /\ Done(r)' = Done(r)
    <2>1. Len(batch'[r]["task"]) = 0 /\ Len(batch'[r]["flush"]) = n /\ Len(buffer'[r]) = l - n
      BY <1>6, <1>7, <1>11
    <2>2. Taken(r)' = put[r] - (l - n)
      BY ONLY <1>11, <2>1 DEF Taken
    <2>3. Done(r)' = Taken(r)' - 0 - n
      BY ONLY <2>1 DEF Done
    <2>4. \A p, a, b \in Int : p - (a - b) = (p - a) + b
      OBVIOUS
    <2> HIDE DEF l
    <2>5. put[r] \in Int /\ l \in Int /\ n \in Int
      BY ONLY <1>3, <1>4
    <2>6. put[r] - (l - n) = (put[r] - l) + n
      BY ONLY <2>4, <2>5
    <2>7. Taken(r)' = Done(r) + n
      BY ONLY <1>12, <2>2, <2>6, Zenon
    <2>8. Done(r)' = Done(r)
      <3>1. Done(r) \in Int
        BY ONLY <1>12
      <3>2. \A d, b \in Int : (d + b) - 0 - b = d
        OBVIOUS
      <3> QED
        BY ONLY <2>3, <2>5, <2>7, <3>1, <3>2
    <2> QED
      BY ONLY <2>7, <2>8
  <1>15. Numbered(r)'
    <2>1. Follows(buffer[r], Taken(r))'
      BY ONLY <1>11, <1>13, <1>14 DEF Follows
    <2>2. \A x \in Writers : Follows(batch[r][x], Done(r))'
      <3>1. Follows(batch[r]["flush"], Done(r))'
        BY ONLY <1>11, <1>13, <1>14 DEF Follows
      <3>2. Follows(batch[r]["task"], Done(r))'
        BY <1>11 DEF Follows
      <3> QED
        BY <3>1, <3>2 DEF Writers
    <2>3. \A i \in 1 .. Done(r)' : InRows(r, i)'
      <3>1. \A i \in 1 .. Done(r) : InRows(r, i)
        BY <1>3 DEF Numbered
      <3> QED
        BY ONLY <1>9, <1>14, <3>1
    <2> QED
      BY ONLY <1>12, <1>14, <2>1, <2>2, <2>3 DEF Numbered
  <1>16. RunInv(r)'
    BY ONLY <1>11, <1>15 DEF RunInv, OneWriter
  <1> QED
    BY <1>8, <1>9, <1>10, <1>16, OneRunMoves

LEMMA CancelFlushKeeps ==
  ASSUME JournalInv, NEW r \in JournalRuns, CancelFlush(r)
  PROVE  JournalInv'
  <1>1. rows' \in Seq(Row) /\ StoredInOrder' /\ \A q, n : InRows(q, n) => InRows(q, n)'
    <2>1. CASE UNCHANGED rows
      <3>1. rows \in Seq(Row)
        BY DEF JournalInv, JournalTypeOK, Row, Numbers
      <3> QED
        BY <2>1, <3>1, SameRows
    <2>2. CASE \E w \in Writers : InsertRows(r, w)
      BY <2>2, InsertKeeps
    <2> QED
      BY <2>1, <2>2 DEF CancelFlush
  <1>2. /\ put \in [JournalRuns -> 0 .. MaxEvents] /\ failed \in 0 .. MaxLostWrites
        /\ buffer \in [JournalRuns -> Seq(Numbers)]
        /\ batch \in [JournalRuns -> [Writers -> Seq(Numbers)]]
        /\ base \in [JournalRuns -> [Writers -> Nat]]
        /\ worker \in [JournalRuns -> {"running", "waiting", "draining", "flushed", "failed"}]
    BY DEF JournalInv, JournalTypeOK, Numbers
  <1>3. /\ worker' = [worker EXCEPT ![r] = "failed"]
        /\ batch' = [batch EXCEPT ![r] = [w \in Writers |-> << >>]]
        /\ base' = [base EXCEPT ![r] = [w \in Writers |-> Idle]]
        /\ put' = put /\ buffer' = buffer /\ failed' = failed
    BY DEF CancelFlush
  <1>4. /\ [w \in Writers |-> << >>] \in [Writers -> Seq(Numbers)]
        /\ [w \in Writers |-> Idle] \in [Writers -> Nat]
    BY DEF Idle
  <1>5. /\ batch' \in [JournalRuns -> [Writers -> Seq(Numbers)]]
        /\ base' \in [JournalRuns -> [Writers -> Nat]]
        /\ worker' \in [JournalRuns -> {"running", "waiting", "draining", "flushed", "failed"}]
    BY ONLY <1>2, <1>3, <1>4
  <1>6. JournalTypeOK'
    BY ONLY <1>1, <1>2, <1>3, <1>5 DEF JournalTypeOK, Row, Numbers
  <1>7. OnlyMoves(r)
    BY ONLY <1>1, <1>2, <1>3 DEF OnlyMoves
  <1>8. /\ worker'[r] = "failed"
        /\ batch'[r]["task"] = << >> /\ batch'[r]["flush"] = << >>
    BY ONLY <1>2, <1>3, r \in JournalRuns DEF Writers
  <1>9. RunInv(r)'
    BY ONLY <1>8 DEF RunInv, OneWriter
  <1> QED
    BY <1>1, <1>6, <1>7, <1>9, OneRunMoves

LEMMA NextJournalInv == JournalInv /\ [JournalNext]_journalVars => JournalInv'
  <1> SUFFICES ASSUME JournalInv, [JournalNext]_journalVars
               PROVE  JournalInv'
    OBVIOUS
  <1>1. CASE UNCHANGED journalVars
    <2>1. /\ rows' = rows /\ put' = put /\ buffer' = buffer /\ batch' = batch
          /\ base' = base /\ worker' = worker /\ failed' = failed
      BY <1>1 DEF journalVars
    <2>2. JournalTypeOK'
      BY ONLY <2>1, JournalInv DEF JournalInv, JournalTypeOK
    <2>3. StoredInOrder' /\ \A q, n : InRows(q, n) => InRows(q, n)'
      BY <2>1, SameRows
    <2>4. ASSUME NEW r \in JournalRuns
          PROVE  RunInv(r)'
      <3>1. RunInv(r) /\ Done(r)' = Done(r) /\ Taken(r)' = Taken(r)
        BY <2>1 DEF JournalInv, Done, Taken
      <3> QED
        BY <2>1, <2>3, <3>1 DEF RunInv, OneWriter, Numbered, Follows
    <2> QED
      BY <2>2, <2>3, <2>4 DEF JournalInv
  <1>2. CASE JournalNext
    <2>1. PICK r \in JournalRuns :
            \/ \E onLoop, ends \in BOOLEAN : Put(r, onLoop, ends)
            \/ \E w \in Writers : ReadMax(r, w) \/ Commit(r, w) \/ FailWrite(r, w)
            \/ Flush(r) \/ StartDrain(r) \/ DrainBatch(r) \/ EndFlush(r) \/ CancelFlush(r)
      BY <1>2 DEF JournalNext
    <2>2. CASE \E onLoop, ends \in BOOLEAN : Put(r, onLoop, ends)
      BY <2>2, PutKeeps
    <2>3. CASE \E w \in Writers : ReadMax(r, w)
      BY <2>3, ReadMaxKeeps
    <2>4. CASE \E w \in Writers : Commit(r, w)
      BY <2>4, CommitKeeps
    <2>5. CASE \E w \in Writers : FailWrite(r, w)
      BY <2>5, FailWriteKeeps
    <2>6. CASE Flush(r) \/ StartDrain(r) \/ EndFlush(r)
      BY <2>6, FlushKeeps
    <2>7. CASE DrainBatch(r)
      BY <2>7, DrainBatchKeeps
    <2>8. CASE CancelFlush(r)
      BY <2>8, CancelFlushKeeps
    <2> QED
      BY <2>1, <2>2, <2>3, <2>4, <2>5, <2>6, <2>7, <2>8
  <1> QED
    BY <1>1, <1>2

-----------------------------------------------------------------------------
(* What the journals promise. *)

LEMMA JournalInvariant == JournalSpec => []JournalInv
  BY InitJournalInv, NextJournalInv, PTL DEF JournalSpec

\* The variables of the journals of any number of runs have their types.
THEOREM JournalTypes == JournalSpec => []JournalTypeOK
  <1>1. JournalInv => JournalTypeOK
    BY DEF JournalInv
  <1> QED
    BY <1>1, JournalInvariant, PTL

\* The rows of a run tell its events in the order they happened, for any number
\* of runs of the thread, any threshold and any writes that fail (put_batch,
\* and the batch that _flush_async puts back).
THEOREM RowsAreInOrder == JournalSpec => []StoredInOrder
  <1>1. JournalInv => StoredInOrder
    BY DEF JournalInv
  <1> QED
    BY <1>1, JournalInvariant, PTL

\* A flush() that returns has stored every event of its run.
THEOREM FlushStoresAll == JournalSpec => FlushIsComplete
  <1>1. JournalInv /\ [JournalNext]_journalVars =>
          [\A r \in JournalRuns :
             worker'[r] = "flushed" /\ worker[r] # "flushed" =>
               \A n \in 1 .. put[r] : [run |-> r, n |-> n] \in ToSet(rows)]_journalVars
    <2> SUFFICES ASSUME JournalInv, JournalNext, NEW r \in JournalRuns,
                        worker'[r] = "flushed", worker[r] # "flushed", NEW n \in 1 .. put[r]
                 PROVE  [run |-> r, n |-> n] \in ToSet(rows)
      OBVIOUS
    <2>0. worker \in [JournalRuns -> {"running", "waiting", "draining", "flushed", "failed"}]
      BY DEF JournalInv, JournalTypeOK
    <2>1. EndFlush(r)
      BY <2>0 DEF JournalNext, Put, FlushSync, ReadMax, Commit, FailWrite, Flush, StartDrain,
                  DrainBatch, EndFlush, CancelFlush
    <2>2. /\ Numbered(r) /\ put[r] \in Int
          /\ batch[r]["task"] = << >> /\ batch[r]["flush"] = << >> /\ buffer[r] = << >>
      BY <2>1, RunFacts DEF EndFlush, OneWriter
    <2>3. Done(r) = put[r]
      <3>1. Len(batch[r]["task"]) = 0 /\ Len(batch[r]["flush"]) = 0 /\ Len(buffer[r]) = 0
        BY <2>2
      <3> QED
        BY ONLY <2>2, <3>1 DEF Done, Taken
    <2>4. PICK j \in DOMAIN rows : rows[j] = [run |-> r, n |-> n]
      BY <2>2, <2>3 DEF Numbered, InRows
    <2> QED
      BY <2>4 DEF ToSet
  <1> QED
    BY <1>1, JournalInvariant, PTL DEF JournalSpec, FlushIsComplete
=============================================================================
