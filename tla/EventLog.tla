------------------------------ MODULE EventLog ------------------------------
(***************************************************************************)
(* What a stream bridge promises to the clients of one run (the contract   *)
(* of StreamBridge, base.py): a log of events 1, 2, ... that a producer    *)
(* appends to and then finishes, of which at least the last Capacity       *)
(* events are retained.  A client receives events in increasing order,     *)
(* each at most once, across any number of connections; it misses only     *)
(* events that are no longer retained; and it is told the end only when    *)
(* nothing that it could still receive is left.                            *)
(***************************************************************************)
EXTENDS Naturals, Sequences

CONSTANTS
  Client,     \* clients that read the run's stream
  Capacity    \* events that are certainly retained

VARIABLES
  published,  \* number of events appended; event i is the i-th one
  finished,   \* the producer declared the end
  got,        \* the events each client received, in order
  told        \* the client was told the end

logVars == <<published, finished, got, told>>

Received(c) == IF got[c] = <<>> THEN 0 ELSE got[c][Len(got[c])]

Retained(e) == e + Capacity > published

LogInit ==
  /\ published = 0
  /\ finished = FALSE
  /\ got = [c \in Client |-> <<>>]
  /\ told = [c \in Client |-> FALSE]

AppendEvent ==
  /\ ~finished
  /\ published' = published + 1
  /\ UNCHANGED <<finished, got, told>>

Finish ==
  /\ ~finished
  /\ finished' = TRUE
  /\ UNCHANGED <<published, got, told>>

Deliver(c) ==
  /\ ~told[c]
  /\ \E e \in Received(c) + 1 .. published :
       /\ \A missed \in Received(c) + 1 .. e - 1 : ~Retained(missed)
       /\ got' = [got EXCEPT ![c] = Append(@, e)]
  /\ UNCHANGED <<published, finished, told>>

TellEnd(c) ==
  /\ finished /\ ~told[c]
  /\ \A missed \in Received(c) + 1 .. published : ~Retained(missed)
  /\ told' = [told EXCEPT ![c] = TRUE]
  /\ UNCHANGED <<published, finished, got>>

(* A client that forgot what it received starts over. *)
StartOver(c) ==
  /\ got' = [got EXCEPT ![c] = <<>>]
  /\ told' = [told EXCEPT ![c] = FALSE]
  /\ UNCHANGED <<published, finished>>

LogNext ==
  \/ AppendEvent \/ Finish
  \/ \E c \in Client : Deliver(c) \/ TellEnd(c) \/ StartOver(c)

LogSpec == LogInit /\ [][LogNext]_logVars

=============================================================================
