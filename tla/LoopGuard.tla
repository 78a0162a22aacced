----------------------------- MODULE LoopGuard -----------------------------
(***************************************************************************)
(* What keeps the agent from calling tools for ever, and from ending too   *)
(* early: the loop detection, the reminders of the todo list and, around   *)
(* both, the retries of a model call (agents/middlewares/                  *)
(* loop_detection_middleware.py, todo_middleware.py,                       *)
(* llm_error_handling_middleware.py, in the order of lead_agent/agent.py). *)
(* The runs are those of one thread, one after the other, on the instance  *)
(* that a DeerFlowClient keeps; it gives them no run id, so they share the *)
(* key ("thread", "default") of what is pending.                           *)
(*                                                                         *)
(* A response is its tool calls, in order: a call is its tool and the      *)
(* argument its hash is made of.  A response whose calls the provider's    *)
(* safety stop took away comes as one without calls.  The frequency of a   *)
(* tool is counted up to its hard limit, which is all it is compared with. *)
(* due is a ghost variable.                                                *)
(***************************************************************************)
EXTENDS Naturals, Sequences, FiniteSets, SequencesExt

CONSTANTS
  Tools,
  Responses,      \* what the model may answer besides plain text
  WindowSize,
  WarnThreshold,
  HardLimit,
  FreqWarn,       \* the thresholds of every tool, overrides included
  FreqHard,
  Attempts,       \* retry_max_attempts
  MaxReminders    \* _MAX_COMPLETION_REMINDERS

(* What config/loop_detection_config.py accepts: the two limits may be     *)
(* equal, and nothing relates them to the size of the window.              *)
ASSUME GuardAssumption ==
  /\ \A r \in Responses : r # << >> /\ \A i \in DOMAIN r : r[i].tool \in Tools
  /\ WarnThreshold \in Nat \ {0} /\ HardLimit \in Nat /\ HardLimit >= WarnThreshold
  /\ WindowSize \in Nat \ {0}
  /\ \A t \in Tools : FreqWarn[t] \in Nat \ {0} /\ FreqHard[t] \in Nat /\ FreqHard[t] >= FreqWarn[t]
  /\ Attempts \in Nat \ {0} /\ MaxReminders \in Nat

VARIABLES
  stage,       \* of the run: "none", "before", "called", "tools", "after"
  tries,       \* attempts of the current model call
  todos,       \* some todo is not completed
  window,      \* _history: the last call sets
  warned,      \* _warned: call sets
  freq,        \* _tool_freq
  freqWarned,  \* _tool_freq_warned
  warnings,    \* _pending_warnings: "repeat", or the tool that is called too often
  reminded,    \* _completion_reminder_counts
  reminder,    \* a reminder is pending
  sent,        \* what was appended to the request in flight
  due          \* ghost: queued since, and not in a request that was answered

guardVars == <<window, warned, freq, freqWarned>>
pendingVars == <<warnings, reminded, reminder>>
loopVars == <<stage, tries, todos, sent, due, guardVars, pendingVars>>

GuardInit ==
  /\ stage = "none" /\ tries = 0 /\ todos = FALSE /\ sent = {} /\ due = {}
  /\ window = << >> /\ warned = {}
  /\ freq = [t \in Tools |-> 0] /\ freqWarned = {}
  /\ warnings = {} /\ reminded = 0 /\ reminder = FALSE

-----------------------------------------------------------------------------
(* _track_and_check: the verdict on a response is "stop", "go" or the       *)
(* warning to queue.                                                        *)

CallSet(r) == ToSet(r)  \* _hash_tool_calls: the order does not matter

Windowed(r) ==
  LET all == Append(window, CallSet(r))
  IN  SubSeq(all, Len(all) - (IF Len(all) > WindowSize THEN WindowSize ELSE Len(all)) + 1, Len(all))

Occurrences(w, s) == Cardinality({i \in DOMAIN w : w[i] = s})

\* How often the tool of the i-th call of r was called, that call included.
Freq(r, i) == freq[r[i].tool] + Cardinality({j \in 1 .. i : r[j].tool = r[i].tool})

TooOften(r, i) == Freq(r, i) >= FreqHard[r[i].tool]
OftenForOnce(r, i) == Freq(r, i) >= FreqWarn[r[i].tool] /\ r[i].tool \notin freqWarned

\* The call at which counting returns: the first at a threshold, or the last.
StopsAt(r) ==
  CHOOSE i \in DOMAIN r :
    /\ i = Len(r) \/ TooOften(r, i) \/ OftenForOnce(r, i)
    /\ \A j \in 1 .. i - 1 : ~TooOften(r, j) /\ ~OftenForOnce(r, j)

CountedTo(r, n) ==
  [t \in Tools |->
     LET calls == freq[t] + Cardinality({i \in 1 .. n : r[i].tool = t})
     IN  IF calls > FreqHard[t] THEN FreqHard[t] ELSE calls]

(* Mutated form: a call set is forgotten as soon as another one is seen. *)
KeptLast(r) == warned \cap {CallSet(r)}

\* The call sets that were warned of and are still in the window.
Kept(r) == warned \cap ToSet(Windowed(r))

RepeatedVerdict(r, verdict) ==
  LET count == Occurrences(Windowed(r), CallSet(r))
  IN  /\ UNCHANGED <<freq, freqWarned>>
      /\ \/ /\ count >= HardLimit
            /\ verdict = "stop" /\ warned' = Kept(r)
         \/ /\ count < HardLimit /\ count >= WarnThreshold /\ CallSet(r) \notin Kept(r)
            /\ verdict = "repeat" /\ warned' = Kept(r) \cup {CallSet(r)}

FrequentVerdict(r, verdict) ==
  LET count == Occurrences(Windowed(r), CallSet(r))
      i == StopsAt(r)
  IN  /\ count < HardLimit /\ (count < WarnThreshold \/ CallSet(r) \in Kept(r))
      /\ warned' = Kept(r)
      /\ freq' = CountedTo(r, i)
      /\ \/ /\ TooOften(r, i)
            /\ verdict = "stop" /\ UNCHANGED freqWarned
         \/ /\ ~TooOften(r, i) /\ OftenForOnce(r, i)
            /\ verdict = r[i].tool /\ freqWarned' = freqWarned \cup {r[i].tool}
         \/ /\ ~TooOften(r, i) /\ ~OftenForOnce(r, i)
            /\ verdict = "go" /\ UNCHANGED freqWarned

Track(r, verdict) ==
  /\ window' = Windowed(r)
  /\ RepeatedVerdict(r, verdict) \/ FrequentVerdict(r, verdict)

-----------------------------------------------------------------------------
(* A run. *)

\* before_agent clears what is pending for the other run ids: there is none.
StartTurn ==
  /\ stage = "none" /\ stage' = "before"
  /\ UNCHANGED <<tries, todos, sent, due, guardVars, pendingVars>>

\* The wrap_model_call of both take what is pending into the request.
Drain ==
  /\ sent' = warnings \cup (IF reminder THEN {"reminder"} ELSE {})
  /\ warnings' = {} /\ reminder' = FALSE
  /\ UNCHANGED <<todos, due, guardVars, reminded>>

CallModel == stage = "before" /\ stage' = "called" /\ tries' = 1 /\ Drain

\* A transient error: the retry goes through the inner middlewares again.
CallAgain ==
  /\ stage = "called" /\ tries < Attempts
  /\ tries' = tries + 1 /\ Drain /\ UNCHANGED stage

\* The model answered what was sent, or the error handling did in its place.
ModelAnswered ==
  /\ stage = "called"
  /\ tries' = 0 /\ sent' = {}

(* Mutated form: the cap is not looked at. *)
EndTurnReminding(clean) ==
  IF clean /\ todos
    THEN stage' = "before" /\ reminded' = MaxReminders /\ reminder' = TRUE
    ELSE stage' = "after" /\ UNCHANGED <<reminded, reminder>>

\* after_model of the todo list on a response without calls: back to the
\* model with a reminder, as often as the cap allows.
EndTurn(clean) ==
  IF clean /\ todos /\ reminded < MaxReminders
    THEN stage' = "before" /\ reminded' = reminded + 1 /\ reminder' = TRUE
    ELSE stage' = "after" /\ UNCHANGED <<reminded, reminder>>

\* A response without calls; it is not clean when there was a call in it that
\* could not be parsed.
AnswerText(clean) ==
  /\ ModelAnswered /\ EndTurn(clean)
  /\ due' = {}
  /\ UNCHANGED <<todos, warnings, guardVars>>

\* The circuit is open: a text is the answer, and no request takes what is
\* pending.
Refuse ==
  /\ stage = "before" /\ EndTurn(TRUE)
  /\ UNCHANGED <<tries, todos, sent, due, warnings, guardVars>>

\* A response with calls: _apply queues a warning, or strips the calls and
\* leaves a text.
AnswerCalls(r, verdict) ==
  /\ ModelAnswered /\ Track(r, verdict)
  /\ IF verdict = "stop"
       THEN EndTurn(TRUE) /\ due' = {} /\ UNCHANGED warnings
       ELSE /\ stage' = "tools" /\ UNCHANGED <<reminded, reminder>>
            /\ warnings' = warnings \cup ({verdict} \ {"go"})
            /\ due' = {verdict} \ {"go"}
  /\ UNCHANGED todos

\* The tools run, write_todos perhaps among them.
RunTools ==
  /\ stage = "tools" /\ stage' = "before"
  /\ todos' \in BOOLEAN
  /\ UNCHANGED <<tries, sent, due, guardVars, pendingVars>>

\* after_agent of both.
EndAgent ==
  /\ stage = "after" /\ stage' = "none"
  /\ warnings' = {} /\ reminded' = 0 /\ reminder' = FALSE /\ due' = {}
  /\ UNCHANGED <<tries, todos, sent, guardVars>>

\* The run is interrupted, fails or is given up: no after_agent runs.
AbortTurn ==
  /\ stage # "none" /\ stage' = "none"
  /\ tries' = 0 /\ sent' = {} /\ due' = {}
  /\ UNCHANGED <<todos, guardVars, pendingVars>>

Verdicts == {"stop", "go", "repeat"} \cup Tools

Turn ==
  \/ CallModel \/ CallAgain \/ Refuse \/ RunTools \/ EndAgent
  \/ \E clean \in BOOLEAN : AnswerText(clean)
  \/ \E r \in Responses, verdict \in Verdicts : AnswerCalls(r, verdict)

GuardNext == StartTurn \/ Turn \/ AbortTurn

\* The graph goes on, and every call of the model comes back.
GuardFairness == WF_loopVars(Turn)

GuardSpec == GuardInit /\ [][GuardNext]_loopVars /\ GuardFairness

-----------------------------------------------------------------------------
(* Properties. *)

\* The variables have their types.
GuardTypeOK ==
  /\ stage \in {"none", "before", "called", "tools", "after"}
  /\ tries \in 0 .. Attempts /\ todos \in BOOLEAN
  /\ window \in Seq({CallSet(r) : r \in Responses}) /\ Len(window) <= WindowSize
  /\ warned \subseteq ToSet(window)
  /\ freq \in [Tools -> Nat] /\ freqWarned \subseteq Tools
  /\ warnings \subseteq {"repeat"} \cup Tools
  /\ reminded \in 0 .. MaxReminders /\ reminder \in BOOLEAN
  /\ sent \subseteq {"repeat", "reminder"} \cup Tools

\* A call set is stopped only after it was warned of: whatever came between
\* and has left the window since, a call set that is in the window as often as
\* the threshold says has had its warning.  Where the limit is the threshold,
\* which the configuration allows, the stop comes in the warning's place.
StopIsAnnounced ==
  \A s \in ToSet(window) : Occurrences(window, s) >= WarnThreshold => s \in warned

\* Every run ends by itself, without the recursion limit, whatever the model
\* answers: the limits on repeated and frequent calls stop the tools, and the
\* cap on the reminders lets go of a todo list that is not worked on.
RunEnds == stage # "none" ~> stage = "none"

\* "The warning is injected at the next model call"
\* (agents/middlewares/loop_detection_middleware.py:10-13): the request that
\* the model answers carries the warnings queued since the one before.
WarningIsShown == stage = "called" => due \subseteq sent
=============================================================================
