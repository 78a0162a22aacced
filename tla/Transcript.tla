----------------------------- MODULE Transcript -----------------------------
(***************************************************************************)
(* The messages of a thread and the requests made of them: every tool call *)
(* a request shows must be followed at once by its result, although runs   *)
(* are aborted between the two, calls are stripped, cut or cannot be       *)
(* parsed, and the history is summarised (agents/middlewares/              *)
(* dangling_tool_call_middleware.py, subagent_limit_middleware.py,         *)
(* safety_finish_reason_middleware.py, tool_error_handling_middleware.py,  *)
(* summarization_middleware.py).  The graph that keeps the messages and    *)
(* runs the tools is external; a request is built when the model is called.*)
(*                                                                         *)
(* A tool call is its id; names, arguments and contents are left out: any  *)
(* call but the first may be a task over SubagentLimitMiddleware's limit.  *)
(***************************************************************************)
EXTENDS Naturals, Sequences, FiniteSets, SequencesExt, ChosenPlaces

CONSTANTS
  Ids,        \* the ids the provider gives to tool calls
  MaxLength,  \* bound on the history
  MaxCalls    \* bound on the tool calls of a response

ASSUME TranscriptAssumption == MaxLength \in Nat /\ MaxCalls \in Nat

VARIABLES
  history,   \* the messages of the thread
  doing,     \* of the run: "nothing", "preparing", "calling", "tools"
  outgoing   \* the last request

transcriptVars == <<history, doing, outgoing>>

Human == [type |-> "human"]                 \* also a summary or a reminder
Result(id) == [type |-> "tool", id |-> id]  \* a ToolMessage
Interrupted(id) == [type |-> "tool", id |-> id, placeholder |-> TRUE]

\* An AIMessage: tool_calls, the copy of them that a provider leaves in
\* additional_kwargs, and invalid_tool_calls.
Ai(calls, raw, invalid) ==
  [type |-> "ai", calls |-> calls, raw |-> raw, invalid |-> invalid]

IsAi(m) == m.type = "ai"
IsResult(m) == m.type = "tool"

TranscriptInit == history = << >> /\ doing = "nothing" /\ outgoing = << >>

-----------------------------------------------------------------------------
(* _build_patched_messages. *)

\* _message_tool_calls: the calls a provider may see in a message.
CallsOf(m) ==
  IF IsAi(m) THEN (IF m.calls # << >> THEN m.calls ELSE m.raw) \o m.invalid ELSE << >>

ResultsFor(h, id) == Chosen(h, {q \in DOMAIN h : IsResult(h[q]) /\ h[q].id = id})

\* How many calls with the id of the k-th call of h[p] come before it.
Earlier(h, p, k) ==
  Cardinality({c \in (1 .. p) \X (1 .. 2 * MaxCalls) :
                 /\ c[1] < p \/ c[2] < k
                 /\ c[2] <= Len(CallsOf(h[c[1]]))
                 /\ CallsOf(h[c[1]])[c[2]] = CallsOf(h[p])[k]})

\* The calls of an id take its results in their order, as long as there are.
ResultOf(h, p, k) ==
  LET id == CallsOf(h[p])[k]
      n == Earlier(h, p, k) + 1
  IN  IF n <= Len(ResultsFor(h, id)) THEN ResultsFor(h, id)[n] ELSE Interrupted(id)

Called(h, id) == \E p \in DOMAIN h : id \in ToSet(CallsOf(h[p]))

(* Mutated form: the results stay where they are as well. *)
GroupedTwice(h, p) ==
  <<h[p]>> \o [k \in DOMAIN CallsOf(h[p]) |-> ResultOf(h, p, k)]

\* A message with the results of its calls; results stand only there.
Grouped(h, p) ==
  IF IsResult(h[p]) /\ Called(h, h[p].id)
    THEN << >>
    ELSE <<h[p]>> \o [k \in DOMAIN CallsOf(h[p]) |-> ResultOf(h, p, k)]

Patched(h) == FlattenSeq([p \in DOMAIN h |-> Grouped(h, p)])

-----------------------------------------------------------------------------
(* The run. *)

AddMessages(ms) ==
  /\ Len(history) + Len(ms) <= MaxLength
  /\ history' = history \o ms

\* A run begins with the user's message, after whatever an aborted one left.
Ask == doing = "nothing" /\ doing' = "preparing" /\ AddMessages(<<Human>>) /\ UNCHANGED outgoing

\* A before_model hook adds the reminder of the todo list or the images viewed.
Remind == doing = "preparing" /\ AddMessages(<<Human>>) /\ UNCHANGED <<doing, outgoing>>

SendRequest ==
  /\ doing = "preparing" /\ doing' = "calling"
  /\ outgoing' = Patched(history)
  /\ UNCHANGED history

IdSeqs == {s \in UNION {[1 .. n -> Ids] : n \in 0 .. MaxCalls} : IsInjective(s)}

\* clone_ai_message_with_tool_calls: the raw calls that are kept.
Synced(raw, calls) == Chosen(raw, {k \in DOMAIN raw : raw[k] \in ToSet(calls)})

\* The model answers, and the after_model hooks leave the calls in places:
\* a stop takes all of them away, the limit the excess tasks, never the first.
Respond(calls, hasRaw, invalid, places) ==
  /\ doing = "calling"
  /\ places \subseteq DOMAIN calls
  /\ places = {} \/ 1 \in places
  /\ LET raw == IF hasRaw THEN calls ELSE << >>
         left == Chosen(calls, places)
     IN  /\ AddMessages(<<Ai(left, Synced(raw, left), invalid)>>)
         /\ doing' = IF left = << >> THEN "nothing" ELSE "tools"
  /\ UNCHANGED outgoing

\* Every call gets its result, an error if the tool raised; results are added
\* in the order of the calls.
FinishTools ==
  /\ doing = "tools" /\ doing' = "preparing"
  /\ AddMessages([k \in DOMAIN Last(history).calls |-> Result(Last(history).calls[k])])
  /\ UNCHANGED outgoing

\* The run is cancelled, times out, fails or is interrupted by a tool.
AbortRun == doing # "nothing" /\ doing' = "nothing" /\ UNCHANGED <<history, outgoing>>

-----------------------------------------------------------------------------
(* DeerFlowSummarizationMiddleware. *)

\* The calls of h[p] whose results follow it.
Answered(h, p) ==
  {id \in ToSet(h[p].calls) :
     \E q \in p + 1 .. Len(h) :
       /\ h[q] = Result(id)
       /\ \A r \in p + 1 .. q : IsResult(h[r])}

\* What is left of h[p] when the skill files that the calls in ids read are
\* rescued: the message with these calls, and their results.
RescuedFrom(h, p, ids) ==
  LET m == h[p]
      calls == Chosen(m.calls, {k \in DOMAIN m.calls : m.calls[k] \in ids})
      block == {q \in p + 1 .. Len(h) : \A r \in p + 1 .. q : IsResult(h[r])}
  IN  IF ids = {} THEN << >>
      ELSE <<Ai(calls, Synced(m.raw, calls), m.invalid)>>
             \o Chosen(h, {q \in block : h[q].id \in ids})

\* The calls at the messages of h whose skill files may be rescued.
Rescuable(h) ==
  {c \in (1 .. Len(h)) \X Ids : IsAi(h[c[1]]) /\ c[2] \in Answered(h, c[1])}

\* A summary takes the place of what stands before the cut, but for the
\* reminders of the dynamic context and the skills read there.  The cut never
\* separates results from their calls (SummarizationMiddleware of LangChain).
Summarise(cut, reminders) ==
  /\ doing = "preparing"
  /\ cut \in 2 .. Len(history) /\ ~IsResult(history[cut])
  /\ LET old == SubSeq(history, 1, cut - 1)
     IN  /\ reminders \subseteq {q \in DOMAIN old : old[q] = Human}
         /\ \E skills \in SUBSET Rescuable(old) :
              history' =
                <<Human>> \o Chosen(old, reminders)
                  \o FlattenSeq([p \in DOMAIN old |->
                                    RescuedFrom(old, p, {id \in Ids : <<p, id>> \in skills})])
                  \o SubSeq(history, cut, Len(history))
  /\ Len(history') <= MaxLength
  /\ UNCHANGED <<doing, outgoing>>

TranscriptNext ==
  \/ Ask \/ Remind \/ SendRequest \/ FinishTools \/ AbortRun
  \/ \E calls, invalid \in IdSeqs, hasRaw \in BOOLEAN, places \in SUBSET (1 .. MaxCalls) :
       /\ Len(calls \o invalid) <= MaxCalls /\ IsInjective(calls \o invalid)
       /\ Respond(calls, hasRaw, invalid, places)
  \/ \E cut \in 2 .. MaxLength, reminders \in SUBSET (1 .. MaxLength) : Summarise(cut, reminders)

TranscriptSpec == TranscriptInit /\ [][TranscriptNext]_transcriptVars

-----------------------------------------------------------------------------
(* Properties. *)

\* The variables have their types.
TranscriptTypeOK ==
  /\ doing \in {"nothing", "preparing", "calling", "tools"}
  /\ Len(history) <= MaxLength
  /\ \A p \in DOMAIN history :
       history[p] = Human \/ (\E id \in Ids : history[p] = Result(id)) \/ IsAi(history[p])

\* The conversation a request shows is well formed: the results of a message's
\* calls stand right after it, one for each in their order, and nowhere else,
\* even when the provider uses an id again.
RequestPaired ==
  \A p \in DOMAIN outgoing :
    /\ \A k \in DOMAIN CallsOf(outgoing[p]) :
         /\ p + k <= Len(outgoing)
         /\ IsResult(outgoing[p + k]) /\ outgoing[p + k].id = CallsOf(outgoing[p])[k]
    /\ IsResult(outgoing[p]) =>
         \E k \in 1 .. p - 1 : k <= Len(CallsOf(outgoing[p - k]))
=============================================================================
