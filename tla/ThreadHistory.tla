--------------------------- MODULE ThreadHistory ---------------------------
(***************************************************************************)
(* The history of the thread on display: useThreadHistory and              *)
(* mergeMessages of the frontend (core/threads/hooks.ts), the button and   *)
(* sentinel that ask for more (message-list.tsx), and the two endpoints    *)
(* they read: the list of a thread's runs and the messages of one run      *)
(* (thread_runs.py with RunManager.list_by_thread).                        *)
(*                                                                         *)
(* A run is <<thread, number>>, numbered in the order of creation, a       *)
(* message <<thread, number, position>>.  The refs and the state of the    *)
(* hook are one record, so that a handler is a function from a record to   *)
(* the next; index is 0 where the code has -1.                             *)
(***************************************************************************)
EXTENDS Naturals, Sequences, SequencesExt, ChosenPlaces

CONSTANTS
  Threads,       \* threads the user can open
  Slots,         \* bound on the requests for messages in flight
  MaxRuns,       \* bound on the runs of a thread
  RunLength,     \* messages of a run
  PageLimit,     \* the default limit of the messages endpoint
  Forgotten,     \* runs of a thread whose messages were summarized away
  MaxViews,      \* bound on the times the user opens another thread
  MaxLoadErrors  \* bound on the requests that fail

ASSUME HistoryAssumption ==
  /\ Threads # {} /\ Slots # {} /\ MaxRuns \in Nat /\ Forgotten \in Nat
  /\ RunLength \in Nat \ {0} /\ PageLimit \in Nat \ {0}
  /\ MaxViews \in Nat /\ MaxLoadErrors \in Nat

VARIABLES
  made,    \* runs made of each thread
  cached,  \* of each thread, the runs in the query cache; 0 is no data
  viewed,  \* threadIdRef
  hook,    \* the other refs and the state of useThreadHistory
  loads,   \* what each slot asks for: [thread, run]
  views, loadErrors

historyVars == <<made, cached, viewed, hook, loads, views, loadErrors>>

NoRun == << >>
NoLoad == [thread |-> NoRun, run |-> NoRun]

Fresh ==
  [runs |-> << >>, index |-> 0, loading |-> FALSE, pending |-> FALSE,
   fetching |-> NoRun, loaded |-> {}, messages |-> << >>]

HistoryInit ==
  /\ made \in [Threads -> 0 .. MaxRuns] /\ cached = [t \in Threads |-> 0]
  /\ viewed \in Threads /\ hook = Fresh
  /\ loads = [s \in Slots |-> NoLoad] /\ views = 0 /\ loadErrors = 0

-----------------------------------------------------------------------------
(* What the gateway answers. *)

MessagesOf(r) == [m \in 1 .. RunLength |-> Append(r, m)]

\* list_by_thread: the newest run first.
Listed(t, n) == [i \in 1 .. n |-> <<t, n + 1 - i>>]

Newest(s, n) == IF Len(s) <= n THEN s ELSE SubSeq(s, Len(s) - n + 1, Len(s))

\* list_run_messages without a cursor: one row more than a page is read.
Page(r) ==
  LET rows == Newest(MessagesOf(r), PageLimit + 1)
  IN  IF Len(rows) > PageLimit THEN SubSeq(rows, 1, PageLimit) ELSE rows

\* The messages of the thread's state, which useStream keeps up to date.
Live(t) ==
  [k \in 1 .. RunLength * (IF made[t] > Forgotten THEN made[t] - Forgotten ELSE 0) |->
     <<t, Forgotten + 1 + (k - 1) \div RunLength, 1 + ((k - 1) % RunLength)>>]

-----------------------------------------------------------------------------
(* loadMessages: the part before its first await, and the loop's turns. *)

\* The last of some positions of a sequence; 0 when there is none.
LastOf(places) == Max(places \cup {0})

\* findLatestUnloadedRunIndex.
LatestUnloaded(h) == LastOf({i \in DOMAIN h.runs : h.runs[i] \notin h.loaded})

\* lastIndexByIdentity: where s has a message that does not come again.
LastPlaces(s) == {i \in DOMAIN s : \A j \in DOMAIN s : s[j] = s[i] => j <= i}

\* dedupeMessagesByIdentity.
Deduped(s) == Chosen(s, LastPlaces(s))

\* The finally clause.
Finally(h) == [h EXCEPT !.loading = FALSE, !.fetching = NoRun]

\* A turn of the loop up to its fetch.
Turned(h) ==
  LET i == LatestUnloaded(h)
      g == [h EXCEPT !.pending = FALSE, !.index = i]
  IN  IF i = 0 THEN Finally(g) ELSE [g EXCEPT !.fetching = h.runs[i]]

AnotherWaits(h) ==
  LatestUnloaded(h) # 0 /\ h.runs[LatestUnloaded(h)] # h.fetching

LoadMessages(h) ==
  IF h.loading THEN [h EXCEPT !.pending = @ \/ AnotherWaits(h)]
  ELSE IF h.runs = << >> THEN h
  ELSE Turned([h EXCEPT !.loading = TRUE])

\* Call loadMessages in state h, the thread t being on display.
Load(h, t) ==
  /\ hook' = LoadMessages(h)
  /\ IF ~h.loading /\ hook'.loading
     THEN \E s \in Slots :
            /\ loads[s] = NoLoad
            /\ loads' = [loads EXCEPT ![s] = [thread |-> t, run |-> hook'.fetching]]
     ELSE UNCHANGED loads

\* The effect: the data of the query, if there is any, replaces the list.
WithRuns(h, t, n) ==
  IF n = 0 THEN h
  ELSE LET g == [h EXCEPT !.runs = Listed(t, n)]
       IN  [g EXCEPT !.index = LatestUnloaded(g)]

-----------------------------------------------------------------------------
(* Actions. *)

\* A run is made, by this client or another.
MakeRun(t) ==
  /\ made[t] < MaxRuns /\ made' = [made EXCEPT ![t] = @ + 1]
  /\ UNCHANGED <<cached, viewed, hook, loads, views, loadErrors>>

\* The user opens another thread: the effect resets the hook and loads.
ViewThread(t) ==
  /\ t # viewed /\ views < MaxViews /\ views' = views + 1
  /\ viewed' = t /\ Load(WithRuns(Fresh, t, cached[t]), t)
  /\ UNCHANGED <<made, cached, loadErrors>>

\* The query of useThreadRuns is answered, also for a thread left meanwhile.
RunsFetched(t) ==
  /\ cached' = [cached EXCEPT ![t] = made[t]]
  /\ IF t = viewed THEN Load(WithRuns(hook, t, made[t]), t) ELSE UNCHANGED <<hook, loads>>
  /\ UNCHANGED <<made, viewed, views, loadErrors>>

\* The sentinel is in sight, or the button is pressed.
LoadMore ==
  /\ hook.index > 0 \/ cached[viewed] = 0
  /\ ~hook.loading /\ Load(hook, viewed)
  /\ UNCHANGED <<made, cached, viewed, views, loadErrors>>

(* Mutated form: an answer for another thread is not recognised. *)
AnyIsCurrent(s) == TRUE

IsCurrent(s) == loads[s].thread = viewed

\* The messages of a run arrive; the loop goes on if a load became pending.
\* setMessages takes effect when the handler is through.
PageArrives(s) ==
  /\ loads[s] # NoLoad
  /\ LET r == loads[s].run
         g == [hook EXCEPT !.loaded = @ \union {r}]
         h == [g EXCEPT !.index = LatestUnloaded(g)]
         loop == IF h.pending THEN Turned(h) ELSE Finally(h)
     IN  IF IsCurrent(s)
         THEN /\ hook' = [loop EXCEPT !.messages = Deduped(Page(r) \o @)]
              /\ loads' = [loads EXCEPT ![s] =
                   IF h.pending /\ hook'.loading
                   THEN [thread |-> viewed, run |-> hook'.fetching] ELSE NoLoad]
         ELSE hook' = Finally(hook) /\ loads' = [loads EXCEPT ![s] = NoLoad]
  /\ UNCHANGED <<made, cached, viewed, views, loadErrors>>

(* Mutated form: the flag is left set when the request fails. *)
PageFailsLoading(s) ==
  /\ loads[s] # NoLoad /\ loadErrors < MaxLoadErrors /\ loadErrors' = loadErrors + 1
  /\ loads' = [loads EXCEPT ![s] = NoLoad]
  /\ UNCHANGED <<made, cached, viewed, hook, views>>

\* The request fails, or its answer is an error without data.
PageFails(s) ==
  /\ loads[s] # NoLoad /\ loadErrors < MaxLoadErrors /\ loadErrors' = loadErrors + 1
  /\ hook' = Finally(hook) /\ loads' = [loads EXCEPT ![s] = NoLoad]
  /\ UNCHANGED <<made, cached, viewed, views>>

HistoryNext ==
  \/ \E t \in Threads : MakeRun(t) \/ ViewThread(t) \/ RunsFetched(t)
  \/ LoadMore
  \/ \E s \in Slots : PageArrives(s) \/ PageFails(s)

\* Requests come to an end, and the user stays at the top of the list.
HistoryFairness ==
  WF_historyVars(LoadMore) /\ \A s \in Slots : WF_historyVars(PageArrives(s))

HistorySpec == HistoryInit /\ [][HistoryNext]_historyVars /\ HistoryFairness

-----------------------------------------------------------------------------
(* What is displayed: mergeMessages, without optimistic messages. *)

\* The position after which history overlaps the thread's state.
Cutoff(history, live) ==
  LastOf({i \in DOMAIN history : ~Contains(live, history[i])})

Displayed ==
  LET live == Live(viewed)
  IN  Deduped(SubSeq(hook.messages, 1, Cutoff(hook.messages, live)) \o live)

-----------------------------------------------------------------------------
(* Properties. *)

\* The variables have their types, and the loads in flight are of listed runs.
HistoryTypeOK ==
  /\ made \in [Threads -> 0 .. MaxRuns] /\ cached \in [Threads -> 0 .. MaxRuns]
  /\ viewed \in Threads /\ views \in 0 .. MaxViews /\ loadErrors \in 0 .. MaxLoadErrors
  /\ hook.index \in 0 .. Len(hook.runs)
  /\ {hook.loading, hook.pending} \subseteq BOOLEAN
  /\ hook.fetching \in {NoRun} \union (Threads \X (1 .. MaxRuns))
  /\ \A s \in Slots : loads[s] # NoLoad =>
       loads[s].run[1] = loads[s].thread /\ loads[s].run[2] \in 1 .. cached[loads[s].thread]

(* Whatever loads were in flight when the user changed threads, and however *)
(* often, the page shows the messages of the loaded runs and of the state   *)
(* of the thread on display, each once, and those of no other thread; a run *)
(* counted as loaded is shown.                                              *)
HistoryOfThread ==
  /\ ToSet(Displayed) =
       (UNION {ToSet(Page(r)) : r \in hook.loaded}) \union ToSet(Live(viewed))
  /\ IsInjective(Displayed)
  /\ \A m \in ToSet(Displayed) : m[1] = viewed

(* Once the user stays with a thread its listed runs are loaded, all of     *)
(* them, although requests fail, loads overlap and those of the threads     *)
(* left meanwhile clear the flag of the present one.                        *)
HistoryLoads == <>[](ToSet(hook.runs) \subseteq hook.loaded)

(* hooks.ts:104, where mergeMessages cuts the history: "The overlap is a    *)
(* contiguous suffix of historyMessages (newest history == oldest thread)". *)
OverlapIsSuffix ==
  \A i, j \in DOMAIN hook.messages :
    i < j /\ Contains(Live(viewed), hook.messages[i])
      => Contains(Live(viewed), hook.messages[j])

(* runs.py:119, of the messages of a run read without a cursor: "neither:   *)
(* latest messages".                                                        *)
LatestIsServed ==
  \A r \in hook.loaded : Contains(hook.messages, Last(MessagesOf(r)))
=============================================================================
