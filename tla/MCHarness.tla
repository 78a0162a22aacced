----------------------------- MODULE MCHarness -----------------------------
(* Instances for TLC of seven parts that share no state: five of the agent  *)
(* harness, the write capability of the writing service and the frontend's  *)
(* history of a thread.  Each is checked alone: part says which one moves,  *)
(* the others stand still.                                                  *)
EXTENDS LoopGuard, CircuitBreaker, Transcript, RunJournal, SessionPool, WriteReport,
        ThreadHistory

ToolCall(tool, arg) == [tool |-> tool, arg |-> arg]
MCResponses == {<<ToolCall("read", 1)>>, <<ToolCall("read", 2)>>,
                <<ToolCall("read", 1), ToolCall("bash", 1)>>}
MCTools == {"read", "bash"}
MCFreqWarn == [t \in MCTools |-> IF t = "read" THEN 3 ELSE 2]
MCFreqHard == [t \in MCTools |-> IF t = "read" THEN 5 ELSE 3]

Independent == [s \in Sections |-> {}]
Section == CHOOSE f \in [1 .. 3 -> Sections] : IsInjective(f)
MCStructures ==
  {Independent,
   [Independent EXCEPT ![Section[2]] = {Section[1]}, ![Section[3]] = {Section[1], Section[2]}],
   [Independent EXCEPT ![Section[1]] = {Section[2], Section[3]}],
   [Independent EXCEPT ![Section[1]] = {Section[2]}, ![Section[2]] = {Section[1]}],
   [Independent EXCEPT ![Section[2]] = {Section[1]}, ![Section[1]] = {Unknown}]}

FirstThread == CHOOSE t \in Threads : TRUE

VARIABLE part

vars ==
  <<part, loopVars, breakerVars, transcriptVars, journalVars, poolVars, reportVars,
    historyVars>>

Parts ==
  {"guard", "breaker", "transcript", "journal", "pool", "report", "history"}

\* The parts that start in one of several states do so when they are checked.
Init ==
  /\ part \in Parts
  /\ GuardInit /\ BreakerInit /\ TranscriptInit /\ JournalInit /\ PoolInit /\ ReportInit
  /\ HistoryInit
  /\ part = "report" \/ depends = Independent
  /\ part = "history" \/ (viewed = FirstThread /\ made = [t \in Threads |-> 0])

GuardAlone == part = "guard"
  /\ UNCHANGED <<part, breakerVars, transcriptVars, journalVars, poolVars,
                 reportVars, historyVars>>
BreakerAlone == part = "breaker"
  /\ UNCHANGED <<part, loopVars, transcriptVars, journalVars, poolVars,
                 reportVars, historyVars>>
TranscriptAlone == part = "transcript"
  /\ UNCHANGED <<part, loopVars, breakerVars, journalVars, poolVars,
                 reportVars, historyVars>>
JournalAlone == part = "journal"
  /\ UNCHANGED <<part, loopVars, breakerVars, transcriptVars, poolVars,
                 reportVars, historyVars>>
PoolAlone == part = "pool"
  /\ UNCHANGED <<part, loopVars, breakerVars, transcriptVars, journalVars,
                 reportVars, historyVars>>
ReportAlone == part = "report"
  /\ UNCHANGED <<part, loopVars, breakerVars, transcriptVars, journalVars,
                 poolVars, historyVars>>
HistoryAlone == part = "history"
  /\ UNCHANGED <<part, loopVars, breakerVars, transcriptVars, journalVars,
                 poolVars, reportVars>>

MoveGuard == GuardAlone /\ GuardNext
MoveBreaker == BreakerAlone /\ BreakerNext
MoveTranscript == TranscriptAlone /\ TranscriptNext
MoveJournal == JournalAlone /\ JournalNext
MovePool == PoolAlone /\ PoolNext
MoveReport == ReportAlone /\ ReportNext
MoveHistory == HistoryAlone /\ HistoryNext

Next ==
  \/ MoveGuard \/ MoveBreaker \/ MoveTranscript \/ MoveJournal \/ MovePool \/ MoveReport
  \/ MoveHistory

\* The fairness that each module states, of the part that moves.
Spec ==
  /\ Init /\ [][Next]_vars
  /\ WF_vars(GuardAlone /\ Turn)
  /\ WF_vars(ReportAlone /\ Generator)
  /\ \A s \in Sections : WF_vars(ReportAlone /\ TimeOut(s))
  /\ WF_vars(HistoryAlone /\ LoadMore)
  /\ \A s \in Slots : WF_vars(HistoryAlone /\ PageArrives(s))
=============================================================================
