---------------------------- MODULE WriteReport ----------------------------
(***************************************************************************)
(* The write capability of the writing service (writing-service/app/       *)
(* harness/runners.py, schemas/structure.py): run_write starts the         *)
(* sections of a report in batches, one task each, streams their events    *)
(* and assembles the drafts.                                               *)
(*                                                                         *)
(* A section is its id.  Of the events only section_complete is kept, as   *)
(* the section it tells of, and the ones that end the stream, as its       *)
(* state.  The agents are calls of a model that may hang; each turns what  *)
(* it raises into an AgentError (agents/base.py), so the handler of        *)
(* TimeoutError inside _write_section is never reached.                    *)
(***************************************************************************)
EXTENDS Naturals, Sequences, FiniteSets, SequencesExt

CONSTANTS
  Sections,
  Unknown,     \* an id that depends_on may name although no section has it
  Structures,  \* the values of depends_on considered
  MaxRetries   \* section_checker_max_retries

ASSUME ReportAssumption ==
  /\ IsFiniteSet(Sections) /\ Unknown \notin Sections /\ MaxRetries \in Nat
  /\ Structures \subseteq [Sections -> SUBSET (Sections \cup {Unknown})]

Steps == <<"writer", "editor", "checker">>

VARIABLES
  depends,    \* depends_on of every section
  remaining,  \* the sections of no batch yet
  task,       \* of every section: "none", "created", a step, "done", "timed out", "failed"
  retries,    \* retry_count
  awaited,    \* pending_tasks
  events,     \* the section_complete events nobody has read
  drafts,     \* completed_drafts: "none", "draft" or "timeout"
  told,       \* how often section_complete was sent
  stream      \* "open", "assembling", "complete", "error", "closed"

reportVars == <<depends, remaining, task, retries, awaited, events, drafts, told, stream>>

ReportInit ==
  /\ depends \in Structures
  /\ remaining = Sections /\ awaited = {} /\ events = << >> /\ stream = "open"
  /\ task = [s \in Sections |-> "none"]
  /\ retries = [s \in Sections |-> 0]
  /\ drafts = [s \in Sections |-> "none"]
  /\ told = [s \in Sections |-> 0]

-----------------------------------------------------------------------------
(* get_dependency_order. *)

\* Sections whose dependencies are all in earlier batches.
Ready == {s \in remaining : depends[s] \subseteq Sections \ remaining}

\* The next batch: all that remains when nothing is ready.  The code orders all
\* the batches at once; the structure does not change, so they are the same.
Batch == IF Ready = {} THEN remaining ELSE Ready

-----------------------------------------------------------------------------
(* The task of a section. *)

InStep(s) == task[s] \in ToSet(Steps)
Ended(s) == task[s] \in {"done", "timed out", "failed"}

BeginSection(s) ==
  /\ task[s] = "created" /\ task' = [task EXCEPT ![s] = "writer"]
  /\ UNCHANGED <<depends, remaining, retries, awaited, events, drafts, told, stream>>

\* The writer, then the editor, returns.
NextStep(s) ==
  /\ task[s] \in {"writer", "editor"}
  /\ task' = [task EXCEPT ![s] = IF @ = "writer" THEN "editor" ELSE "checker"]
  /\ UNCHANGED <<depends, remaining, retries, awaited, events, drafts, told, stream>>

\* The checker returns: the section is written again, or is complete, also
\* when it failed for the last time.
Check(s, fails) ==
  /\ task[s] = "checker"
  /\ IF fails /\ retries[s] < MaxRetries
       THEN /\ retries' = [retries EXCEPT ![s] = @ + 1]
            /\ task' = [task EXCEPT ![s] = "writer"]
            /\ UNCHANGED events
       ELSE /\ events' = Append(events, s) /\ task' = [task EXCEPT ![s] = "done"]
            /\ UNCHANGED retries
  /\ UNCHANGED <<depends, remaining, awaited, drafts, told, stream>>

AgentFails(s) ==
  /\ InStep(s) /\ task' = [task EXCEPT ![s] = "failed"]
  /\ UNCHANGED <<depends, remaining, retries, awaited, events, drafts, told, stream>>

(* Mutated form: the time runs only while the writer works. *)
TimeOutInWriter(s) ==
  /\ task[s] \in {"created", "writer"} /\ task' = [task EXCEPT ![s] = "timed out"]
  /\ UNCHANGED <<depends, remaining, retries, awaited, events, drafts, told, stream>>

\* asyncio.wait_for cancels the task.
TimeOut(s) ==
  /\ task[s] = "created" \/ InStep(s)
  /\ task' = [task EXCEPT ![s] = "timed out"]
  /\ UNCHANGED <<depends, remaining, retries, awaited, events, drafts, told, stream>>

-----------------------------------------------------------------------------
(* run_write, as far as the client reads. *)

StartBatch ==
  /\ stream = "open" /\ awaited = {} /\ events = << >>
  /\ remaining # {}
  /\ remaining' = remaining \ Batch /\ awaited' = Batch
  /\ task' = [s \in Sections |-> IF s \in Batch THEN "created" ELSE task[s]]
  /\ UNCHANGED <<depends, retries, events, drafts, told, stream>>

SendEvent ==
  /\ stream = "open" /\ events # << >>
  /\ told' = [told EXCEPT ![Head(events)] = @ + 1]
  /\ events' = Tail(events)
  /\ UNCHANGED <<depends, remaining, task, retries, awaited, drafts, stream>>

(* Mutated form: a section that timed out has no draft. *)
CollectDraftsOnly(s) ==
  /\ stream = "open" /\ s \in awaited /\ Ended(s)
  /\ awaited' = awaited \ {s}
  /\ drafts' = [drafts EXCEPT ![s] = IF task[s] = "done" THEN "draft" ELSE @]
  /\ told' = [told EXCEPT ![s] = IF task[s] = "timed out" THEN @ + 1 ELSE @]
  /\ stream' = IF task[s] = "failed" THEN "error" ELSE stream
  /\ UNCHANGED <<depends, remaining, task, retries, events>>

\* A task that ended, in whatever order and before its events are read: a
\* timeout is told of here, an error ends the stream and leaves the other
\* tasks and the events to themselves.
Collect(s) ==
  /\ stream = "open" /\ s \in awaited /\ Ended(s)
  /\ awaited' = awaited \ {s}
  /\ drafts' = [drafts EXCEPT ![s] = CASE task[s] = "done" -> "draft"
                                       [] task[s] = "timed out" -> "timeout"
                                       [] task[s] = "failed" -> @]
  /\ told' = [told EXCEPT ![s] = IF task[s] = "timed out" THEN @ + 1 ELSE @]
  /\ stream' = IF task[s] = "failed" THEN "error" ELSE stream
  /\ UNCHANGED <<depends, remaining, task, retries, events>>

StartAssembly ==
  /\ stream = "open" /\ awaited = {} /\ events = << >>
  /\ remaining = {}
  /\ stream' = "assembling"
  /\ UNCHANGED <<depends, remaining, task, retries, awaited, events, drafts, told>>

\* The assembler returns or raises, when it does: the call has no timeout.
Assembled ==
  /\ stream = "assembling" /\ stream' \in {"complete", "error"}
  /\ UNCHANGED <<depends, remaining, task, retries, awaited, events, drafts, told>>

\* The client leaves: the generator is closed where it stands, the tasks go on.
Disconnect ==
  /\ stream \in {"open", "assembling"} /\ stream' = "closed"
  /\ UNCHANGED <<depends, remaining, task, retries, awaited, events, drafts, told>>

Generator ==
  \/ StartBatch \/ SendEvent \/ StartAssembly
  \/ \E s \in Sections : Collect(s)

ReportNext ==
  \/ Generator \/ Assembled \/ Disconnect
  \/ \E s \in Sections :
       \/ BeginSection(s) \/ NextStep(s) \/ AgentFails(s) \/ TimeOut(s)
       \/ \E fails \in BOOLEAN : Check(s, fails)

\* The client reads on, and the time of a section runs out even when an agent
\* hangs.  Nothing makes the assembler answer: nobody waits for it with a
\* timeout.
ReportFairness ==
  /\ WF_reportVars(Generator)
  /\ \A s \in Sections : WF_reportVars(TimeOut(s))

ReportSpec == ReportInit /\ [][ReportNext]_reportVars /\ ReportFairness

-----------------------------------------------------------------------------
(* Properties. *)

\* The variables have their types.
ReportTypeOK ==
  /\ remaining \subseteq Sections /\ awaited \subseteq Sections
  /\ task \in [Sections -> {"none", "created", "done", "timed out", "failed"} \cup ToSet(Steps)]
  /\ retries \in [Sections -> 0 .. MaxRetries]
  /\ events \in Seq(Sections)
  /\ drafts \in [Sections -> {"none", "draft", "timeout"}]
  /\ told \in [Sections -> 0 .. 1]
  /\ stream \in {"open", "assembling", "complete", "error", "closed"}

\* A report is complete only when every section has its draft and the client
\* was told of each exactly once, however tasks end and events queue up.
CompleteIsWhole ==
  stream = "complete" => \A s \in Sections : drafts[s] # "none" /\ told[s] = 1

\* The sections of every write that has begun come to an end: the assembly
\* begins, or the stream ends.  Agents that hang, retries and dependencies that
\* never can be met do not hold them up.
SectionsEnd == (remaining # Sections /\ stream = "open") ~> (stream # "open")

\* config.py: write_timeout is the "Timeout for entire write operation".  It is
\* applied nowhere, so a hanging assembler holds the write (MCWriteEnds).
WriteEnds ==
  (remaining # Sections /\ stream = "open") ~> (stream \in {"complete", "error", "closed"})

-----------------------------------------------------------------------------
(* The inductive invariant behind CompleteIsWhole (HarnessProofs). *)

\* How far a section's task is says what was told of it: an event is queued
\* once, by a task that is done, and a timeout is told of when it is collected.
SectionTold(s) ==
  /\ s \in ToSet(events) => task[s] = "done"
  /\ told[s] = CASE task[s] = "done" -> IF s \in ToSet(events) THEN 0 ELSE 1
               [] task[s] = "timed out" -> IF s \in awaited THEN 0 ELSE 1
               [] OTHER -> 0

\* Sections wait for their batch, then their task is awaited, then there is a draft.
SectionPlace(s) ==
  /\ task[s] = "none" <=> s \in remaining
  /\ s \in awaited => task[s] # "none"
  /\ task[s] = "created" \/ InStep(s) => s \in awaited
  /\ drafts[s] # "none" => task[s] \in {"done", "timed out"}
  /\ stream \in {"open", "assembling", "complete"} =>
       s \in remaining \/ s \in awaited \/ drafts[s] # "none"

ReportInv ==
  /\ ReportTypeOK
  /\ \A s \in Sections : SectionTold(s) /\ SectionPlace(s)
  /\ \A i, j \in DOMAIN events : events[i] = events[j] => i = j
  /\ stream \in {"assembling", "complete"} => remaining = {} /\ awaited = {} /\ events = << >>
=============================================================================
