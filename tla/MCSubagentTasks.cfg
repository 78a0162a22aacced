CONSTANTS
  Tasks = 2
  Pool = 1
SPECIFICATION Spec
INVARIANTS
  OutcomeIsComplete
  EntryUntilTaken
  UsageReported
PROPERTIES
  FirstTerminalWins
  TaskEnds
  EntryRemoved
CHECK_DEADLOCK FALSE
