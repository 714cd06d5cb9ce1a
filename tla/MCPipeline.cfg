CONSTANTS
  None = None
  Threads = {main_thread}
  Commands <- Cancels
  QueueCapacity = 1
  BatchSize = 2
  MaxCommands = 3
  MaxSessions = 2
SPECIFICATION Spec
INVARIANTS ContiguousReplayIsExact ConfirmedSurvives LagDoesNotUnderflow DropKeepsEverything
