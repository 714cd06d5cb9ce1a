CONSTANTS
  None = None
  Threads = {t1, t2}
  Commands <- OneCommand
  QueueCapacity = 2
  BatchSize = 2
  MaxSequence = 3
SPECIFICATION SharedSpec
INVARIANTS AsyncTypeOK CloseKeepsAccepted
PROPERTIES ImplementsLog FailedWriteIsTheLast CloseReturns AcceptedIsWritten
