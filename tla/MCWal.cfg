CONSTANTS
  None = None
  Commands <- WalCommands
  MaxSegmentBytes = 16
  MaxAppends = 3
  MaxFaults = 2
SPECIFICATION Spec
INVARIANTS AckedSurvives KeptInOrder RecoveredIsReadable StreamAgreesWithRecovery ReportNamesTheLast
