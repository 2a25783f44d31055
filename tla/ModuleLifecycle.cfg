\* Every call order, with a doubling backoff (1, 2, 4, 5) and a lockout of three.
CONSTANTS
  Handshake = 2
  GracefulShutdown = 2
  TerminateGrace = 1
  InitialBackoff = 1
  MaximumBackoff = 5
  HealthyReset = 2
  FailureWindow = 4
  FailureLimit = 3
SPECIFICATION FairSpec
INVARIANTS
  GraceBeforeSignals
PROPERTIES
  LockoutIsExact
  RequestedStopIsFinal
  RestartWaits
  BackoffEscalates
  NoStateIsATrap
