\* A restart of an instance that is stopping to be replaced.
CONSTANTS
  Handshake = 1
  GracefulShutdown = 1
  TerminateGrace = 1
  InitialBackoff = 1
  MaximumBackoff = 1
  HealthyReset = 1
  FailureWindow = 1
  FailureLimit = 2
  N = 1
  MaximumInstances = 1
  PolicyOf <- Policies
  ViolationLimit = 2
  EofGrace = 1
  Configurations <- Every
  Commands = {"reconfigure", "restart"}
  Faults = {"spawn", "init", "signal", "waitpid", "io"}
SPECIFICATION Spec
INVARIANTS
  PendingRestartsTracked
