\* A reload that finds the old process already stopping after a failure.
CONSTANTS
  Handshake = 1
  GracefulShutdown = 1
  TerminateGrace = 1
  InitialBackoff = 1
  MaximumBackoff = 1
  HealthyReset = 1
  FailureWindow = 1
  FailureLimit = 2
  N = 1
  MaximumInstances = 1
  PolicyOf <- Policies
  ViolationLimit = 2
  EofGrace = 1
  Configurations <- Every
  Commands = {"reconfigure"}
  Faults = {"spawn", "init", "signal", "waitpid", "io"}
SPECIFICATION Spec
PROPERTIES
  SpawnsConfigured
