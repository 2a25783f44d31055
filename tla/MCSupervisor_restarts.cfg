\* Restarts and shutdown of one module, under either policy, with spawns, messages and
\* pipes that fail, under the fairness of the loop.  The application does not stop it.
CONSTANTS
  Handshake = 1
  GracefulShutdown = 1
  TerminateGrace = 1
  InitialBackoff = 1
  MaximumBackoff = 1
  HealthyReset = 1
  FailureWindow = 1
  FailureLimit = 2
  N = 1
  MaximumInstances = 1
  PolicyOf <- Policies
  ViolationLimit = 2
  EofGrace = 1
  Configurations <- Every
  Commands = {"restart", "send", "shutdown"}
  Faults = {"spawn", "init", "io"}
SPECIFICATION FairSpec
INVARIANTS
  PendingRestartsTracked
PROPERTIES
  NoSpawnAfterShutdown
  ImplementsProcessEvents
  ShutdownCompletes
  RestartsAreReported
