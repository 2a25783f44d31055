\* Reloads of two modules with room for one, so that starts have to be deferred; a module
\* that fails is restarted on its own once, and locked out when it fails again.
CONSTANTS
  Handshake = 1
  GracefulShutdown = 1
  TerminateGrace = 1
  InitialBackoff = 1
  MaximumBackoff = 1
  HealthyReset = 1
  FailureWindow = 1
  FailureLimit = 2
  N = 2
  MaximumInstances = 1
  PolicyOf <- NotAlways
  ViolationLimit = 1
  EofGrace = 0
  Configurations <- Reloads
  Commands = {"stop", "reconfigure", "shutdown"}
  Faults = {"init", "signal", "waitpid"}
SPECIFICATION Spec
INVARIANTS
  ReconfigurationIsSound
  ProcessesAreAccounted
PROPERTIES
  OutdatedLeaves
