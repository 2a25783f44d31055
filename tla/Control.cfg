\* One module that is replaced once, two connections at a time, one of them waiting.
CONSTANTS
  Instances = {i1}
  MaxClients = 2
  MaxPending = 1
  FrameAccepts = 2
  PhaseTimeout = 1
  PendingTimeout = 2
  ActionTimeout = 1
  MaxCommands = 1
  MaxConnections = 2
  MaxInvocations = 2
  MaxGeneration = 2
  MaxQueue = 2
SPECIFICATION FairSpec
INVARIANTS ActionsAreTracked AnswersAreTrue
PROPERTIES SilenceIsDeserved ConnectionsEnd
