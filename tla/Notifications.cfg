SPECIFICATION Spec
CONSTANTS
  MaxId = 3
  MaxLive = 2
  HistoryLimit = 2
  VisibleLimit = 2
  Kinds <- Sent
  MaxNotify = 3
  MaxSessions = 1
  LateRename = FALSE
INVARIANTS
  NotificationsAreConsistent
  PanelIsCurrent
PROPERTIES
  HistoryIsSaved
