\* Two contexts, ordinary and timed; one call, two publications.
SPECIFICATION FairSpec
CONSTANTS
  Keys = {a, b}
  Kinds = {"plain", "timed"}
  Lease = 1
  RevealTime = 1
  ExitTolerance = 1
  ReducedMotion = FALSE
  MaxPublications = 2
  MaxRequests = 1
INVARIANTS ConsultationTimed InputReachesView
PROPERTIES SessionHolds HiddenAtRest
