\* A status module publishes scenes in both slots, some of which are refused, over the
\* clock, while reloads replace and disable modules: two processes of each.
CONSTANTS
  Keys <- TwoKeys
  Defaults <- ClockDefault
  MaxLifetime = 1
  Configurations <- Replacements
  Publications <- AllAlerts
  MaxGeneration = 2
  MaxRevision = 2
  MaxQueue = 1
SPECIFICATION FairSpec
INVARIANTS ContextsAreBacked RunningAreTold
PROPERTIES ScreenSettles
