\* One module publishes valid, half valid and refused scenes, sends data for a view that
\* reloads change, lets its contexts expire and dismisses them: five revisions of one process.
CONSTANTS
  Keys <- StatusKeys
  Defaults <- StatusDefault
  MaxLifetime = 1
  Configurations <- Views
  Publications <- Refusable
  MaxGeneration = 1
  MaxRevision = 5
  MaxQueue = 1
SPECIFICATION Spec
PROPERTIES RejectionsAreFair
