\* A burst of two changes around one request of any kind, a saved default
\* included.
CONSTANTS
  Preset = {a}
  Default = default
  Commands = {"preset", "reload", "session", "default"}
  MaxRequests = 1
  MaxChanges = 2
SPECIFICATION Spec
\* Requests and changes are bounded.
CHECK_DEADLOCK FALSE
INVARIANTS
  QuietIsFresh
PROPERTIES
  EveryChangeIsRead
