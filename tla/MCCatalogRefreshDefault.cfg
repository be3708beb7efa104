\* A default saved beside a live session.
CONSTANTS
  Preset = {a}
  Default = default
  Commands = {"default", "session"}
  MaxRequests = 2
  MaxChanges = 0
SPECIFICATION SafeSpec
CHECK_DEADLOCK FALSE
INVARIANTS
  LiveCatalogIsTheAgents
