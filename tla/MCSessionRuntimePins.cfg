\* Three intents: a fork whose pin is awaited by a second intent while a third
\* moves the surface away and back.  No exit, which would abort every wait.
CONSTANTS
  Op = {p1, p2, p3}
  Exit = exit
  Writer = {}
  Kinds = {"switch", "new", "fork"}
  Stored = 2
  HostWakes = FALSE
  MayFail = FALSE
SPECIFICATION SafeSpec
SYMMETRY Symmetry
\* Intents are used once, and the program ends.
CHECK_DEADLOCK FALSE
INVARIANTS
  ResumeMeetsNoLiveOwner
  GateNeverWaitsForItself
PROPERTIES
  ReplacesOnlyWhatItSaw
