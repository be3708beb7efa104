\* Two intents and one write over two stored sessions: every pair of intents
\* overlaps, one of them with a live owner, a turn, a write and the exit.
CONSTANTS
  Op = {p1, p2}
  Exit = exit
  Writer = {w1}
  Kinds = {"switch", "new", "first", "fork", "exit"}
  Stored = 2
  HostWakes = TRUE
  MayFail = TRUE
SPECIFICATION SafeSpec
SYMMETRY Symmetry
\* Intents are used once, and the program ends.
CHECK_DEADLOCK FALSE
INVARIANTS
  TypeOK
  SurfaceIsAlive
  ResumeMeetsNoLiveOwner
  OneKeeperPerOwner
  WritesKeepTheirOwner
  AtMostOneShutdownCancel
  ExitLeavesNothing
PROPERTIES
  ReplacesOnlyWhatItSaw
  ImplementsSessionLease
