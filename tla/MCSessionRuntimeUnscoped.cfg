\* Two unscoped switches and the fork that is queued behind them.
CONSTANTS
  Op = {p1, p2, p3}
  Exit = exit
  Writer = {}
  Kinds = {"pick", "fork"}
  Stored = 2
  HostWakes = FALSE
  MayFail = FALSE
SPECIFICATION SafeSpec
SYMMETRY Symmetry
\* Intents are used once, and the program ends.
CHECK_DEADLOCK FALSE
INVARIANTS
  GateNeverWaitsForItself
