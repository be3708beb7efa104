\* The exit against every pair of intents the runtime knows; one stored session,
\* so that a switch goes to the session of a fork, of /new or of a parked owner.
CONSTANTS
  Op = {p1, p2}
  Exit = exit
  Writer = {w1}
  Kinds = {"switch", "pick", "new", "first", "fork", "plain", "exit"}
  Stored = 1
  HostWakes = TRUE
  MayFail = FALSE
SPECIFICATION Spec
\* Intents are used once, and the program ends.
CHECK_DEADLOCK FALSE
PROPERTIES
  ExitCompletes
