\* Two navigations or forks, a write that waits for its turn, and the exit; a
\* switch goes to the session of a fork, of /new or of a parked owner.
CONSTANTS
  Op = {p1, p2}
  Exit = exit
  Writer = {w1}
  Kinds = {"switch", "new", "fork", "exit"}
  Stored = 1
  HostWakes = FALSE
  MayFail = FALSE
SPECIFICATION Spec
\* Intents are used once, and the program ends.
CHECK_DEADLOCK FALSE
PROPERTIES
  NavigationSettles
  PinsAreReleased
