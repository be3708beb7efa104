\* A commit section that throws between the bump and the publication.
CONSTANTS
  Rows = 2
  Pull = {p1}
  Task = {t1}
  Throws = {"afterBump"}
SPECIFICATION SafeSpec
\* Presses and transitions are used once.
CHECK_DEADLOCK FALSE
INVARIANTS
  NoTextLost
