\* Two presses of Alt+Up that may see the same rows, against two transitions of
\* any kind, a turn that claims rows and the exit.
CONSTANTS
  Rows = 2
  Pull = {p1, p2}
  Task = {t1, t2}
  Throws = {"beforeBump"}
SPECIFICATION Spec
\* Presses and transitions are used once.
CHECK_DEADLOCK FALSE
INVARIANTS
  TypeOK
  NoTextLost
  NoTextTwice
  RecallHasItsTransition
  DraftsFollowTheEditor
PROPERTIES
  NeverInAnotherSession
  EveryPullBackEnds
  ImplementsExclusiveTransition
