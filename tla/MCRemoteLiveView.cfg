\* A sequence of two disconnects, pages of older history or commits, in any
\* mixture, against two events.
CONSTANTS
  MaxEvents = 2
  MaxIncidents = 2
SPECIFICATION Spec
\* Everything the environment does is bounded.
CHECK_DEADLOCK FALSE
INVARIANTS
  TypeOK
  FoldHasNoHole
  TrustedFoldIsTheWindow
PROPERTIES
  FoldNeverGoesBack
  EventuallyShown
