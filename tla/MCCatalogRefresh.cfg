\* Three requests: one for another target supersedes one under way, a session
\* is published in between; one change meets every step of them.
CONSTANTS
  Preset = {a}
  Default = default
  Commands = {"preset", "reload", "session"}
  MaxRequests = 3
  MaxChanges = 1
SPECIFICATION SafeSpec
\* Requests and changes are bounded.
CHECK_DEADLOCK FALSE
INVARIANTS
  TypeOK
  ShownFollowsOwner
PROPERTIES
  CatalogNeverGoesBack
