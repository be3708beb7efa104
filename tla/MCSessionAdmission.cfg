\* Four transition callers and three writers: a running transition, others
\* queued behind it, one between two requests, and a drain of several writers.
CONSTANTS
  Task = {t1, t2, t3, t4}
  Writer = {w1, w2, w3}
SPECIFICATION Spec
INVARIANTS
  TypeOK
  BodyIsExclusive
  NeverReentrant
  NoLostWakeup
  PendingCoversTransition
PROPERTIES
  EveryTransitionSettles
  ImplementsExclusiveTransition
