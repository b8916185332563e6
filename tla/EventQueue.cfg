SPECIFICATION Spec
CONSTANTS
  g1 = g1
  g2 = g2
  t1 = t1
  t2 = t2
  Gens = {g1, g2}
  Triggers = {g2}
  Tracks = {t1}
  Gaps = {1, 3}
  Garbage <- SomeGarbage
  Windows = {2, 4}
  Late = {0, 5}
  MaxEvents = 3
INVARIANTS TypeOK DeferredKeepsTime DeferredNotLost
PROPERTIES NoOverlap GapsKept ImplementsTimeline
CHECK_DEADLOCK FALSE
