SPECIFICATION ViewSpec
CONSTANTS
  Session = {v1}
  Transport = {t1, t2}
  Binding = {main, sub}
  Lease = {l1, l2, l3}
  Profile = {main, sub}
  MaxDerivatives = 1
  p1 = p1
  p2 = p2
  x1 = x1
  x2 = x2
  Slot = {p1, p2}
  Wishes <- WallWishes
  Sub = {x1, x2}
  Feed = {f1, f2}
  None = None
INVARIANTS LiveResourcesHeld WallShowsDesired
PROPERTIES UsedStreamsStay LiveViewProgress
CHECK_DEADLOCK FALSE
