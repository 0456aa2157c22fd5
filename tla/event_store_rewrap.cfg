CONSTANTS
  s1 = s1 s2 = s2 order = order user = user
  Sessions = {s1, s2}
  Streams = {order}
  Ops = {"load", "save", "rotate", "rewrap", "deleteKek", "deleteDek"}
  Exclusive = FALSE
  MaxVersion = 2
  MaxKeys = 4
  MaxBatch = 1
  MaxEvents = 1
SPECIFICATION Spec
INVARIANTS ShreddedForGood
SYMMETRY Symmetry
CHECK_DEADLOCK FALSE
