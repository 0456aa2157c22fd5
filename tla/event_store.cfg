CONSTANTS
  s1 = s1 s2 = s2 order = order user = user
  Sessions = {s1, s2}
  Streams = {order}
  Ops = {"load", "save", "rotate", "rewrap", "deleteKek", "deleteDek"}
  Exclusive = TRUE
  MaxVersion = 2
  MaxKeys = 4
  MaxBatch = 2
  MaxEvents = 2
SPECIFICATION Spec
INVARIANTS EventsReadable ShreddedForGood
PROPERTIES ImplementsEventLog
SYMMETRY Symmetry
CHECK_DEADLOCK FALSE
