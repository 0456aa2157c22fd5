SPECIFICATION Spec
CONSTANTS
  Subjects = {1, 2, 3}
  Observers = {2, 3, 4}
  TypeOf <- OneType
  MaxEdges = 4
  MaxBindings = 1
  MaxKnown = 1
INVARIANTS
  BothDirections
  ReachesAll
  UpdatesInOrder
  LeavesOutCycles
PROPERTIES
  NotificationEnds
