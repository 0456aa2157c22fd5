CONSTANTS
  Node <- MCNode
  NoNode = NoNode
  Kind <- MCKind
  Child <- MCChild
  Target = {}
  IdAttr <- MCIdAttr
  Root = "order"
  Attrs <- MCAttrs
  Generated <- MCGenerated
  Nullable = {}
  Dependent <- MCDependent
  ParentField <- MCParentField
  ChildQueries <- MCChildQueries
  Probes <- MCProbes
  Lazy = {}
  Queries <- MCQueries
  MaxAsks = 2
  MaxRows <- MCMaxRows
SPECIFICATION Spec
INVARIANTS ParentHasItsChild
CHECK_DEADLOCK FALSE
