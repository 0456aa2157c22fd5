SPECIFICATION Spec
CONSTANTS
  Templates <- DocumentedTemplates
  Params <- MCParams
  Documents <- MCDocuments
  Expressions <- NestedExpressions
  Tables <- MCTables
  Columns <- MCColumns
  Schema <- MCSchema
  ParentRef = "s"
INVARIANT SelectsWhatMatches
CHECK_DEADLOCK FALSE
