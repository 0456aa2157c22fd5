SPECIFICATION LibrarySpec
CONSTANTS
  Keys = {"a", "b"}
  Kinds <- RestBetween
  On <- OnFirst
  Level = "serializable"
  CacheSize = 1
  MaxDepth = 2
  MaxObjects = 3
  MaxVersion = 1
  MaxOrder = 2
  Queries <- BatchQueries
  Callbacks = {"raise", "auto"}
  MaxDeferreds = 5
  MaxAwaited = 2
INVARIANTS
  CommitsFromTheEnd
  OneObjectPerKey
  MatchesTemplate
  SelectsWhatMatches
  AnsweredOnce
  Satisfied
  ReferencesExist
  RoundTrips
  SqlAgrees
PROPERTIES
  RegenerationAdds
  CreatedOnce
CHECK_DEADLOCK FALSE
