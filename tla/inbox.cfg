CONSTANTS
  a1 = a1 a2 = a2 b1 = b1 w1 = w1 w2 = w2
  Msgs = {a1, a2, b1}
  Deps <- Fork
  Hash <- StreamHash
  Workers = {w1, w2}
  Args <- LoopAndIterator
  Iterators = {w2}
  MaxDup = 1
  MaxFailures = 1
SPECIFICATION FairSpec
INVARIANTS CausalOrder ExactlyOnceEffect ProcessedOrderIsTotal
PROPERTIES EventuallyProcessed ProcessedForGood ImplementsCausalDelivery
