CONSTANTS
  t1 = t1 t2 = t2 t3 = t3 d1 = d1 d2 = d2
  orders = orders order1 = order1 users = users
  Txs = {t1, t2}
  Uris = {orders}
  Dispatchers = {d1, d2}
  Call <- SharedCall
  Under <- MCUnder
  Hash <- EvenOddHash
  BatchSize = 2
  MaxPos = 3
  MaxFailures = 1
  MaxSeeks = 1
SYMMETRY Symmetry
SPECIFICATION Spec
INVARIANTS NoSkippedMessage DeliveredInOrder DeliveredIsCommitted NoAckedRedelivery
PROPERTIES OffsetsAdvance ImplementsLog
