CONSTANTS
  t1 = t1 t2 = t2 t3 = t3 d1 = d1 d2 = d2
  orders = orders order1 = order1 users = users
  Txs = {t1, t2}
  Uris = {orders, order1}
  Dispatchers = {d1, d2}
  Call <- PartitionCall
  Under <- MCUnder
  Hash <- EvenOddHash
  BatchSize = 1
  MaxPos = 2
  MaxFailures = 1
  MaxSeeks = 0
SPECIFICATION FairSpec
PROPERTY AtLeastOnce
