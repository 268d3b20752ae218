\* From an empty server; descriptors that collide, one more than the table holds.
CONSTANTS
  alice = alice
  bob = bob
  c1 = c1
  c2 = c2
  c3 = c3
  lobby = lobby
  Null = Null
  User <- MCUser
  Value <- MCConn
  Room <- MCRoom
  members <- MCMembers
  Cap = 2
  Key <- CollidingFds
  Types <- Chatting
  MaxSend = 3
  RedisFaults = FALSE
SYMMETRY Symmetry
SPECIFICATION FreshSpec
CHECK_DEADLOCK FALSE
INVARIANTS TotalOrder SenderOrder DeliveredIsSaved
