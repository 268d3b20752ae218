\* Errors from Redis; descriptors below the capacity.
CONSTANTS
  alice = alice
  bob = bob
  c1 = c1
  c2 = c2
  c3 = c3
  lobby = lobby
  Null = Null
  User <- MCUser
  Value <- MCConn
  Room <- MCRoom
  members <- MCMembers
  Cap = 3
  Key <- DirectFds
  Types <- Chatting
  MaxSend = 2
  RedisFaults = TRUE
SYMMETRY Symmetry
SPECIFICATION FreshSpec
CHECK_DEADLOCK FALSE
INVARIANTS DeliveredIsSaved
