\* Descriptors below the capacity; every type of message; errors from Redis.
CONSTANTS
  alice = alice
  bob = bob
  c1 = c1
  c2 = c2
  c3 = c3
  lobby = lobby
  Null = Null
  User <- MCUser
  Value <- MCConn
  Room <- MCRoom
  members <- MCMembers
  Cap = 3
  Key <- DirectFds
  Types <- AllTypes
  MaxSend = 2
  RedisFaults = TRUE
SYMMETRY Symmetry
SPECIFICATION Spec
CHECK_DEADLOCK FALSE
INVARIANTS TypeOK ClientsExact OnlineReachable
PROPERTIES ReachesMembers
