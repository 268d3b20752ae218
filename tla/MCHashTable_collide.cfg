\* Descriptors beyond the capacity and deletion.
CONSTANTS
  Cap = 2
  Null = Null
  Overflow = Overflow
  v1 = v1
  v2 = v2
  Key <- CollidingKeys
  Value <- MCValue
  Ops <- AllOps
SPECIFICATION Spec
PROPERTIES ImplementsMap
