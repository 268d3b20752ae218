\* Descriptors below the capacity: no two keys share a slot.
CONSTANTS
  Cap = 4
  Null = Null
  Overflow = Overflow
  v1 = v1
  v2 = v2
  Key <- DirectKeys
  Value <- MCValue
  Ops <- AllOps
SPECIFICATION Spec
INVARIANTS SizeIsCount
PROPERTIES ImplementsMap
