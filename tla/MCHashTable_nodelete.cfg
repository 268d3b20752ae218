\* More keys than slots, all colliding, and no deletion.
CONSTANTS
  Cap = 3
  Null = Null
  Overflow = Overflow
  v1 = v1
  v2 = v2
  Key <- CrowdedKeys
  Value <- MCValue
  Ops <- NoDelete
SPECIFICATION FairSpec
INVARIANTS TypeOK ProbeSkipsOthers EveryNodeFound EndlessWhenFull
PROPERTIES ImplementsMap CallReturns
