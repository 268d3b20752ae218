\* INCR may answer an error.
CONSTANTS
  alice = alice
  bob = bob
  p1 = p1
  p2 = p2
  None = None
  Name <- MCName
  Pass <- MCPass
  Fd <- MCFd
  MaxId = 2
  Faulty <- OnlyIncr
SPECIFICATION Spec
INVARIANTS ErrorMeansUnregistered
