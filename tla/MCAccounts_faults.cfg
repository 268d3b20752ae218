\* Crashes anywhere, and errors of every command but INCR.
CONSTANTS
  alice = alice
  bob = bob
  p1 = p1
  p2 = p2
  None = None
  Name <- MCName
  Pass <- MCPass
  Fd <- MCFd
  MaxId = 2
  Faulty <- AllButIncr
SPECIFICATION Spec
INVARIANTS TypeOK IndexSound IdsGenerated ErrorMeansUnregistered LoginAnsweredOnline
PROPERTIES SockfdFollowsCalls ImplementsRegistry OrphanStaysOrphan
