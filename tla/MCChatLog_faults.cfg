\* Crashes anywhere, and errors of every command.
CONSTANTS
  one = one
  two = two
  alice = alice
  hi = hi
  None = None
  User <- MCUser
  Name <- MCName
  Text <- MCText
  Radix = 2
  MaxRoom = 2
  MaxMsg = 2
  Faulty <- Commands
SPECIFICATION Spec
INVARIANTS TypeOK RoomsFresh SaveKeepsHistory DeletedIsGone
PROPERTIES DeletionSpares
