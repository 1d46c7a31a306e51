SPECIFICATION ServerSpec
CONSTANTS
  Conns = {c1, c2, c3}
  Addrs = {a1, a2}
  IdSpace = 3
  NRelays = 2
  UpdCap = 1
  EvtCap = 1
  Deaths = 1
  OneAtATime = TRUE
  None = None
SYMMETRY Symmetry
INVARIANT RegistriesMirror
INVARIANT UnwrapSafe
INVARIANT PatientOneId
INVARIANT RosterListsSelf
INVARIANT PatientInv
INVARIANT ListsMatchRegistries
INVARIANT UpdatesInOrder
INVARIANT NewcomerIsTold
