SPECIFICATION ServerSpec
CONSTANTS
  Conns = {c1, c2}
  Addrs = {a1, a2}
  IdSpace = 2
  NRelays = 2
  UpdCap = 1
  EvtCap = 1
  Deaths = 1
  OneAtATime = TRUE
  None = None
SYMMETRY Symmetry
INVARIANT EveryoneKnown
