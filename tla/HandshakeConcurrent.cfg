SPECIFICATION Spec
CONSTANTS
  Conns = {c1, c2, c3}
  Addrs = {a1, a2}
  IdSpace = 3
  NRelays = 2
  UpdCap = 1
  EvtCap = 1
  OneAtATime = FALSE
  None = None
SYMMETRY Symmetry
INVARIANT Inv
INVARIANT IdOwned
INVARIANT MapsAgree
