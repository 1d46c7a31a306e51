SPECIFICATION FairSpec
CONSTANTS
  Conns = {c1, c2}
  Addrs = {a1}
  IdSpace = 3
  NRelays = 2
  UpdCap = 1
  EvtCap = 1
  OneAtATime = FALSE
  None = None
PROPERTY HandshakeEnds
PROPERTY DropLeadsToReturn
