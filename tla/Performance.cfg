SPECIFICATION Spec
CONSTANTS
  Clients = {c1}
  ChanCap = 1
  MaxTracks = 2
  MaxEvents = 3
INVARIANT TypeOK
INVARIANT StateIsWhatWasSaid
INVARIANT EventsAlternate
INVARIANT LateOrLost
CHECK_DEADLOCK FALSE
