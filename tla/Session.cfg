SPECIFICATION FairSpec
CONSTANTS
  Kinds = {"events", "track", "listen", "udp"}
  SockCap = 1
  MsgCap = 1
  EvCap = 1
  MaxSocks = 3
  MaxMsgs = 2
  MaxInbox = 1
INVARIANT TypeOK
INVARIANT EachTriedOnce
INVARIANT StaysServed
PROPERTY StartsOnNewest
PROPERTY OnlyClientBlocks
PROPERTY DroppedSessionEnds
