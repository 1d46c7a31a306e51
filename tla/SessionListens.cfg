SPECIFICATION FairSpec
CONSTANTS
  Kinds = {"listen"}
  SockCap = 1
  MsgCap = 1
  EvCap = 1
  MaxSocks = 3
  MaxMsgs = 2
  MaxInbox = 1
INVARIANT ListenerSurvives
