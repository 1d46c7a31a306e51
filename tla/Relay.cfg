SPECIFICATION FairSpec
CONSTANTS
  Users = {1, 2}
  Chans = {1, 2, 3}
  MainCap = 1
  UpdCap = 1
  QueueCap = 1
  MaxMsgs = 2
  None = None
INVARIANT TypeOK
INVARIANT OneEntryPerUser
INVARIANT GapFree
PROPERTY OnlyOwnUnsubscribe
PROPERTY ImplementsBroadcast
PROPERTY OnlyFullQueueStops
 
