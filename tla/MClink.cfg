SPECIFICATION FairSpec
CONSTANTS
  Servers = {s1, s2}
  None = None
  Calls <- AllCalls
  MaxSends = 1
INVARIANTS
  TypeOK
  LinkSound
  
  OneNetworkThread
PROPERTIES
  EveryLinkSent
  CallsReturn
