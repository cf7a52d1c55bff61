SPECIFICATION FairSpec
CONSTANTS
  Usual <- MCUsual
  Odd <- MCOdd
  MessageIds <- MCMessageIds
  Users <- MCUsers
  Nodes <- MCNodes
  Usually <- Administrator
  Outputs <- MCOutputs
  MaxSends = 3
  MaxInFlight = 1
  MaxUpsets = 1
  CacheSize = 2
  QueueSize = 2
INVARIANTS TypeOK ClaimsPassEveryCheck ScontrolMatchesRequest FreshAuthority ConsistentAnswers NothingLost
PROPERTIES CapabilitiesAgree EverySendSettles
CHECK_DEADLOCK FALSE
