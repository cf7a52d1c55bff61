SPECIFICATION FairSpec
CONSTANTS
  Procs = {unit, hand}
  Unit = unit
  NoProc = NoProc
  Databases <- MCDatabases
  Usual <- MCUsual
  Listings <- MCListings
  MaxUpsets = 3
INVARIANTS SchemaReady SnapshotsAcceptable OffersFit
PROPERTIES ListenersNotDisturbed ServiceComesUp
CHECK_DEADLOCK FALSE
