SPECIFICATION Spec
CONSTANTS
  Procs = {unit, hand}
  Unit = unit
  NoProc = NoProc
  Databases <- MCDatabases
  Usual <- MCUsual
  Listings <- MCListings
  MaxUpsets = 1
PROPERTY OnlyOrphansRecovered
