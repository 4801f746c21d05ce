SPECIFICATION FairSpec
CONSTANTS
  Clients = {c1, c2}
  NoOne = NoOne
  MaxRequests = 3
  MaxCrashes = 1
INVARIANTS TypeOK ActiveFlagAgrees OrderProtects ExpectedConnects QuietAgreement
PROPERTIES ShownBecomesActive
CHECK_DEADLOCK FALSE
