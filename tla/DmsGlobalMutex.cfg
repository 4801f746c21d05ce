SPECIFICATION FairSpec
CONSTANTS
  Threads = {t1, t2, t3}
  None = None
  MaxNesting = 2
INVARIANTS TypeOK SerialModeOwns
PROPERTIES ImplementsSerialRunMode WaitsEnd
