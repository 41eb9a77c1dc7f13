SPECIFICATION WildSpec
CONSTANTS
  FileLen = 3
  DefBlk = 1
  OptBlk = 2
  SeqSize = 3
  TIMEOUT_COUNT = 1
  MaxTries = 2
  Commands = {"TFTPGET"}
  MaxCmds = 1
  Ports = {1, 2}
  FreshPorts = TRUE
  MaxCur = 9
  MaxSess = 2
  ServerOpts = {TRUE, FALSE}
  Faults = {"notfound", "icmp", "ctrlc"}
  Batch = TRUE
  Wild = TRUE
  Reorder = 0
  MaxLoss = 0
INVARIANTS TypeOK GetInv LoadIntegrity StoreExtent AckedIsStored
PROPERTY SessionLock
CHECK_DEADLOCK FALSE
