SPECIFICATION WildSpec
CONSTANTS
  FileLen = 3
  DefBlk = 1
  OptBlk = 2
  SeqSize = 9
  TIMEOUT_COUNT = 1
  MaxTries = 2
  Commands = {"TFTPGET", "TFTPPUT", "TFTPSRV"}
  MaxCmds = 1
  Ports = {1, 2}
  FreshPorts = TRUE
  MaxCur = 9
  MaxSess = 2
  ServerOpts = {TRUE, FALSE}
  Faults = {}
  Batch = FALSE
  Wild = TRUE
  Reorder = 9
  MaxLoss = 0
INVARIANTS LoadIntegrity StoreExtent PutPrefix SrvSendsAcks
CHECK_DEADLOCK FALSE
