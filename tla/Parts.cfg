SPECIFICATION PartsSpec
CONSTANTS
  Chosen = {"stores", "hashtable", "lmb", "defragment", "arp"}
  Values = {d, a, b}
  Default = d
  None = none
  FlashFaults = {"protect", "export", "write", "flag"}
  SaveFaults = {"init", "export"}
  BootFaults = {"repair", "init", "import", "read1", "read2"}
  WornFlashFaults = {"protect", "export", "alloc", "erase", "write", "flag", "rest"}
  WornFaults = {"init", "export", "addr", "erase", "write"}
  WornBootFaults = {"repair"}
  WornMaxSerial = 255
  Embedded = TRUE
  MaxSerial = 3
  Horizon = 4
  Names = {"a", "b", "c", "d"}
  HashOf <- NameHash
  VarValues = {"x", "y"}
  Texts <- SomeTexts
  Selections = {{}, {"a"}, {"b", "c"}}
  size = 5
  MaxCreates = 6
  Bits = 5
  MemBase = 2
  MemTop = 12
  Sp = 11
  MAX_LMB_REGIONS = 3
  BlockSizes = {1, 2, 3, 4}
  Aligns = {1, 2, 4, 7}
  Limits = {0, 3, 7}
  MaxBlocks = 4
  Hosts = {1, 2, 3}
  Local = {1, 2}
  net_gateway_ip = 2
  ARP_TIMEOUT_COUNT = 3
  Ids = {1, 2}
  Length <- PacketLength
  Cuts <- PacketCuts
  BlockLen = 2
  InAnyOrder = FALSE
INVARIANT StoresTypeOK SerialSavedIsLoaded StaysStored
INVARIANT TableFound TableWalked Kept HighestFree Reassembled FrameRight PacketKept
PROPERTY StoresRefine StoresBackupKept
