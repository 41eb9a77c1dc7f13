SPECIFICATION Spec
CONSTANTS
  Networks = {"lossy"}
  MaxTries = 2
  ipaddr = 5
  FileLen = 2
  NFS_READ_SIZE = 2
  NFS_RETRY_COUNT = 1
  Hops = 1
  Refusals = {"PORT_MOUNT", "PORT_NFS", "MOUNT", "UMOUNT", "LOOKUP", "READ", "READLINK"}
  Servers = {1, 2}
  Gateways = {1, 2}
  NextServers = {1}
  serverip = 6
  CONFIG_BOOTP_ID_CACHE_SIZE = 2
  LongWords = 1
  MaxRequests = 3
  Delay = 1
  FirstHeard = 2
  Autoloads = {"no"}
  LinkLocals = {8, 9}
  Taken = {9}
  PROBE_NUM = 2
  ANNOUNCE_NUM = 1
  Commands = {"LINKLOCAL"}
  MaxCommands = 2
  Faulty = {"LINKLOCAL"}
INVARIANT Negotiated
CHECK_DEADLOCK FALSE
