SPECIFICATION Spec
CONSTANTS
  Values = {d, a, b}
  Default = d
  None = none
  SaveFaults = {"probe", "export", "rest", "erase", "write", "flag"}
  BootFaults = {"malloc", "probe", "read1", "read2", "import"}
  Embedded = TRUE
INVARIANT TypeOK Durable
PROPERTY Refines BackupKept
