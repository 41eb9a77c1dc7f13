SPECIFICATION Spec
CONSTANTS
  Values = {d, a, b}
  Default = d
  None = none
  SaveFaults = {"erase"}
  BootFaults = {}
  Embedded = FALSE
INVARIANT SavedIsLoaded
