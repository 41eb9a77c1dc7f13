SPECIFICATION Spec
CONSTANTS
  N = 1
  Broken = {}
  NoAddr = {}
  NoServer = FALSE
  Rotates = {TRUE}
  Retries = {5}
  MaxTry = 4
  MayAbort = FALSE
INVARIANT NoErrorIsSuccess
