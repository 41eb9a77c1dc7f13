SPECIFICATION NetLoopSpec
CONSTANTS
  N = 3
  Broken = {1, 2}
  NoAddr = {2}
  NoServer = TRUE
  Rotates = {TRUE, FALSE}
  Retries = {0, 1, 3, 5}
  MaxTry = 4
  MayAbort = TRUE
INVARIANT TypeOK OneInterface PauseAfterAll
PROPERTY Ends Terminates Recovers
CHECK_DEADLOCK FALSE
