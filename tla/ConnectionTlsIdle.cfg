SPECIFICATION Spec
CONSTANTS
  Scripts <- ShortScripts
  MaxRequests = 3
  FileLen = 2
  Transports = {TRUE}
  HelloLen = 1
  ReadSize = 3
  TxSize = 4
  Expiry = TRUE
  Endings = {}
INVARIANTS Armed
