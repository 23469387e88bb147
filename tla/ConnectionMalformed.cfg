SPECIFICATION Spec
CONSTANTS
  Scripts <- MalformedScripts
  MaxRequests = 3
  FileLen = 2
  Transports = {FALSE}
  HelloLen = 1
  ReadSize = 3
  TxSize = 4
  Expiry = FALSE
  Endings = {}
INVARIANTS OneReplyPerRequest
