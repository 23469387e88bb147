SPECIFICATION FairSpec
CONSTANTS
  Scripts <- AllScripts
  MaxRequests = 3
  FileLen = 3
  Transports = {TRUE, FALSE}
  HelloLen = 2
  ReadSize = 3
  TxSize = 2
  Expiry = FALSE
  Endings = {"finished"}
PROPERTIES AllAnswered
