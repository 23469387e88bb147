SPECIFICATION Spec
CONSTANTS
  Scripts <- AllScripts
  MaxRequests = 2
  FileLen = 3
  Transports = {TRUE, FALSE}
  HelloLen = 2
  ReadSize = 3
  TxSize = 2
  Expiry = TRUE
  Endings = {"finished", "reset"}
INVARIANTS TypeOK CleanBetweenRequests NoLostEdge ArmedIfPlain
PROPERTIES Implements CloseIsDeserved
