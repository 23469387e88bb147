SPECIFICATION TablesSpec
CONSTANTS
  Modulus = 256
  Signed = FALSE
  Min = 1
  Max = 24
  MaxLen = 5
  MaxMoreChars = 5
  MaxHosts = 3
  MaxTypeChars = 6
  MaxHeaders = 4
  MaxEntries = 5
CHECK_DEADLOCK FALSE
INVARIANTS NumbersAreRead ConfigurationIsRead HostsAreFound TypesAreFound StoreKeepsHeaders DirectoriesAreListed
