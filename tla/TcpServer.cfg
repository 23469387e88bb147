CONSTANTS
  Fd <- MCFdLarge
  Configs <- MCConfigs
  MaxIdle = 2
  Modulus = 64
  TimerEffects = {"arm", "clear", "keep"}
  Signals = {"running"}
  MaxClients = 2
  LastArrival = 2
  MaxClock = 4
  MaxLag = 1
SPECIFICATION Spec
INVARIANTS TypeOK TimersAreOwned DescriptorsAgree EventsReachTheirClient
PROPERTIES NoneOverdue NoEarlyTimeout
