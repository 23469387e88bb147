CONSTANTS
  Fd <- MCFd
  Configs <- MCOneListener
  MaxIdle = 2
  Modulus = 8
  TimerEffects = {"arm"}
  Signals = {}
  MaxClients = 1
  LastArrival = 8
  MaxClock = 10
  MaxLag = 1
SPECIFICATION Spec
PROPERTIES NoEarlyTimeout
