CONSTANTS
  Fd <- MCFd
  Configs <- MCOneListener
  MaxIdle = 1
  Modulus = 64
  TimerEffects = {"arm"}
  Signals = {"starting", "running"}
  MaxClients = 1
  LastArrival = 1
  MaxClock = 3
  MaxLag = 1
SPECIFICATION FairSpec
PROPERTIES StopIsNeverLost
