CONSTANTS
  Fd <- MCFd
  Configs <- MCOneListener
  MaxIdle = 1
  Modulus = 64
  TimerEffects = {"arm", "clear", "keep"}
  Signals = {"running"}
  MaxClients = 2
  LastArrival = 1
  MaxClock = 7
  MaxLag = 1
SPECIFICATION FairSpec
PROPERTIES IdleIsClosed StopEndsTheLoop BacklogIsServed
