SPECIFICATION FairSpec
CONSTANTS
  Host <- MCHost
  Us <- MCUs
  None = None
  RX_N = 1
  ARP_N = 1
  Count = 2
  Wait = 1
  Pause = 1
  MaxPings = 2
  MaxAir = 1
INVARIANTS CacheSound CountedWasAnswered
PROPERTY PingEnds
