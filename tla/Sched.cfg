SPECIFICATION Spec
CONSTANTS
  Procs = {p1, p2}
  boot = boot
  head = head
  null = null
  Sends = {34, 63}
  Garbage <- GarbageSets
  MaxSends = 1
CHECK_DEADLOCK FALSE
INVARIANTS TypeOK RingSound BootStaysPreemptible
PROPERTIES NoReadyMissed HandlersDoNotFault WalksEnd
