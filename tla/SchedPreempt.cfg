SPECIFICATION Spec
CONSTANTS
  Procs = {p1}
  boot = boot
  head = head
  null = null
  Sends = {2, 3, 34, 63}
  Garbage <- ClearWords
  MaxSends = 2
CHECK_DEADLOCK FALSE
INVARIANT UserIsPreemptible
