SPECIFICATION DevSpec
CONSTANTS
  POLL_INTERVAL = 3
  RXBUF = 3
  DISK_DELAY = 2
  NSEC = 1
  ILIMIT = 9
  TXTIME = 2
  Uses = {{"timer"}}
INVARIANT TimerOnTime
CHECK_DEADLOCK FALSE
