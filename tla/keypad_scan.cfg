\* "scan" typed while a scan is waiting for the bus.
SPECIFICATION Spec
CONSTANTS
  Waiting = Waiting
  Key = {0, 1, 2}
  Command = {"scan"}
  MaxCommands = 1
INVARIANT
  ScanAlive
