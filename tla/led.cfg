\* Every command and write, stop and start included.
SPECIFICATION FairSpec
CONSTANTS
  Duty = {0, 50, 100}
  Command = {"on", "off", "duty", "blink", "start", "stop", "boot", "pre_sleep"}
  MaxCommands = 4
INVARIANTS
  ChainAlive
PROPERTIES
  FollowsDuty
\* A LED that is stopped, or not in the registry, stays still.
CHECK_DEADLOCK FALSE
