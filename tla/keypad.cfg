\* Keys that change at will, or one at a time; failing reads; every command.
SPECIFICATION Spec
CONSTANTS
  Waiting = Waiting
  Key = {0, 1, 2}
  Command = {"scan", "stop", "start", "boot"}
  MaxCommands = 4
INVARIANTS
  StopStops
  ViewFollowsPins
PROPERTY
  EndsOnlyByCancel
\* A keypad that is stopped, with a key that it has not seen, stays so.
CHECK_DEADLOCK FALSE
