\* Boot, and every lifecycle command of the shell from the first init callback on.
SPECIFICATION FairSpec
CONSTANTS
  led = led  kp = kp  settings = settings
  Leaf = {led, kp, settings}
  HasStop = {led}
  NULL = NULL
  Command = {"boot", "init", "start", "stop", "status", "power_off"}
  MaxAppends = 3
INVARIANTS
  RegistryIsList
  WalksEnd
  AllSleptBeforeOff
PROPERTY
  PowerOffCompletes
\* The system stops for good when it is switched off or faults.
CHECK_DEADLOCK FALSE
