\* Settings and LoRaWAN: boot in both orders, sets that fail or fall into the
\* boot's load, restarts, starts by command.
SPECIFICATION LorawanFairSpec
CONSTANTS
  Setting <- SettingMC
  String <- KeysMC
  Content <- ContentMC
  Length <- LengthMC
  Width <- WidthMC
  Default <- DefaultMC
  NULL = NULL
  Garbage = Garbage
  FirstFlash <- FirstFlashMC
  Place <- PlaceMC
  Typed <- TypedMC
  Starved = {"dev_eui"}
  MaxSets = 2
  MaxRestarts = 1
  Yes = yes
  Key <- KeysMC
  KeyLength <- KeyLengthMC
  Retries = {0, 2}
  MaxStarts = 1
  yes = yes
  no = no
  eui = eui
  eui2 = eui2
  key = key
  addr = addr
  empty = empty
  word = word
INVARIANTS
  MemoryIsFlash
  AcrossRestart
  
PROPERTIES
  ConfigStays
  SavedConfigIsUsed
  BootGoesOn
\* The boot ends, and nobody has to type anything.
CHECK_DEADLOCK FALSE
