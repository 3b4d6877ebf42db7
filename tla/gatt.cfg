\* The stack ready at every moment of the registrations; writes beside local stores.
SPECIFICATION GattSpec
CONSTANTS
  Service = {default, own}
  Default = default
  Array <- ArrayMC
  Described = {"full"}
  Notifying = {"full"}
  Unhandled = {"event"}
  Missing = {"unfound"}
  Foldings = {TRUE, FALSE}
  NULL = NULL
  Kind = {"byte", "uint16", "int16", "int32", "int64"}
  Byte = {0, 1}
  Write <- WriteMC
  Local <- LocalMC
  MaxStores = 2
  MaxWrites = 1
INVARIANTS
  StackKnowsService
  ObserverCatchesUp
PROPERTY
  WritesAreWhole
CHECK_DEADLOCK FALSE
