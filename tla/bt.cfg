\* Two registrations, every command, failed starts, names and connections.
SPECIFICATION FairSpec
CONSTANTS
  first = first
  second = second
  NoData = NoData
  Data = {first, second}
  Command = {"name", "advertise", "advertise_stop"}
  MaxCommands = 2
INVARIANTS
  FlagFollowsRadio
  AirIsRegistered
PROPERTY
  AdvertisesEventually
\* A peripheral nobody connects to stays as it is.
CHECK_DEADLOCK FALSE
