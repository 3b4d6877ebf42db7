\* Two sensors on the work queue, readings by command at any moment, failures.  A
\* start of an item the kernel holds may fault: the firmware stops.
SPECIFICATION SensorsFairSpec
CONSTANTS
  Sensor <- SensorMC
  Retrying = {"battery"}
  Flagged = {"temp"}
  Paired = {"battery", "lidar"}
  Unless = {"lidar"}
  Working <- WorkingMC
  Marker <- MarkerMC
  Derived <- DerivedMC
  Reading <- ReadingMC
  Preset <- PresetMC
  Thresholds <- ThresholdsMC
  Signed = {"temp"}
  Half = 2
  Boot <- BootMC
  NULL = NULL
INVARIANTS
  OnlyFailureSilences
  PublishedIsClose
  PairsAgree
PROPERTIES
  NeverSilent
CHECK_DEADLOCK FALSE
