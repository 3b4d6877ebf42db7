\* The interrupt between any two statements of gps_loop; the buffer nearly full; the loop behind.
SPECIFICATION GpsSpec
CONSTANTS
  Size = 16
  Spare = 2
  LineSize = 8
  FirstFix = 1
  SecondFix = 2
  Fixes <- MCFixes
  Where <- MCWhere
  Timeless <- MCTimeless
  Threshold = 2
  MaxSentences = 3
INVARIANTS
  BufferEnds
  ToldWasSent
CHECK_DEADLOCK FALSE
