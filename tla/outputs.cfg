\* Tones and lights begun without end; a strip drawn by commands and by variables.
SPECIFICATION FairSpec
CONSTANTS
  Fitted <- FittedMC
  Thread = {"app", "shell"}
  MaxLevel = 1
  Pixels = 1
  Color = {"black", "red"}
  Black = "black"
  Name = {"red", "unknown"}
  NULL = NULL
INVARIANTS
  OnHasAnEnd
  ShowsPicture
  ColorLands
PROPERTIES
  DrawnIsSent
