--------------------------- MODULE MCZtacxLedStrip ---------------------------
(***************************************************************************)
(* A small instance of ZtacxLedStrip: the strip with one pixel, and the    *)
(* position after it, or the speaker and the dimmable LED.                 *)
(***************************************************************************)
EXTENDS ZtacxLedStrip

FittedMC == {{"strip"}, {"spkr", "pwmled"}}

=============================================================================
