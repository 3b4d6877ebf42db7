--------------------------- MODULE MCZtacxLeaves ----------------------------
(***************************************************************************)
(* Small instances of ZtacxLeaves: a LED (whose class has a stop           *)
(* callback), a keypad and the settings leaf (whose classes have none).    *)
(***************************************************************************)
EXTENDS ZtacxLeaves

CONSTANTS led, kp, settings

=============================================================================
