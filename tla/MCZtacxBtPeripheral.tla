------------------------ MODULE MCZtacxBtPeripheral -------------------------
(***************************************************************************)
(* Small instances of ZtacxBtPeripheral.                                   *)
(***************************************************************************)
EXTENDS ZtacxBtPeripheral

CONSTANTS first, second

=============================================================================
