----------------------------- MODULE MCZtacxLed -----------------------------
(***************************************************************************)
(* Small instances of ZtacxLed; all its parameters are numbers and names.  *)
(***************************************************************************)
EXTENDS ZtacxLed

=============================================================================
