---------------------------- MODULE MCShockAlert -----------------------------
(***************************************************************************)
(* Small instances of ShockAlert; all its parameters are numbers.          *)
(***************************************************************************)
EXTENDS ShockAlert

=============================================================================
