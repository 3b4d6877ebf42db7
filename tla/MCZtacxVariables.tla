-------------------------- MODULE MCZtacxVariables --------------------------
(***************************************************************************)
(* Small instances of ZtacxVariables.                                      *)
(***************************************************************************)
EXTENDS ZtacxVariables

CONSTANTS peak, alert, samples,          \* variables
          on_peak, on_alert, ims_work,   \* work items
          main, shell

=============================================================================
