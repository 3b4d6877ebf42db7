----------------------------- MODULE MCZtacxGps -----------------------------
(***************************************************************************)
(* A buffer that holds a sentence and most of a second.  The first place   *)
(* is sent with no complete time, so that the position is set and nobody   *)
(* told; the second differs from it in both coordinates.                   *)
(***************************************************************************)
EXTENDS ZtacxGps

CONSTANTS FirstFix, SecondFix
MCFixes == {FirstFix, SecondFix}
MCWhere == [n \in MCFixes |-> IF n = FirstFix THEN <<1, 3>> ELSE <<4, 2>>]
MCTimeless == {FirstFix}
=============================================================================
