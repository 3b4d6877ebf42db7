---------------------------- MODULE MCZtacxBtGatt ----------------------------
(***************************************************************************)
(* A small instance of ZtacxBtGatt: the default service and one of the     *)
(* application's, two arrays of characteristics, a variable of each kind   *)
(* in turn, written whole, in part, and too far.                           *)
(***************************************************************************)
EXTENDS ZtacxBtGatt

ArrayMC == {<<"unfound", "full">>, <<"plain", "event">>}

WriteMC == {<<0, <<1>>>>, <<1, <<1>>>>, <<1, <<1, 1>>>>}

LocalMC == [k \in Kind |-> {[Zero(Width[k]) EXCEPT ![Width[k]] = 1]}]

=============================================================================
