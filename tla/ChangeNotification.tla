------------------------- MODULE ChangeNotification -------------------------
(***************************************************************************)
(* What a ztacx variable promises to the observer installed on it (the     *)
(* on_change comment of struct ztacx_variable, src/include/ztacx.h):       *)
(* however values are written and by whom, the observer goes on to read    *)
(* the current value.  Intermediate values may be skipped; the last one    *)
(* may not.                                                                *)
(***************************************************************************)
EXTENDS Naturals

CONSTANT Var

VARIABLES
  value,   \* variable -> current value
  hooked,  \* variables that have an observer
  seen     \* variable -> the value its observer read last

avars == <<value, hooked, seen>>

Init ==
  /\ value \in [Var -> Nat]
  /\ hooked = {}
  /\ seen = value

Write(v) ==
  /\ value'[v] \in Nat
  /\ value' = [value EXCEPT ![v] = value'[v]]
  /\ UNCHANGED <<hooked, seen>>

\* An observer is installed once; it is owed the changes from now on.
Hook(v) ==
  /\ v \notin hooked
  /\ hooked' = hooked \cup {v}
  /\ seen' = [seen EXCEPT ![v] = value[v]]
  /\ UNCHANGED value

\* The observer reads the current value, never an older one.
Deliver(v) ==
  /\ v \in hooked
  /\ seen' = [seen EXCEPT ![v] = value[v]]
  /\ UNCHANGED <<value, hooked>>

Next == \E v \in Var : Write(v) \/ Hook(v) \/ Deliver(v)

Spec == Init /\ [][Next]_avars /\ \A v \in Var : WF_avars(Deliver(v))

=============================================================================
