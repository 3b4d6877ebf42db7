----------------------------- MODULE ZtacxBtGatt -----------------------------
(***************************************************************************)
(* Reading and writing a ztacx variable as a Bluetooth characteristic      *)
(* (bt_read_variable and bt_write_variable of                              *)
(* src/src/ztacx_bt_peripheral.c), beside the services of                  *)
(* ZtacxBtServices, all in one firmware.                                   *)
(*                                                                         *)
(* The characteristic is one of a service defined at compile time: those   *)
(* of ztacx_bt_characteristic_register hand the variable itself to         *)
(* functions that expect the address of a pointer to it, so that touching  *)
(* one is undefined.                                                       *)
(*                                                                         *)
(* A central reads, and writes a few bytes at an offset.  The handler      *)
(* fetches the value into a temporary, overwrites bytes and stores it, in  *)
(* the Bluetooth thread, with other threads storing values between.  An    *)
(* observer hooked to the variable reads it on the work queue.             *)
(***************************************************************************)
EXTENDS ZtacxBtServices, Integers

CONSTANTS
  Kind,       \* kinds of value: members of DOMAIN Width
  Byte,       \* the bytes
  Write,      \* what centrals write: <<offset, bytes>>
  Local,      \* kind -> the values the program stores
  MaxStores,  \* bound on local stores
  MaxWrites   \* bound on writes

\* Bytes in a value, and how far a write may reach.
Width == [bool |-> 1, byte |-> 1, uint16 |-> 2, int16 |-> 2, int32 |-> 4, int64 |-> 8]
Limit(k) == IF k = "byte" THEN 2 ELSE Width[k]

ASSUME GattAssumption ==
  /\ Kind \subseteq DOMAIN Width
  /\ 0 \in Byte
  /\ Write \subseteq Nat \X Seq(Byte)
  /\ \A k \in Kind : Local[k] \subseteq [1..Width[k] -> Byte]
  /\ MaxStores \in Nat /\ MaxWrites \in Nat

Zero(n) == [i \in 1..n |-> 0]

VARIABLES
  kind,      \* the kind of the variable
  value,     \* its bytes
  write,     \* the write in progress, or << >>
  stages,    \* the cases of the switch still to run for it
  temp,      \* the temporary, fetched and overwritten, or << >>
  pending,   \* the observer is waiting for the work queue
  seen,      \* the value the observer has read
  got,       \* what a central has read last, or << >>
  possible,  \* what the value may be once no write is at work (auxiliary)
  clash,     \* the program stored a value while a write was at work (auxiliary)
  stores, writes   \* how many so far, for the bounds

attribute == <<kind, value, write, stages, temp, pending, seen, got, possible, clash, stores, writes>>
gattVars  == <<attribute, gattState>>

GattTypeOK ==
  /\ ServicesTypeOK
  /\ kind \in Kind
  /\ value  \in [1..Width[kind] -> Byte]
  /\ write  \in Write \cup {<< >>}
  /\ stages \in Seq(DOMAIN Width)
  /\ temp   \in {<< >>} \cup [1..Width[kind] -> Byte]
  /\ pending \in BOOLEAN
  /\ seen   \in [1..Width[kind] -> Byte]
  /\ got    \in {<< >>} \cup [1..Width[kind] -> Byte]
  /\ possible \subseteq [1..Width[kind] -> Byte]
  /\ clash  \in BOOLEAN
  /\ stores \in 0..MaxStores /\ writes \in 0..MaxWrites

GattInit ==
  /\ ServicesInit
  /\ kind \in Kind
  /\ value = Zero(Width[kind]) /\ seen = value /\ possible = {value}
  /\ write = << >> /\ stages = << >> /\ temp = << >> /\ got = << >>
  /\ pending = FALSE /\ clash = FALSE
  /\ stores = 0 /\ writes = 0

-----------------------------------------------------------------------------
\* v with the bytes b from offset o on; what lies beyond it is lost.
Patch(v, o, b) == [i \in DOMAIN v |-> IF i - o \in DOMAIN b THEN b[i - o] ELSE v[i]]

\* The case for int16 goes on into that for int32, and that into int64, which goes on
\* into the error.
Cases(k) ==
  CASE k = "int16" -> <<"int16", "int32", "int64">>
    [] k = "int32" -> <<"int32", "int64">>
    [] OTHER       -> <<k>>

\* The temporary of the case int32 has 16 bits.  (The bytes written past its end go
\* somewhere else: what they do there is undefined, and not modelled.)
Narrow(c, v) == [i \in DOMAIN v |-> IF c = "int32" /\ i > 2 THEN 0 ELSE v[i]]

\* What the write at work, undisturbed, makes of the value v.
Left(v) == IF kind = "int64" THEN v ELSE Narrow(kind, Patch(v, write[1], write[2]))

\* What it may leave.
Outcomes == IF clash THEN possible ELSE {Left(v) : v \in possible}

\* A write that reaches too far is refused.
Begin(w) ==
  /\ ready = "ok"
  /\ write = << >> /\ writes < MaxWrites
  /\ writes' = writes + 1
  /\ IF w[1] + Len(w[2]) > Limit(kind)
     THEN UNCHANGED <<write, stages>>
     ELSE write' = w /\ stages' = Cases(kind)
  /\ UNCHANGED <<kind, value, temp, pending, seen, possible, clash, got, stores, gattState>>

\* Broken variant: the case int64 done as the others are.
OverwritePlain ==
  /\ stages # << >> /\ temp = << >>
  /\ temp' = Narrow(Head(stages), Patch(value, write[1], write[2]))
  /\ UNCHANGED <<kind, value, write, stages, pending, seen, possible, clash, got, stores, writes, gattState>>

\* The value is fetched and overwritten, for int64 the other way about: the variable
\* gets the bytes and the temporary keeps what it had.
Overwrite ==
  /\ stages # << >> /\ temp = << >>
  /\ IF Head(stages) = "int64"
     THEN temp' = value /\ value' = Patch(value, write[1], write[2])
     ELSE temp' = Narrow(Head(stages), Patch(value, write[1], write[2])) /\ UNCHANGED value
  /\ UNCHANGED <<kind, write, stages, pending, seen, possible, clash, got, stores, writes, gattState>>

\* Broken variant: stored without ztacx_variable_value_set.
PutQuietly ==
  /\ temp # << >>
  /\ value' = temp
  /\ temp' = << >> /\ stages' = Tail(stages)
  /\ UNCHANGED <<kind, write, pending, seen, possible, clash, got, stores, writes, gattState>>

\* ztacx_variable_value_set, with the observer hooked to the variable.
Put ==
  /\ temp # << >>
  /\ value' = temp /\ pending' = TRUE
  /\ temp' = << >> /\ stages' = Tail(stages)
  /\ UNCHANGED <<kind, write, seen, possible, clash, got, stores, writes, gattState>>

\* len for the kinds that are accepted, an error for the others.
Answer ==
  /\ write # << >> /\ stages = << >>
  /\ write' = << >>
  /\ possible' = Outcomes /\ clash' = FALSE
  /\ UNCHANGED <<kind, value, stages, temp, pending, seen, got, stores, writes, gattState>>

\* Another thread stores a value.  A write at work may do its part before it, after
\* it, or have fetched the value before and store over it.
LocalStore(v) ==
  /\ stores < MaxStores
  /\ stores' = stores + 1
  /\ value' = v /\ pending' = TRUE
  /\ possible' = IF write = << >> THEN {v} ELSE Outcomes \cup {v, Left(v)}
  /\ clash' = (write # << >>)
  /\ UNCHANGED <<kind, write, stages, temp, seen, got, writes, gattState>>

Observe ==
  /\ pending
  /\ pending' = FALSE /\ seen' = value
  /\ UNCHANGED <<kind, value, write, stages, temp, possible, clash, got, stores, writes, gattState>>

\* bt_read_variable, from offset 0 only.  The Bluetooth thread serves one request at a
\* time.
Read ==
  /\ ready = "ok" /\ write = << >>
  /\ got' = value
  /\ UNCHANGED <<kind, value, write, stages, temp, pending, seen, possible, clash, stores, writes, gattState>>

AttributeNext ==
  \/ \E w \in Write : Begin(w)
  \/ \E v \in Local[kind] : LocalStore(v)
  \/ Overwrite \/ Put \/ Answer \/ Read \/ Observe

GattNext == AttributeNext \/ (ServicesNext /\ UNCHANGED attribute)

GattSpec == GattInit /\ [][GattNext]_gattVars

-----------------------------------------------------------------------------
(* Properties.                                                             *)

\* What a central reads is what whole writes and whole stores leave, whatever the
\* handler does on the way: a write keeps the bytes it does not name (but for those
\* an int32 loses), a write of an int64 changes nothing, and one of int16 or int32,
\* though refused, goes through every case it falls into and is done as if once.  A
\* store of the program between its steps is the value, is written over, or is lost,
\* but never mixed with what was there before.
WritesAreWhole == [][got' # got => got' \in possible]_gattVars

\* The observer ends up with the value, also with what a refused write leaves, and
\* after the bytes that the case int64 shows for a while.
ObserverCatchesUp == write = << >> /\ ~pending => seen = value

=============================================================================
