----------------------------- MODULE ZtacxKeypad -----------------------------
(***************************************************************************)
(* The keypad scanner (src/src/ztacx_kp.c) and the application that waits  *)
(* for its events (main of src/samples/bt_keypad/bt_keypad.c).             *)
(*                                                                         *)
(* One delayable work item scans the keys over I2C and schedules itself    *)
(* again; nothing else keeps the scan going.  The handler blocks in the    *)
(* I2C transfer, where the shell can run; after the transfer it runs to    *)
(* its end (the work queue's thread is cooperative), so that the           *)
(* application receives at most one of the events of a scan: k_event_set   *)
(* wakes it with the first, and its next wait forgets the others.          *)
(***************************************************************************)
EXTENDS Naturals, FiniteSets, FiniteSetsExt

CONSTANTS
  Key,           \* the keys' bits, as numbers: the handler goes through them in order
  Waiting,       \* the application is in its wait, as opposed to handling an event
  Command,       \* the shell commands of this instance
  MaxCommands    \* bound on them

ASSUME KeypadAssumption ==
  /\ Key \subseteq 0..7
  /\ Waiting \notin [press : BOOLEAN, key : Key]
  /\ Command \subseteq {"scan", "stop", "start", "boot"}
  /\ MaxCommands \in Nat

VARIABLES
  one,       \* do the keys change one at a time, slower than the scan and the application?
  held,      \* the keys held down
  pins,      \* value PINS: the keys down at the last successful scan
  scan,      \* the kernel's flags of the scan work item
  main,      \* the event the application is handling, or Waiting
  view,      \* the keys down by the events the application received (auxiliary)
  started,   \* scanning was asked for last, not stopping
  listed,    \* the leaf is in the registry: ztacx_leaf_find finds it
  commands   \* commands so far, for the bound MaxCommands

vars == <<one, held, pins, scan, main, view, started, listed, commands>>

Flag  == {"delayed", "queued", "running", "canceling"}
Event == [press : BOOLEAN, key : Key]

TypeOK ==
  /\ one \in BOOLEAN /\ held \subseteq Key /\ pins \subseteq Key
  /\ scan \subseteq Flag
  /\ main \in Event \cup {Waiting}
  /\ view \subseteq Key
  /\ started \in BOOLEAN /\ listed \in BOOLEAN
  /\ commands \in 0..MaxCommands

\* After ztacx_kp_start.
Init ==
  /\ one \in BOOLEAN /\ held = {} /\ pins = {}
  /\ scan = {"queued"} /\ started = TRUE /\ listed = TRUE
  /\ main = Waiting /\ view = {} /\ commands = 0

-----------------------------------------------------------------------------
(* Delayable work, as the flags a call finds and the flags it leaves.      *)

\* k_work_schedule with a delay: only an item that is idle or running.
Schedule(f) == IF f \subseteq {"running"} THEN f \cup {"delayed"} ELSE f

\* k_work_cancel_delayable: a running handler goes on, and until it returns the
\* item is being cancelled.
Cancel(f) == IF "running" \in f THEN {"running", "canceling"} ELSE {}

\* k_work_reschedule without delay: not while the item is being cancelled.
SubmitNow(f) == IF "canceling" \in f THEN f \ {"delayed"}
                ELSE (f \ {"delayed"}) \cup {"queued"}

\* A handler has returned: a cancellation is complete with it.
Returned(f) == f \ {"running", "canceling"}

-----------------------------------------------------------------------------
(* The keys and the scan.                                                  *)

Touch(k) ==
  /\ one => pins = held /\ main = Waiting /\ "running" \notin scan
  /\ held' = IF k \in held THEN held \ {k} ELSE held \cup {k}
  /\ UNCHANGED <<one, pins, scan, main, view, started, listed, commands>>

TimerFires ==
  /\ "delayed" \in scan
  /\ scan' = (scan \ {"delayed"}) \cup {"queued"}
  /\ UNCHANGED <<one, held, pins, main, view, started, listed, commands>>

\* kp_scan is entered, finds its leaf and waits for the bus.  A leaf that is not in the
\* registry any more is not found: the scan returns and is not scheduled again.
ScanBegins ==
  /\ "queued" \in scan /\ "running" \notin scan
  /\ scan' = IF listed THEN (scan \ {"queued"}) \cup {"running"} ELSE scan \ {"queued"}
  /\ UNCHANGED <<one, held, pins, main, view, started, listed, commands>>

\* The keys _kp_read finds down: their bits are 0.
KeysDown == held

\* Broken variant of Receives: a bit that is 1 is taken for a key that is down.
ReceivesInverted(new) ==
  LET changed == (new \ pins) \cup (pins \ new)
      first   == Min(changed)
  IN  IF main = Waiting /\ changed # {}
      THEN main' = [press |-> first \notin new, key |-> first]
      ELSE UNCHANGED main

\* What the application receives of the events for the keys that changed to new.
Receives(new) ==
  LET changed == (new \ pins) \cup (pins \ new)
      first   == Min(changed)
  IN  IF main = Waiting /\ changed # {}
      THEN main' = [press |-> first \in new, key |-> first]
      ELSE UNCHANGED main

\* Broken variants of ScanEnds: a failed read returns at once; the scan is
\* rescheduled (which a cancellation in progress does not refuse).
ScanEndsOnError ==
  /\ "running" \in scan
  /\ \/ Receives(KeysDown) /\ pins' = KeysDown /\ scan' = Returned(Schedule(scan))
     \/ scan' = Returned(scan) /\ UNCHANGED <<main, pins>>
  /\ UNCHANGED <<one, held, view, started, listed, commands>>
ScanEndsRescheduled ==
  /\ "running" \in scan
  /\ \/ Receives(KeysDown) /\ pins' = KeysDown
     \/ UNCHANGED <<main, pins>>
  /\ scan' = Returned(scan \cup {"delayed"})
  /\ UNCHANGED <<one, held, view, started, listed, commands>>

\* The transfer is over.  A failed read changes nothing; either way the scan is
\* scheduled again.
ScanEnds ==
  /\ "running" \in scan
  /\ \/ Receives(KeysDown) /\ pins' = KeysDown
     \/ UNCHANGED <<main, pins>>
  /\ scan' = Returned(Schedule(scan))
  /\ UNCHANGED <<one, held, view, started, listed, commands>>

\* The application reports the key and waits again, whether or not there is a
\* connection to notify.
MainReports ==
  /\ main # Waiting
  /\ view' = IF main.press THEN view \cup {main.key} ELSE view \ {main.key}
  /\ main' = Waiting
  /\ UNCHANGED <<one, held, pins, scan, started, listed, commands>>

-----------------------------------------------------------------------------
(* cmd_ztacx_kp and cmd_ztacx_boot, on the shell's thread.                 *)

Typed(cmd) ==
  /\ cmd \in Command /\ commands < MaxCommands
  /\ commands' = commands + 1
  /\ UNCHANGED <<one, held, pins, main, view>>

\* The keypad's own command needs the leaf in the registry as well.
TypedKp(cmd) == Typed(cmd) /\ listed /\ UNCHANGED listed

\* "scan": cancel, then reschedule without delay.
ScanNow ==
  /\ TypedKp("scan")
  /\ scan' = SubmitNow(Cancel(scan))
  /\ started' = TRUE

\* ztacx_kp_stop
Stop ==
  /\ TypedKp("stop")
  /\ scan' = Cancel(scan)
  /\ started' = FALSE

\* ztacx_kp_start on an idle item.  (Re-initialising an item the kernel still
\* holds is undefined and not modelled further.)
Start ==
  /\ TypedKp("start") /\ scan = {}
  /\ scan' = {"queued"}
  /\ started' = TRUE

\* "ztacx boot" empties the registry.
Boot ==
  /\ Typed("boot")
  /\ listed' = FALSE
  /\ UNCHANGED <<scan, started>>

-----------------------------------------------------------------------------
Next ==
  \/ \E k \in Key : Touch(k)
  \/ TimerFires \/ ScanBegins \/ ScanEnds
  \/ MainReports
  \/ ScanNow \/ Stop \/ Start \/ Boot

Spec == Init /\ [][Next]_vars

-----------------------------------------------------------------------------
(* Properties.                                                             *)

\* While scanning is wanted, the scan work item is pending or running: nothing
\* else would ever look at the keys again ("Doing immediate scan",
\* src/src/ztacx_kp.c:230).
ScanAlive == started => scan # {}

\* Scanning ends only by being cancelled or with the keypad's place in the registry,
\* whatever reads fail and whatever events the application misses: no scan of a listed
\* keypad is the one that forgets to go on (kp_scan).
EndsOnlyByCancel ==
  [][scan # {} /\ scan' = {} => ~started' \/ ~listed \/ "canceling" \in scan]_vars

\* A stop is final also when it falls in the middle of a scan: once that scan
\* has returned, nothing is left that would start another.
StopStops == ~started => scan \subseteq {"running", "canceling"}

\* When the keys change one at a time, slower than the scan and the application,
\* what the application was told adds up to the keys' state: no press is
\* reported twice, no release is missing (a key stuck for the host), whatever
\* reads fail and whatever is stopped, started and scanned in between.
ViewFollowsPins == one /\ main = Waiting => view = pins

=============================================================================
