------------------------------ MODULE ZtacxLed ------------------------------
(***************************************************************************)
(* The blinking LED (src/src/ztacx_led.c): two delayable work items, ledon *)
(* and ledoff, that schedule one another.  Nothing else keeps the LED      *)
(* going, so the chain must never lose its last link; nothing else stops   *)
(* it, so cancelling must take every link away.                            *)
(*                                                                         *)
(* Handlers run whole: they never block and the work queue's thread is     *)
(* cooperative.  The shell thread is preempted anywhere.  A delay is some  *)
(* time later: of the duty only 0, 100 and the rest are told apart.        *)
(***************************************************************************)
EXTENDS SysWorkQ, FiniteSets

CONSTANTS
  Duty,         \* the values of the duty setting
  Command,      \* the shell commands and variable writes of this instance
  MaxCommands   \* bound on them

ASSUME LedAssumption ==
  /\ 50 \in Duty /\ Duty \subseteq Nat
  /\ Command \subseteq {"on", "off", "duty", "blink", "start", "stop", "boot", "pre_sleep"}
  /\ MaxCommands \in Nat

Item == {"ledon", "ledoff"}

VARIABLES
  delayed,   \* the items waiting for their delay to expire
  queue,     \* the items waiting for the system work queue
  gpio,      \* the LED's pin
  duty,      \* setting DUTY
  blink,     \* value BLINK
  started,   \* the leaf is started and not stopped since
  listed,    \* the leaf is in the registry: ztacx_leaf_find finds it
  shell,     \* where the shell thread is in ztacx_led_stop, or "idle"
  commands   \* commands so far, for the bound MaxCommands

vars == <<delayed, queue, gpio, duty, blink, started, listed, shell, commands>>

TypeOK ==
  /\ delayed  \subseteq Item
  /\ queue    \in Seq(Item)
  /\ gpio     \in {0, 1}
  /\ duty     \in Duty
  /\ blink    \in BOOLEAN
  /\ started  \in BOOLEAN
  /\ listed   \in BOOLEAN
  /\ shell    \in {"idle", "stop_ledoff", "stop_gpio"}
  /\ commands \in 0..MaxCommands

Pending(i) == i \in delayed \/ Queued(queue, i)

\* ztacx_led_init has configured the pin low; ztacx_led_start schedules ledon
\* at once.
Init ==
  /\ delayed = {} /\ queue = <<"ledon">> /\ gpio = 0
  /\ duty \in Duty /\ blink = FALSE
  /\ started = TRUE /\ listed = TRUE /\ shell = "idle" /\ commands = 0

-----------------------------------------------------------------------------
(* The work items.                                                         *)

\* k_work_schedule with a delay: nothing happens to an item already pending.
Schedule(i) == delayed' = IF i \in delayed \/ Queued(Tail(queue), i)
                          THEN delayed ELSE delayed \cup {i}

TimerFires(i) ==
  /\ i \in delayed
  /\ delayed' = delayed \ {i}
  /\ queue'   = Submit(queue, i)
  /\ UNCHANGED <<gpio, duty, blink, started, listed, shell, commands>>

\* The work queue's thread takes item i; its handler finds its leaf or gives up.
Runs(i) ==
  /\ queue # << >> /\ Head(queue) = i
  /\ queue' = Tail(queue)
  /\ UNCHANGED <<duty, blink, started, listed, shell, commands>>

\* The item each handler schedules.  Broken variant: the duty is looked at before
\* the identification.
OnByDutyFirst == IF duty = 100 THEN "ledon" ELSE "ledoff"
AfterOn       == IF ~blink /\ duty = 100 THEN "ledon" ELSE "ledoff"
AfterOff      == IF ~blink /\ duty = 0 THEN "ledoff" ELSE "ledon"

turn_led_on ==
  /\ Runs("ledon")
  /\ IF ~listed THEN UNCHANGED <<gpio, delayed>>
     ELSE /\ gpio' = 1
          /\ Schedule(AfterOn)

\* Broken variant of turn_led_off: at duty 0 there is nothing more to do.
turn_led_off_rests ==
  /\ Runs("ledoff")
  /\ IF ~listed THEN UNCHANGED <<gpio, delayed>>
     ELSE /\ gpio' = 0
          /\ IF ~blink /\ duty = 0 THEN UNCHANGED delayed ELSE Schedule("ledon")

turn_led_off ==
  /\ Runs("ledoff")
  /\ IF ~listed THEN UNCHANGED <<gpio, delayed>>
     ELSE /\ gpio' = 0
          /\ Schedule(AfterOff)

-----------------------------------------------------------------------------
(* The shell and the writers of the LED's variables.                       *)

Commands(cmd) ==
  /\ cmd \in Command
  /\ shell = "idle" /\ commands < MaxCommands
  /\ commands' = commands + 1

\* cmd_ztacx_led on, off: k_work_reschedule without delay.
Switch(cmd, i) ==
  /\ Commands(cmd) /\ listed
  /\ delayed' = delayed \ {i}
  /\ queue'   = Submit(queue, i)
  /\ UNCHANGED <<gpio, duty, blink, started, listed, shell>>

\* The duty setting.
SetDuty(d) ==
  /\ Commands("duty")
  /\ duty' = d
  /\ UNCHANGED <<delayed, queue, gpio, blink, started, listed, shell>>

SetBlink ==
  /\ Commands("blink")
  /\ blink' = ~blink
  /\ UNCHANGED <<delayed, queue, gpio, duty, started, listed, shell>>

\* "ztacx boot" empties the registry.
Unlist ==
  /\ Commands("boot")
  /\ listed' = FALSE
  /\ UNCHANGED <<delayed, queue, gpio, duty, blink, started, shell>>

\* ztacx_led_stop cancels ledon ...
Stop ==
  /\ Commands("stop") /\ listed
  /\ delayed' = delayed \ {"ledon"}
  /\ queue'   = Withdraw(queue, "ledon")
  /\ shell'   = "stop_ledoff"
  /\ UNCHANGED <<gpio, duty, blink, started, listed>>

\* ... then ledoff ...
StopLedoff ==
  /\ shell = "stop_ledoff"
  /\ delayed' = delayed \ {"ledoff"}
  /\ queue'   = Withdraw(queue, "ledoff")
  /\ shell'   = "stop_gpio"
  /\ UNCHANGED <<gpio, duty, blink, started, listed, commands>>

\* ... and puts the LED out.
StopGpio ==
  /\ shell = "stop_gpio"
  /\ gpio'    = 0
  /\ shell'   = "idle"
  /\ started' = FALSE
  /\ UNCHANGED <<delayed, queue, duty, blink, listed, commands>>

\* ztacx_led_start on items that are not pending.  (Re-initialising an item the
\* kernel still holds is undefined and not modelled further.)
Start ==
  /\ Commands("start") /\ listed
  /\ \A i \in Item : ~Pending(i)
  /\ queue'   = Submit(queue, "ledon")
  /\ started' = TRUE
  /\ UNCHANGED <<delayed, gpio, duty, blink, listed, shell>>

\* ztacx_led_pre_sleep puts the LED out and leaves the work items as they are.
PreSleep ==
  /\ Commands("pre_sleep") /\ listed
  /\ gpio' = 0
  /\ UNCHANGED <<delayed, queue, duty, blink, started, listed, shell>>

-----------------------------------------------------------------------------
Next ==
  \/ \E i \in Item : TimerFires(i)
  \/ turn_led_on \/ turn_led_off
  \/ Switch("on", "ledon") \/ Switch("off", "ledoff")
  \/ \E d \in Duty : SetDuty(d)
  \/ SetBlink \/ Unlist
  \/ Stop \/ StopLedoff \/ StopGpio \/ Start \/ PreSleep

Spec == Init /\ [][Next]_vars

\* Delays expire, the work queue serves its items, the shell thread gets on.
FairSpec ==
  /\ Spec
  /\ \A i \in Item : WF_vars(TimerFires(i))
  /\ WF_vars(turn_led_on) /\ WF_vars(turn_led_off)
  /\ WF_vars(StopLedoff) /\ WF_vars(StopGpio)

-----------------------------------------------------------------------------
(* Properties.                                                             *)

\* The chain never loses its last link: as long as the leaf is started, found
\* and not being stopped, one of the two items is pending, whatever commands
\* and writes fall between the handlers.
ChainAlive == started /\ listed /\ shell = "idle" => \E i \in Item : Pending(i)

\* The LED comes to rest dark when the duty stays 0, and lit when it stays 100,
\* whatever was pending when the setting changed; with any other duty, or with
\* identification on, it blinks for ever.
SettlesDark == <>[](duty = 0 /\ ~blink /\ listed)   => <>[](gpio = 0)
SettlesLit  == <>[](duty = 100 /\ ~blink /\ listed /\ started) => <>[](gpio = 1)
KeepsBlinking ==
  <>[](listed /\ started /\ (blink \/ duty \notin {0, 100})) => []<>(gpio = 0) /\ []<>(gpio = 1)

FollowsDuty == SettlesDark /\ SettlesLit /\ KeepsBlinking

=============================================================================
