------------------------------ MODULE ZtacxPwm ------------------------------
(***************************************************************************)
(* The speaker and the dimmable LED (src/src/ztacx_spkr.c,                 *)
(* src/src/ztacx_pwmled.c).  Each is a PWM channel switched on by whoever  *)
(* calls, and off by a delayable item on the system work queue, which is   *)
(* the only thing that ends a tone or a light.                             *)
(*                                                                         *)
(* The handlers run whole: they do not block and the work queue's thread   *)
(* is cooperative.  The callers are preempted anywhere.  Of a duty, a      *)
(* volume and a frequency a level is kept, of a duration that it ends.     *)
(***************************************************************************)
EXTENDS SysWorkQ, Integers, FiniteSets

CONSTANTS
  Fitted,    \* the sets of outputs a board may have: subsets of {"spkr", "pwmled", "strip"}
  Thread,    \* the threads that call: the application's, the shell's
  MaxLevel   \* 100 percent

ASSUME PwmAssumption ==
  /\ Fitted \subseteq SUBSET {"spkr", "pwmled", "strip"}
  /\ MaxLevel \in Nat \ {0}

Channel == {"spkr", "pwmled"}
Off     == [spkr |-> "spkroff", pwmled |-> "pwmledoff"]
Item    == {"spkroff", "pwmledoff", "refresh", "cursor", "color"}
Level   == 0..MaxLevel

VARIABLES
  fitted,    \* the outputs this board has
  delayed,   \* the items waiting for their delay to expire
  queue,     \* the items waiting for the system work queue
  blocked,   \* the work queue's thread is blocked in a handler (not one of these)
  level,     \* channel -> what its PWM is set to, 0 for off
  volume,    \* spkr_vol
  duty,      \* pwmled_duty_value
  value,     \* pwmled_value: the LED is taken to be on
  at,        \* thread -> where it is in a call
  channel,   \* thread -> the channel it has switched on
  adrift     \* the LED was adjusted when it had gone off, and is on without an end (auxiliary)

workq   == <<delayed, queue, blocked>>
caller  == <<at, channel>>
pwmVars == <<fitted, workq, level, volume, duty, value, caller, adrift>>

PwmTypeOK ==
  /\ fitted  \in Fitted
  /\ delayed \subseteq Item
  /\ queue   \in Seq(Item)
  /\ blocked \in BOOLEAN
  /\ level   \in [Channel -> Level]
  /\ volume  \in Level
  /\ duty    \in Level
  /\ value   \in BOOLEAN
  /\ at      \in [Thread -> {"idle", "value", "schedule", "adjust", "clear"}]
  /\ channel \in [Thread -> Channel]
  /\ adrift  \in BOOLEAN

\* spkr_setup and pwmled_setup have set the items up, and ztacx_led_strip_start has
\* scheduled the first refresh of a strip.
PwmInit ==
  /\ fitted \in Fitted
  /\ delayed = IF "strip" \in fitted THEN {"refresh"} ELSE {}
  /\ queue = << >> /\ blocked = FALSE
  /\ level = [c \in Channel |-> 0]
  /\ volume = MaxLevel /\ duty = 0 /\ value = FALSE
  /\ at = [t \in Thread |-> "idle"]
  /\ channel = [t \in Thread |-> "spkr"]
  /\ adrift = FALSE

Pending(i) == i \in delayed \/ Queued(queue, i)

\* k_work_schedule: nothing happens to an item already pending.
Schedule(i) == delayed' = IF Pending(i) THEN delayed ELSE delayed \cup {i}

TimerFires(i) ==
  /\ i \in delayed
  /\ delayed' = delayed \ {i}
  /\ queue'   = Submit(queue, i)
  /\ UNCHANGED <<fitted, blocked, level, volume, duty, value, caller, adrift>>

\* The work queue's thread takes item i.
Runs(i) ==
  /\ ~blocked /\ queue # << >> /\ Head(queue) = i
  /\ queue' = Tail(queue)

-----------------------------------------------------------------------------
\* spkr_beep and spkr_tone; silent at volume 0.
Tone(t) ==
  /\ "spkr" \in fitted /\ at[t] = "idle"
  /\ volume > 0
  /\ level'   = [level EXCEPT !["spkr"] = volume]
  /\ at'      = [at EXCEPT ![t] = "schedule"]
  /\ channel' = [channel EXCEPT ![t] = "spkr"]
  /\ UNCHANGED <<fitted, workq, volume, duty, value, adrift>>

\* turn_pwmled_on, with a duty or with pwmled_duty_value for duty 0.
Light(t, d) ==
  /\ "pwmled" \in fitted /\ at[t] = "idle"
  /\ level'   = [level EXCEPT !["pwmled"] = IF d = 0 THEN duty ELSE d]
  /\ at'      = [at EXCEPT ![t] = "value"]
  /\ channel' = [channel EXCEPT ![t] = "pwmled"]
  /\ UNCHANGED <<fitted, workq, volume, duty, value, adrift>>

SetValue(t) ==
  /\ at[t] = "value"
  /\ value' = TRUE
  /\ at' = [at EXCEPT ![t] = "schedule"]
  /\ UNCHANGED <<fitted, workq, level, volume, duty, channel, adrift>>

\* The end of the tone or the light, unless an earlier one is to come.  Broken
\* variant: one that is to come for either.
ScheduleEither(t) ==
  /\ at[t] = "schedule"
  /\ delayed' = IF delayed = {} THEN {Off[channel[t]]} ELSE delayed
  /\ at' = [at EXCEPT ![t] = "idle"]
  /\ adrift' = (adrift /\ channel[t] # "pwmled")
  /\ UNCHANGED <<fitted, queue, blocked, level, volume, duty, value, channel>>

ScheduleOff(t) ==
  /\ at[t] = "schedule"
  /\ Schedule(Off[channel[t]])
  /\ at' = [at EXCEPT ![t] = "idle"]
  /\ adrift' = (adrift /\ channel[t] # "pwmled")
  /\ UNCHANGED <<fitted, queue, blocked, level, volume, duty, value, channel>>

\* turn_spkr_off and turn_pwmled_off on the work queue.
TurnOff(c) ==
  /\ Runs(Off[c])
  /\ level' = [level EXCEPT ![c] = 0]
  /\ value' = (value /\ c # "pwmled")
  /\ adrift' = (adrift /\ c # "pwmled")
  /\ UNCHANGED <<fitted, delayed, blocked, volume, duty, caller>>

\* pwmled_adjust_duty: a duty that leaves 0..100 stops there, and a light that is on
\* follows.
Clamp(d, delta) ==
  CASE delta < 0 /\ d + delta < 0        -> 0
    [] delta > 0 /\ d + delta > MaxLevel -> MaxLevel
    [] OTHER                             -> d + delta

Adjust(t, delta) ==
  /\ "pwmled" \in fitted /\ at[t] = "idle"
  /\ duty' = Clamp(duty, delta)
  /\ at' = IF value THEN [at EXCEPT ![t] = "adjust"] ELSE at
  /\ UNCHANGED <<fitted, workq, level, volume, value, channel, adrift>>

\* ... even if it has gone off meanwhile.
AdjustLight(t) ==
  /\ at[t] = "adjust"
  /\ level' = [level EXCEPT !["pwmled"] = duty]
  /\ at' = [at EXCEPT ![t] = "idle"]
  /\ adrift' = ~Pending(Off["pwmled"])
  /\ UNCHANGED <<fitted, workq, volume, duty, value, channel>>

\* spkr "vol" and pwmled "duty".
SetLevels(v, d) ==
  /\ at["shell"] = "idle"
  /\ \/ "spkr"   \in fitted /\ volume' = v /\ UNCHANGED duty
     \/ "pwmled" \in fitted /\ duty' = d /\ UNCHANGED volume
  /\ UNCHANGED <<fitted, workq, level, value, caller, adrift>>

\* spkr_pre_sleep and pwmled_pre_sleep, which the application calls.
PreSleep ==
  /\ at["shell"] = "idle"
  /\ level' = [c \in Channel |-> 0]
  /\ at' = [at EXCEPT !["shell"] = "clear"]
  /\ UNCHANGED <<fitted, workq, volume, duty, value, channel, adrift>>

PreSlept ==
  /\ at["shell"] = "clear"
  /\ value' = FALSE
  /\ at' = [at EXCEPT !["shell"] = "idle"]
  /\ UNCHANGED <<fitted, workq, level, volume, duty, channel, adrift>>

Go(t) == SetValue(t) \/ ScheduleOff(t) \/ AdjustLight(t)

PwmNext ==
  \/ \E t \in Thread : Go(t) \/ Tone(t)
  \/ \E t \in Thread, d \in Level : Light(t, d)
  \/ \E t \in Thread, delta \in {-1, 1} : Adjust(t, delta)
  \/ \E v, d \in Level : SetLevels(v, d)
  \/ \E c \in Channel : TurnOff(c)
  \/ PreSleep \/ PreSlept

-----------------------------------------------------------------------------
(* Properties.                                                             *)

\* Whoever switches a channel on gives it an end: when nobody is at it and it is on,
\* its end is pending, although only one item serves all callers and scheduling it
\* again does nothing.  Except for an LED adjusted just when it had gone off.
OnHasAnEnd ==
  \A c \in Channel :
    level[c] > 0 /\ (\A t \in Thread : at[t] = "idle") /\ ~(c = "pwmled" /\ adrift)
      => Pending(Off[c])

=============================================================================
