----------------------------- MODULE ShockAlert ------------------------------
(***************************************************************************)
(* The shock alert of the sensor sample: the inertial sensor's reader      *)
(* (src/src/ztacx_ims.c) keeps a level and its peak, a change of the peak  *)
(* runs peak_change and a change of the alert runs alert_clear             *)
(* (src/samples/bt_sensor/bt_sensor.c), which set one another's variables. *)
(*                                                                         *)
(* The three work items run whole, one after the other (the reader blocks  *)
(* for the sensor only before it looks at any of this).  The shell thread  *)
(* clears the alert, and takes a reading of its own with the reader's code;*)
(* it can be preempted between any two of its accesses.  Only the magnitude*)
(* is modelled: the axes drive no handler.                                 *)
(***************************************************************************)
EXTENDS SysWorkQ

CONSTANTS
  Level,             \* the magnitudes the sensor reads
  InvalidLevel,      \* INVALID_LEVEL, INT32_MAX
  ChangeThreshold,   \* setting ims_change_threshold
  ShockThreshold,    \* shock_threshold
  MaxClears          \* bound on the times the alert is cleared by command

ASSUME ShockAssumption ==
  /\ Level \subseteq Nat
  /\ InvalidLevel \in Nat /\ \A x \in Level : x < InvalidLevel
  /\ ChangeThreshold \in Nat
  /\ ShockThreshold \in Nat /\ ShockThreshold < InvalidLevel
  /\ MaxClears \in Nat

VARIABLES
  level,    \* ims_level_m
  peak,     \* ims_peak_m
  alert,    \* shock_alert
  duty,     \* led0_duty
  hooked,   \* the work items set as hooks, on ims_peak_m and on shock_alert
  ims_ok,   \* VALUE_OK of the inertial sensor
  ims_dev,  \* ims_dev is not NULL
  due,      \* the delay of ims_work is running
  queue,    \* the system work queue
  shell,    \* where the shell is in a clear ("clear") or a reading
  reading,  \* what it has read
  missed,   \* no observer was told of the peak (auxiliary)
  clears    \* alerts cleared by command so far, for the bound MaxClears

source == <<ims_ok, ims_dev>>
vars   == <<level, peak, alert, duty, hooked, source, due, queue, shell, reading, missed, clears>>

Hook == {"peak_change_work", "alert_clear_work"}

TypeOK ==
  /\ level \in Level \cup {InvalidLevel}
  /\ peak  \in Level \cup {InvalidLevel}
  /\ alert \in BOOLEAN
  /\ duty  \in {1, 50}
  /\ hooked \subseteq Hook
  /\ queue \in Seq(Hook \cup {"ims_work"})
  /\ ims_ok \in BOOLEAN /\ ims_dev \in BOOLEAN /\ due \in BOOLEAN
  /\ shell \in {"idle", "clear", "compare", "level", "look", "peak", "submit"}
  /\ reading \in Level \cup {InvalidLevel} /\ missed \in BOOLEAN
  /\ clears \in 0..MaxClears

\* prj.conf sets the LED's duty to 1.  The leaf is started, without delay, before the
\* application is.
Init ==
  /\ level = InvalidLevel /\ peak = InvalidLevel
  /\ alert = FALSE /\ duty = 1
  /\ hooked = {} /\ queue = << >>
  /\ ims_ok = TRUE /\ ims_dev = TRUE /\ due = TRUE
  /\ shell = "idle" /\ reading = InvalidLevel /\ missed = FALSE /\ clears = 0

-----------------------------------------------------------------------------
\* The end of ztacx_variable_value_set on a variable whose hook is w.
Trigger(q, w) == IF w \in hooked THEN Submit(q, w) ELSE q

\* The work queue's thread runs the handler of w; rest is what remains queued.
Runs(w) == queue # << >> /\ Head(queue) = w
rest    == Tail(queue)

\* app_start: first the peak's hook, then the alert's.
SetHook(w) ==
  /\ w \in Hook \ hooked
  /\ w = "alert_clear_work" => "peak_change_work" \in hooked
  /\ hooked' = hooked \cup {w}
  /\ UNCHANGED <<level, peak, alert, duty, source, due, queue, shell, reading, missed, clears>>

\* The reader's interval is over.
TimerFires ==
  /\ due
  /\ due' = FALSE /\ queue' = Submit(queue, "ims_work")
  /\ UNCHANGED <<level, peak, alert, duty, hooked, source, shell, reading, missed, clears>>

\* update_variable_peak: is x stored, and is it a new peak?
Differs(x, y)  == x >= y + ChangeThreshold \/ y >= x + ChangeThreshold
Significant(x) == level = InvalidLevel \/ Differs(x, level)
NewPeak(x)     == peak = InvalidLevel \/ x > peak

\* What a store of the peak leaves of missed, once its observer is submitted or not.
Unheard == "peak_change_work" \notin hooked

\* ims_read on the work queue: a reading is taken, or the fetch fails.
ims_read ==
  /\ Runs("ims_work") /\ ims_ok /\ ims_dev
  /\ due' = TRUE
  /\ \/ \E x \in Level :
          /\ Significant(x)
          /\ level' = x
          /\ IF NewPeak(x)
             THEN /\ peak' = x /\ missed' = Unheard
                  /\ queue' = Trigger(rest, "peak_change_work")
             ELSE queue' = rest /\ UNCHANGED <<peak, missed>>
     \/ queue' = rest /\ UNCHANGED <<level, peak, missed>>
  /\ UNCHANGED <<alert, duty, hooked, source, shell, reading, clears>>

\* Without a sensor, or with one that does not give the value it has fetched, the
\* reader returns and is not scheduled again.
ims_read_stops ==
  /\ Runs("ims_work")
  /\ queue' = rest
  /\ UNCHANGED <<level, peak, alert, duty, hooked, source, due, shell, reading, missed, clears>>

peak_change ==
  /\ Runs("peak_change_work")
  /\ IF ~alert /\ peak > ShockThreshold
     THEN /\ alert' = TRUE /\ duty' = 50
          /\ queue' = Trigger(rest, "alert_clear_work")
     ELSE queue' = rest /\ UNCHANGED <<alert, duty>>
  /\ UNCHANGED <<level, peak, hooked, source, due, shell, reading, missed, clears>>

\* Broken variants of alert_clear: an alert that stands is cleared as well; the
\* LED is switched off; the peak is kept.
alert_clear_always ==
  /\ Runs("alert_clear_work")
  /\ duty' = 1 /\ peak' = InvalidLevel /\ missed' = Unheard
  /\ queue' = Trigger(rest, "peak_change_work")
  /\ UNCHANGED <<level, alert, hooked, source, due, shell, reading, clears>>
alert_clear_keeps ==
  /\ Runs("alert_clear_work")
  /\ queue' = rest
  /\ IF alert THEN UNCHANGED duty ELSE duty' = 1
  /\ UNCHANGED <<level, peak, alert, hooked, source, due, shell, reading, missed, clears>>

alert_clear ==
  /\ Runs("alert_clear_work")
  /\ IF alert
     THEN queue' = rest /\ UNCHANGED <<duty, peak, missed>>
     ELSE /\ duty' = 1 /\ peak' = InvalidLevel /\ missed' = Unheard
          /\ queue' = Trigger(rest, "peak_change_work")
  /\ UNCHANGED <<level, alert, hooked, source, due, shell, reading, clears>>

\* "ztacx value set shock_alert false": the store ...  (The shell's thread is
\* below the main thread, which does not block between the two hooks.)
ClearAlert ==
  /\ hooked = Hook /\ shell = "idle" /\ clears < MaxClears
  /\ alert' = FALSE
  /\ shell' = "clear" /\ clears' = clears + 1
  /\ UNCHANGED <<level, peak, duty, hooked, source, due, queue, reading, missed>>

\* ... and the submit.
ClearSubmits ==
  /\ shell = "clear"
  /\ queue' = Trigger(queue, "alert_clear_work")
  /\ shell' = "idle"
  /\ UNCHANGED <<level, peak, alert, duty, hooked, source, due, reading, missed, clears>>

\* "ztacx value set" on the flag: nothing observes it.
SetImsOk ==
  /\ shell = "idle"
  /\ ims_ok' \in BOOLEAN
  /\ UNCHANGED <<level, peak, alert, duty, hooked, ims_dev, due, queue, shell, reading, missed, clears>>

\* "ims" looks the device up anew, for the work item as well, and reads it.
ShellLooksUp ==
  /\ shell = "idle" /\ ims_ok
  /\ ims_dev' \in BOOLEAN
  /\ \/ ims_dev' /\ reading' \in Level /\ shell' = "compare"
     \/ UNCHANGED <<shell, reading>>
  /\ UNCHANGED <<level, peak, alert, duty, hooked, ims_ok, due, queue, missed, clears>>

\* update_variable_peak on the shell's thread, access by access.
ShellCompares ==
  /\ shell = "compare"
  /\ shell' = IF Significant(reading) THEN "level" ELSE "idle"
  /\ UNCHANGED <<level, peak, alert, duty, hooked, source, due, queue, reading, missed, clears>>

ShellStoresLevel ==
  /\ shell = "level"
  /\ level' = reading /\ shell' = "look"
  /\ UNCHANGED <<peak, alert, duty, hooked, source, due, queue, reading, missed, clears>>

ShellLooks ==
  /\ shell = "look"
  /\ shell' = IF NewPeak(reading) THEN "peak" ELSE "idle"
  /\ UNCHANGED <<level, peak, alert, duty, hooked, source, due, queue, reading, missed, clears>>

ShellStoresPeak ==
  /\ shell = "peak"
  /\ peak' = reading /\ missed' = Unheard /\ shell' = "submit"
  /\ UNCHANGED <<level, alert, duty, hooked, source, due, queue, reading, clears>>

ShellSubmits ==
  /\ shell = "submit"
  /\ queue' = Trigger(queue, "peak_change_work")
  /\ missed' = (missed /\ Unheard)
  /\ shell' = "idle"
  /\ UNCHANGED <<level, peak, alert, duty, hooked, source, due, reading, clears>>

-----------------------------------------------------------------------------
Handler == ims_read \/ ims_read_stops \/ peak_change \/ alert_clear

AppStart == \E w \in Hook : SetHook(w)

ShellGoesOn ==
  \/ ClearSubmits
  \/ ShellCompares \/ ShellStoresLevel \/ ShellLooks \/ ShellStoresPeak \/ ShellSubmits

Next ==
  \/ AppStart \/ TimerFires \/ Handler
  \/ ClearAlert \/ SetImsOk \/ ShellLooksUp \/ ShellGoesOn

Spec == Init /\ [][Next]_vars

\* The work queue's thread goes on, and the shell's goes on with what it has begun.
\* The reader need not be read again, nor the application be started.
FairSpec == Spec /\ WF_vars(Handler) /\ WF_vars(ShellGoesOn)

-----------------------------------------------------------------------------
(* Properties.                                                             *)

\* When nothing is in progress, the LED shows the alert: the handlers of the
\* alert's two sides and a clear that falls between any of them never leave a
\* cleared LED on an alert that stands, nor the reverse.
Settled    == hooked = Hook /\ shell = "idle" /\ queue = << >>
AlertShown == Settled => (alert <=> duty = 50)

\* A peak above the threshold does not stand for ever without an alert, in whatever
\* order the two readers, the handlers and a clear store and submit, and with no
\* further reading to help.  Excepted is a peak stored before app_start has set the
\* hook, of which nobody is told.
Standing   == peak \in Level /\ peak > ShockThreshold /\ ~missed /\ ~alert
PeakAlerts == []<>~Standing

=============================================================================
