---------------------------- MODULE ZtacxLedStrip ----------------------------
(***************************************************************************)
(* The LED strip (src/src/ztacx_led_strip.c), with the outputs of ZtacxPwm *)
(* on the same work queue.                                                 *)
(*                                                                         *)
(* The picture is an array of pixels, sent to the strip by a delayable     *)
(* item every 100 ms and by the commands.  The application draws by two    *)
(* variables, cursor and color, whose on_change items set the cursor and   *)
(* the pixel under it when the work queue comes to them.                   *)
(*                                                                         *)
(* Sending blocks, and may fail.  The picture sent is the one there is     *)
(* when it begins; of two sendings at once either may end first.  A        *)
(* refresh that is cancelled at work is CANCELING until it returns: the    *)
(* kernel then refuses to schedule and to submit it.                       *)
(***************************************************************************)
EXTENDS ZtacxPwm

CONSTANTS
  Pixels,    \* STRIP_NUM_PIXELS
  Color,     \* the colours of this instance that color_parse knows
  Black,     \* the one of a pixel that is off
  Name,      \* what the application writes: colours, and names that are none
  NULL       \* no colour yet, no picture

ASSUME StripAssumption ==
  /\ Pixels \in Nat \ {0}
  /\ Black \in Color /\ NULL \notin Color \cup Name \cup {"cursor", "color"}
  /\ {"app", "shell"} \subseteq Thread

Position == 0..(Pixels - 1)
Picture  == [Position -> Color]
Dark     == [p \in Position |-> Black]

VARIABLES
  pixels,         \* context.pixels
  shown,          \* what the strip shows
  sending,        \* "queue", "shell" -> the picture being sent, or NULL
  canceling,      \* the refresh is CANCELING
  cursor,         \* context.cursor
  cursor_value, color_value,   \* the variables led_strip_cursor and led_strip_color
  writer,         \* the on_change item the application is about to submit, or NULL
  strip,          \* where the shell thread is in a function of the strip
  fetched,        \* the cursor that ztacx_led_strip_start has fetched, or NULL
  last,           \* which of the two has begun to send last (auxiliary)
  torn,           \* the last sending to end failed, or another had begun after it (auxiliary)
  unsent,         \* a pixel was drawn since a picture was last sent (auxiliary)
  crossed,        \* a colour was written before an earlier one was drawn (auxiliary)
  latest,         \* the last write was a colour, and nothing else drew since (auxiliary)
  behind          \* the leaf was started while the cursor was written (auxiliary)

stripVars == <<pixels, shown, sending, canceling, cursor, cursor_value, color_value, writer,
               strip, fetched, last, torn, unsent, crossed, latest, behind>>
vars      == <<pwmVars, stripVars>>

TypeOK ==
  /\ PwmTypeOK
  /\ pixels  \in Picture /\ shown \in Picture
  /\ sending \in [{"queue", "shell"} -> Picture \cup {NULL}]
  /\ canceling \in BOOLEAN /\ last \in {"queue", "shell"} /\ torn \in BOOLEAN
  /\ cursor  \in 0..Pixels /\ cursor_value \in 0..Pixels /\ fetched \in 0..Pixels \cup {NULL}
  /\ color_value \in Name \cup {NULL}
  /\ writer  \in {"cursor", "color", NULL}
  /\ strip   \in {"idle", "clear", "send", "sending", "assign"}
  /\ unsent \in BOOLEAN /\ crossed \in BOOLEAN /\ latest \in BOOLEAN /\ behind \in BOOLEAN

\* ztacx_led_strip_init has shown its pattern and put the strip out, which may have
\* failed, and ztacx_led_strip_start scheduled the first refresh (PwmInit).
Init ==
  /\ PwmInit /\ pixels = Dark
  /\ torn \in BOOLEAN /\ shown \in IF torn THEN Picture ELSE {Dark}
  /\ sending = [t \in {"queue", "shell"} |-> NULL]
  /\ canceling = FALSE /\ last = "shell"
  /\ cursor = 0 /\ cursor_value = 0 /\ color_value = NULL /\ fetched = NULL
  /\ writer = NULL /\ strip = "idle"
  /\ unsent = FALSE /\ crossed = FALSE /\ latest = FALSE /\ behind = FALSE

output == <<fitted, level, volume, duty, value, caller, adrift>>
drawn  == <<cursor, cursor_value, color_value, writer, fetched, behind>>
wire   == <<shown, sending, last, torn>>
kernel == <<workq, canceling>>

\* Of two sendings, t begins one with the picture there is, and ends one, which may fail.
BeginSending(t) ==
  /\ sending' = [sending EXCEPT ![t] = pixels]
  /\ last' = t /\ unsent' = FALSE

EndSending(t) ==
  /\ \E ok \in BOOLEAN : /\ shown' = IF ok THEN sending[t] ELSE shown
                         /\ torn'  = (~ok \/ t # last)
  /\ sending' = [sending EXCEPT ![t] = NULL]

-----------------------------------------------------------------------------
(* The work queue's handlers.                                              *)

\* ztacx_led_strip_refresh shows the picture ...
Refresh ==
  /\ Runs("refresh")
  /\ blocked' = TRUE
  /\ BeginSending("queue")
  /\ UNCHANGED <<delayed, canceling, output, pixels, shown, torn, drawn, strip, latest, crossed>>

\* ... and schedules itself, sent or not, unless it has been cancelled meanwhile.
Refreshed ==
  /\ blocked
  /\ blocked' = FALSE
  /\ EndSending("queue")
  /\ IF canceling THEN UNCHANGED delayed ELSE Schedule("refresh")
  /\ canceling' = FALSE
  /\ UNCHANGED <<queue, output, pixels, last, drawn, strip, unsent, latest, crossed>>

CursorChanged ==
  /\ Runs("cursor")
  /\ cursor' = cursor_value
  /\ UNCHANGED <<delayed, blocked, canceling, output, pixels, wire, cursor_value, color_value,
                 writer, strip, fetched, unsent, crossed, latest, behind>>

\* A colour that is not known, and a position outside, draw nothing.  Broken variant:
\* the last position is taken for one outside.
OnStripMinus(p) == p < Pixels - 1
OnStrip(p) == p < Pixels

ColorChanged ==
  /\ Runs("color")
  /\ IF color_value \in Color /\ OnStrip(cursor)
     THEN pixels' = [pixels EXCEPT ![cursor] = color_value] /\ unsent' = TRUE
     ELSE UNCHANGED <<pixels, unsent>>
  /\ UNCHANGED <<delayed, blocked, canceling, output, wire, drawn, strip, latest, crossed>>

-----------------------------------------------------------------------------
(* The application writes the variables: the value, then its on_change.    *)

WriteCursor(p) ==
  /\ "strip" \in fitted /\ writer = NULL
  /\ cursor_value' = p /\ writer' = "cursor"
  /\ latest' = FALSE /\ crossed' = FALSE
  /\ behind' = (behind \/ strip = "assign")
  /\ UNCHANGED <<kernel, output, pixels, wire, cursor, color_value, strip, fetched, unsent>>

WriteColor(c) ==
  /\ "strip" \in fitted /\ writer = NULL
  /\ color_value' = c /\ writer' = "color"
  /\ crossed' = Queued(queue, "color")
  /\ latest' = TRUE
  /\ UNCHANGED <<kernel, output, pixels, wire, cursor, cursor_value, strip, fetched, unsent,
                 behind>>

SubmitChange ==
  /\ writer # NULL
  /\ queue' = Submit(queue, writer)
  /\ writer' = NULL
  /\ UNCHANGED <<delayed, blocked, canceling, output, pixels, wire, cursor, cursor_value,
                 color_value, strip, fetched, unsent, crossed, latest, behind>>

-----------------------------------------------------------------------------
(* Commands and the leaf's callbacks, in the shell's thread.               *)

Shell == "strip" \in fitted /\ strip = "idle"

\* "on": k_work_reschedule without delay, which is refused while the refresh is
\* CANCELING.  Broken variant: cancelled only.
OnCancels ==
  /\ Shell
  /\ delayed' = delayed \ {"refresh"} /\ queue' = Withdraw(queue, "refresh")
  /\ UNCHANGED <<blocked, output, stripVars>>

On ==
  /\ Shell
  /\ delayed' = delayed \ {"refresh"}
  /\ queue' = IF canceling THEN queue ELSE Submit(queue, "refresh")
  /\ UNCHANGED <<blocked, output, stripVars>>

\* "off" and ztacx_led_strip_stop cancel the refresh and put the strip out,
\* ztacx_led_strip_pre_sleep only puts it out.
PutOut(cancel) ==
  /\ Shell
  /\ IF cancel
     THEN /\ delayed' = delayed \ {"refresh"} /\ queue' = Withdraw(queue, "refresh")
          /\ canceling' = blocked
     ELSE UNCHANGED <<delayed, queue, canceling>>
  /\ strip' = "clear"
  /\ UNCHANGED <<blocked, output, pixels, wire, drawn, unsent, latest, crossed>>

Clear ==
  /\ strip = "clear"
  /\ pixels' = Dark /\ latest' = FALSE /\ crossed' = FALSE
  /\ strip' = "send"
  /\ UNCHANGED <<kernel, output, wire, drawn, unsent>>

\* "set" and "rgb": one pixel or all of them, and the picture is sent.  The position
\* after the last one passes the test of the command, and is refused by
\* ztacx_led_strip_set.  Broken variant: drawn, but not sent.
SetOnly(p, c) ==
  /\ Shell /\ OnStrip(p)
  /\ pixels' = [q \in Position |-> IF p \in {q, -1} THEN c ELSE pixels[q]]
  /\ latest' = FALSE /\ crossed' = FALSE
  /\ UNCHANGED <<kernel, output, wire, drawn, strip, unsent>>

Set(p, c) ==
  /\ Shell
  /\ pixels' = IF p = -1 THEN [q \in Position |-> c]
               ELSE IF OnStrip(p) THEN [pixels EXCEPT ![p] = c] ELSE pixels
  /\ latest' = FALSE /\ crossed' = FALSE
  /\ strip' = "send"
  /\ UNCHANGED <<kernel, output, wire, drawn, unsent>>

\* ztacx_led_strip_show
Send ==
  /\ strip = "send"
  /\ BeginSending("shell")
  /\ strip' = "sending"
  /\ UNCHANGED <<kernel, output, pixels, shown, torn, drawn, latest, crossed>>

Sent ==
  /\ strip = "sending"
  /\ EndSending("shell")
  /\ strip' = "idle"
  /\ UNCHANGED <<kernel, output, pixels, last, drawn, unsent, latest, crossed>>

\* ztacx_led_strip_start: the refresh is scheduled, the cursor fetched ...
Start ==
  /\ Shell
  /\ IF canceling THEN UNCHANGED delayed ELSE Schedule("refresh")
  /\ fetched' = cursor_value /\ strip' = "assign"
  /\ behind' = (behind \/ writer = "cursor" \/ Queued(queue, "cursor"))
  /\ UNCHANGED <<queue, blocked, canceling, output, pixels, wire, cursor, cursor_value,
                 color_value, writer, unsent, crossed, latest>>

\* ... and assigned.
Assign ==
  /\ strip = "assign"
  /\ cursor' = fetched /\ fetched' = NULL /\ strip' = "idle"
  /\ UNCHANGED <<kernel, output, pixels, wire, cursor_value, color_value, writer, unsent,
                 crossed, latest, behind>>

-----------------------------------------------------------------------------
QueueRuns == Refresh \/ Refreshed \/ CursorChanged \/ ColorChanged
ShellGoes == Clear \/ Send \/ Sent \/ Assign

StripNext ==
  \/ QueueRuns \/ ShellGoes \/ SubmitChange
  \/ \E p \in 0..Pixels : WriteCursor(p)
  \/ \E c \in Name : WriteColor(c)
  \/ On \/ (\E cancel \in BOOLEAN : PutOut(cancel)) \/ Start
  \/ \E p \in -1..Pixels, c \in Color : Set(p, c)

Next ==
  \/ StripNext
  \/ PwmNext /\ UNCHANGED stripVars
  \/ (\E i \in Item : TimerFires(i)) /\ UNCHANGED stripVars

Spec == Init /\ [][Next]_vars

\* Delays expire, the work queue serves its items and its handlers end, and a thread
\* inside a call goes on.
FairSpec ==
  /\ Spec
  /\ \A i \in Item : WF_vars(TimerFires(i) /\ UNCHANGED stripVars)
  /\ WF_vars(QueueRuns \/ (\E c \in Channel : TurnOff(c) /\ UNCHANGED stripVars))
  /\ \A t \in Thread : WF_vars(Go(t) /\ UNCHANGED stripVars)
  /\ WF_vars(ShellGoes) /\ WF_vars(SubmitChange)

-----------------------------------------------------------------------------
(* Properties.                                                             *)

\* When nothing is being sent, the strip shows the picture: every function that changes
\* it sends it, though refreshes, observers and commands take turns in any order.
\* Except for pixels drawn by the variables, which wait for a refresh, and for a last
\* sending that failed or was overtaken: "off" during a refresh may end before it,
\* which shows the old picture, and no refresh follows.
ShowsPicture ==
  ~blocked /\ strip = "idle" /\ ~unsent /\ ~torn => shown = pixels

\* While the strip is refreshed, what is drawn is sent, however busy the work queue.
\* "on" after an "off" during a refresh is refused: the strip is then not refreshed.
DrawnIsSent == (unsent /\ Pending("refresh")) ~> ~unsent

\* A colour lands under the cursor as it was when the colour was written, unless an
\* earlier colour was still to be drawn: then one change takes the place of both, and
\* it may come before the cursor's.
ColorLands ==
  latest /\ ~crossed /\ ~behind /\ strip # "assign" /\ writer = NULL /\ color_value \in Color
    /\ cursor_value < Pixels /\ ~Queued(queue, "cursor") /\ ~Queued(queue, "color")
      => pixels[cursor_value] = color_value

=============================================================================
