------------------------- MODULE ZtacxLedStrip_proofs -----------------------
(***************************************************************************)
(* What ZtacxLedStrip promises, for every value of its constants: every    *)
(* sound and light that is begun has an end, the strip shows the picture,  *)
(* and a colour lands under the cursor.                                    *)
(***************************************************************************)
EXTENDS ZtacxLedStrip, Common_proofs

\* A duty that is adjusted stays a level.
LEMMA ClampTyped ==
  ASSUME NEW d \in Level, NEW delta \in {-1, 1}
  PROVE  Clamp(d, delta) \in Level
<1>1. MaxLevel \in Nat \ {0} /\ d \in Nat /\ d <= MaxLevel
  BY PwmAssumption DEF Level
<1>2. CASE delta = -1
  BY <1>1, <1>2 DEF Clamp, Level
<1>3. CASE delta = 1
  BY <1>1, <1>3 DEF Clamp, Level
<1>4. QED
  BY <1>2, <1>3

\* The steps of the outputs and of the timers.
LEMMA PwmTyped ==
  ASSUME PwmTypeOK, PwmNext \/ \E i \in Item : TimerFires(i)
  PROVE  PwmTypeOK'
<1>0. 0 \in Level /\ MaxLevel \in Level /\ "shell" \in Thread
  BY PwmAssumption, StripAssumption DEF Level
<1>a. \A c \in Channel : Off[c] \in Item
  BY DEF Channel, Off, Item
<1> USE DEF PwmTypeOK
<1>1. ASSUME NEW i \in Item, Runs(i)
      PROVE  queue' \in Seq(Item)
  BY <1>1, TailQueued DEF Runs
<1>2. ASSUME NEW i \in Item, TimerFires(i)
      PROVE  PwmTypeOK'
  BY <1>2, SubmitQueued DEF TimerFires, caller
<1>3. ASSUME NEW t \in Thread, Tone(t)
      PROVE  PwmTypeOK'
  BY <1>0, <1>3 DEF Tone, workq, Channel
<1>4. ASSUME NEW t \in Thread, NEW d \in Level, Light(t, d)
      PROVE  PwmTypeOK'
  BY <1>0, <1>4 DEF Light, workq, Channel
<1>5. ASSUME NEW t \in Thread, SetValue(t)
      PROVE  PwmTypeOK'
  BY <1>5 DEF SetValue, workq
<1>6. ASSUME NEW t \in Thread, ScheduleOff(t)
      PROVE  PwmTypeOK'
  <2>1. Off[channel[t]] \in Item
    BY <1>a
  <2>2. delayed' \subseteq Item
    BY <1>6, <2>1 DEF ScheduleOff, Schedule
  <2>3. QED
    BY <1>6, <2>2 DEF ScheduleOff
<1>7. ASSUME NEW c \in Channel, TurnOff(c)
      PROVE  PwmTypeOK'
  <2>1. queue' \in Seq(Item)
    BY <1>a, <1>1, <1>7 DEF TurnOff
  <2>2. QED
    BY <1>0, <1>7, <2>1 DEF TurnOff, caller
<1>8. ASSUME NEW t \in Thread, NEW delta \in {-1, 1}, Adjust(t, delta)
      PROVE  PwmTypeOK'
  <2>1. duty' \in Level
    BY <1>8, ClampTyped DEF Adjust
  <2>2. QED
    BY <1>8, <2>1 DEF Adjust, workq
<1>9. ASSUME NEW t \in Thread, AdjustLight(t)
      PROVE  PwmTypeOK'
  <2>1. adrift' \in BOOLEAN
    BY <1>9 DEF AdjustLight
  <2>2. QED
    BY <1>9, <2>1 DEF AdjustLight, workq
<1>10. ASSUME NEW v \in Level, NEW d \in Level, SetLevels(v, d)
       PROVE  PwmTypeOK'
  BY <1>10 DEF SetLevels, workq, caller
<1>11. CASE PreSleep
  BY <1>0, <1>11 DEF PreSleep, workq
<1>12. CASE PreSlept
  BY <1>0, <1>12 DEF PreSlept, workq
<1>13. QED
  BY <1>2, <1>3, <1>4, <1>5, <1>6, <1>7, <1>8, <1>9, <1>10, <1>11, <1>12 DEF PwmNext, Go

\* The items with a delay are those that are ever scheduled: the variables' observers
\* are submitted at once.
Delayable == delayed \subseteq Item \ {"cursor", "color"}

\* What is being sent is a picture, and what is about to be assigned is a position.
Sending ==
  /\ blocked => sending["queue"] \in Picture
  /\ strip = "sending" => sending["shell"] \in Picture
  /\ strip = "assign"  => fetched \in 0..Pixels

StripTyped == TypeOK /\ Delayable /\ Sending

\* Every variable of the outputs and of the strip keeps its type.
THEOREM StripTypes == Spec => []StripTyped
<1>1. Init => StripTyped
  <2> SUFFICES ASSUME Init
               PROVE  StripTyped
    OBVIOUS
  <2>1. << >> \in Seq(Item) /\ 0 \in Level /\ MaxLevel \in Level
    BY PwmAssumption DEF Level
  <2>2. PwmTypeOK
    BY <2>1 DEF Init, PwmInit, PwmTypeOK, Channel, Item
  <2>3. Dark \in Picture /\ 0 \in 0..Pixels
    BY StripAssumption DEF Dark, Picture
  <2>4. Delayable /\ Sending
    BY DEF Init, PwmInit, Delayable, Sending, Item
  <2>5. TypeOK
    BY <2>2, <2>3 DEF Init, TypeOK
  <2>6. QED
    BY <2>4, <2>5 DEF StripTyped
<1>2. StripTyped /\ [Next]_vars => StripTyped'
  <2> SUFFICES ASSUME TypeOK, Delayable, Sending, [Next]_vars
               PROVE  TypeOK' /\ Delayable' /\ Sending'
    BY DEF StripTyped
  <2>0. /\ Dark \in Picture /\ Pixels \in Nat \ {0}
        /\ {"refresh", "cursor", "color"} \subseteq Item
        /\ queue \in Seq(Item) /\ delayed \subseteq Item \ {"cursor", "color"}
    BY StripAssumption DEF Dark, Picture, Item, TypeOK, PwmTypeOK, Delayable
  <2>a. ASSUME delayed' \subseteq Item \ {"cursor", "color"}, queue' \in Seq(Item),
               blocked' \in BOOLEAN, UNCHANGED output
        PROVE  PwmTypeOK' /\ Delayable'
    <3>1. PwmTypeOK
      BY DEF TypeOK
    <3>2. PwmTypeOK'
      BY <2>a, <3>1 DEF PwmTypeOK, output, caller
    <3>3. QED
      BY <2>a, <3>2 DEF Delayable
  <2>b. ASSUME NEW i \in Item, Runs(i)
        PROVE  queue' \in Seq(Item)
    BY <2>0, <2>b, TailQueued DEF Runs
  <2>c. Schedule("refresh") => delayed' \subseteq Item \ {"cursor", "color"}
    BY <2>0 DEF Schedule
  <2>d. blocked \in BOOLEAN
    BY DEF TypeOK, PwmTypeOK
  <2>1. CASE Refresh
    <3>1. PwmTypeOK' /\ Delayable'
      BY <2>0, <2>a, <2>b, <2>1 DEF Refresh
    <3>2. sending' \in [{"queue", "shell"} -> Picture \cup {NULL}] /\ Sending'
      BY <2>1 DEF Refresh, BeginSending, TypeOK, drawn, Sending
    <3>3. QED
      BY <2>1, <3>1, <3>2 DEF Refresh, BeginSending, TypeOK, drawn
  <2>2. CASE Refreshed
    <3>1. PwmTypeOK' /\ Delayable'
      BY <2>0, <2>a, <2>c, <2>2 DEF Refreshed
    <3>2. shown' \in Picture
      BY <2>2 DEF Refreshed, EndSending, Sending, TypeOK
    <3>3. sending' \in [{"queue", "shell"} -> Picture \cup {NULL}] /\ torn' \in BOOLEAN
      BY <2>2 DEF Refreshed, EndSending, TypeOK
    <3>4. Sending'
      BY <2>2 DEF Refreshed, EndSending, TypeOK, Sending, drawn
    <3>5. QED
      BY <2>2, <3>1, <3>2, <3>3, <3>4 DEF Refreshed, TypeOK, drawn
  <2>3. CASE CursorChanged
    <3>1. PwmTypeOK' /\ Delayable'
      BY <2>0, <2>a, <2>b, <2>d, <2>3 DEF CursorChanged
    <3>2. QED
      BY <2>3, <3>1 DEF CursorChanged, TypeOK, Sending, wire
  <2>4. CASE ColorChanged
    <3>1. PwmTypeOK' /\ Delayable'
      BY <2>0, <2>a, <2>b, <2>d, <2>4 DEF ColorChanged
    <3>2. pixels' \in Picture
      BY <2>4 DEF ColorChanged, TypeOK, Picture
    <3>3. unsent' \in BOOLEAN
      BY <2>4 DEF ColorChanged, TypeOK
    <3>4. QED
      BY <2>4, <3>1, <3>2, <3>3 DEF ColorChanged, TypeOK, Sending, drawn, wire
  <2>5. ASSUME NEW p \in 0..Pixels, WriteCursor(p)
        PROVE  TypeOK' /\ Delayable' /\ Sending'
    <3>1. PwmTypeOK' /\ Delayable'
      BY <2>0, <2>a, <2>d, <2>5 DEF WriteCursor, kernel, workq
    <3>2. behind' \in BOOLEAN
      BY <2>5 DEF WriteCursor, TypeOK
    <3>3. QED
      BY <2>5, <3>1, <3>2 DEF WriteCursor, kernel, workq, wire, TypeOK, Sending
  <2>6. ASSUME NEW c \in Name, WriteColor(c)
        PROVE  TypeOK' /\ Delayable' /\ Sending'
    <3>1. PwmTypeOK' /\ Delayable'
      BY <2>0, <2>a, <2>d, <2>6 DEF WriteColor, kernel, workq
    <3>2. crossed' \in BOOLEAN
      BY <2>6 DEF WriteColor, Queued
    <3>3. QED
      BY <2>6, <3>1, <3>2 DEF WriteColor, kernel, workq, wire, TypeOK, Sending
  <2>7. CASE SubmitChange
    <3>1. queue' \in Seq(Item)
      BY <2>0, <2>7, SubmitQueued DEF SubmitChange, TypeOK
    <3>2. PwmTypeOK' /\ Delayable'
      BY <2>0, <2>a, <2>d, <2>7, <3>1 DEF SubmitChange
    <3>3. QED
      BY <2>7, <3>2 DEF SubmitChange, TypeOK, Sending, wire
  <2>8. CASE On
    <3>1. queue' \in Seq(Item)
      BY <2>0, <2>8, SubmitQueued DEF On
    <3>2. PwmTypeOK' /\ Delayable'
      BY <2>0, <2>a, <2>d, <2>8, <3>1 DEF On
    <3>3. QED
      BY <2>8, <3>2 DEF On, stripVars, TypeOK, Sending
  <2>9. ASSUME NEW cancel \in BOOLEAN, PutOut(cancel)
        PROVE  TypeOK' /\ Delayable' /\ Sending'
    <3>1. queue' \in Seq(Item) /\ delayed' \subseteq Item \ {"cursor", "color"}
      BY <2>0, <2>9, WithdrawQueue DEF PutOut
    <3>2. PwmTypeOK' /\ Delayable'
      BY <2>a, <2>d, <2>9, <3>1 DEF PutOut
    <3>3. QED
      BY <2>d, <2>9, <3>2 DEF PutOut, TypeOK, Sending, drawn, wire
  <2>10. CASE Clear
    <3>1. PwmTypeOK' /\ Delayable'
      BY <2>0, <2>a, <2>d, <2>10 DEF Clear, kernel, workq
    <3>2. QED
      BY <2>0, <2>10, <3>1 DEF Clear, kernel, workq, wire, TypeOK, Sending, drawn
  <2>11. ASSUME NEW p \in -1..Pixels, NEW c \in Color, Set(p, c)
         PROVE  TypeOK' /\ Delayable' /\ Sending'
    <3>1. PwmTypeOK' /\ Delayable'
      BY <2>0, <2>a, <2>d, <2>11 DEF Set, kernel, workq
    <3>2. pixels' \in Picture
      BY <2>0, <2>11 DEF Set, TypeOK, Picture
    <3>3. QED
      BY <2>11, <3>1, <3>2 DEF Set, kernel, workq, wire, TypeOK, Sending, drawn
  <2>12. CASE Send
    <3>1. PwmTypeOK' /\ Delayable'
      BY <2>0, <2>a, <2>d, <2>12 DEF Send, kernel, workq
    <3>2. QED
      BY <2>12, <3>1 DEF Send, BeginSending, kernel, workq, TypeOK, Sending, drawn
  <2>13. CASE Sent
    <3>1. PwmTypeOK' /\ Delayable'
      BY <2>0, <2>a, <2>d, <2>13 DEF Sent, kernel, workq
    <3>2. shown' \in Picture
      BY <2>13 DEF Sent, EndSending, Sending, TypeOK
    <3>3. sending' \in [{"queue", "shell"} -> Picture \cup {NULL}] /\ Sending'
      BY <2>13 DEF Sent, EndSending, TypeOK, Sending, kernel, workq, drawn
    <3>4. torn' \in BOOLEAN
      BY <2>13 DEF Sent, EndSending, TypeOK
    <3>5. QED
      BY <2>13, <3>1, <3>2, <3>3, <3>4 DEF Sent, TypeOK, drawn, kernel
  <2>14. CASE Start
    <3>1. PwmTypeOK' /\ Delayable'
      BY <2>0, <2>a, <2>c, <2>d, <2>14 DEF Start
    <3>2. behind' \in BOOLEAN
      BY <2>14 DEF Start, TypeOK, Queued
    <3>3. QED
      BY <2>14, <3>1, <3>2 DEF Start, TypeOK, Sending, wire
  <2>15. CASE Assign
    <3>1. PwmTypeOK' /\ Delayable'
      BY <2>0, <2>a, <2>d, <2>15 DEF Assign, kernel, workq
    <3>2. QED
      BY <2>15, <3>1 DEF Assign, kernel, workq, wire, TypeOK, Sending
  <2>16. CASE (PwmNext \/ \E i \in Item : TimerFires(i)) /\ UNCHANGED stripVars
    <3>1. PwmTypeOK'
      BY <2>16, PwmTyped DEF TypeOK
    <3>2. blocked' = blocked
      BY <2>16 DEF PwmNext, Go, Tone, Light, SetValue, ScheduleOff, AdjustLight, Adjust,
                   SetLevels, TurnOff, PreSleep, PreSlept, TimerFires, workq
    <3>3. delayed' \subseteq delayed \cup {"spkroff", "pwmledoff"}
      <4>1. ASSUME NEW t \in Thread, ScheduleOff(t)
            PROVE  delayed' \subseteq delayed \cup {"spkroff", "pwmledoff"}
        <5>1. Off[channel[t]] \in {"spkroff", "pwmledoff"}
          BY DEF TypeOK, PwmTypeOK, Channel, Off
        <5>2. QED
          BY <4>1, <5>1 DEF ScheduleOff, Schedule
      <4>2. QED
        BY <2>16, <4>1 DEF PwmNext, Go, Tone, Light, SetValue, AdjustLight, Adjust,
                           SetLevels, TurnOff, PreSleep, PreSlept, TimerFires, workq
    <3>4. Delayable'
      BY <2>0, <3>3 DEF Delayable, Item
    <3>5. QED
      BY <2>16, <3>1, <3>2, <3>4 DEF stripVars, TypeOK, Sending
  <2>17. CASE UNCHANGED vars
    <3>1. PwmTypeOK' /\ Delayable'
      BY <2>17 DEF vars, pwmVars, workq, caller, TypeOK, PwmTypeOK, Delayable
    <3>2. QED
      BY <2>17, <3>1 DEF vars, pwmVars, workq, stripVars, TypeOK, Sending
  <2>18. QED
    BY <2>1, <2>2, <2>3, <2>4, <2>5, <2>6, <2>7, <2>8, <2>9, <2>10, <2>11, <2>12, <2>13,
       <2>14, <2>15, <2>16, <2>17 DEF Next, StripNext, QueueRuns, ShellGoes
<1>3. QED
  BY <1>1, <1>2, PTL DEF Spec

\* What a step does to the work queue: an item is submitted, the refresh withdrawn
\* on the way to putting the strip out, or the oldest item taken by its handler.
Taken ==
  \/ Refresh \/ CursorChanged \/ ColorChanged
  \/ \E c \in Channel : TurnOff(c)

LEMMA QueueMoves ==
  ASSUME StripTyped, [Next]_vars
  PROVE  \/ UNCHANGED queue
         \/ \E w \in Item \ {"cursor", "color"} : queue' = Submit(queue, w)
         \/ SubmitChange
         \/ queue' = Withdraw(queue, "refresh") /\ \E cancel \in BOOLEAN : PutOut(cancel)
         \/ Taken /\ queue # << >> /\ queue' = Tail(queue)
<1>1. CASE QueueRuns
  BY <1>1 DEF QueueRuns, Refresh, Refreshed, CursorChanged, ColorChanged, Runs, Taken
<1>2. CASE ShellGoes
  BY <1>2 DEF ShellGoes, Clear, Send, Sent, Assign, kernel, workq
<1>3. CASE (\E p \in 0..Pixels : WriteCursor(p)) \/ \E c \in Name : WriteColor(c)
  BY <1>3 DEF WriteCursor, WriteColor, kernel, workq
<1>4. CASE On
  BY <1>4 DEF On, Item
<1>5. CASE \E cancel \in BOOLEAN : PutOut(cancel)
  BY <1>5 DEF PutOut
<1>6. CASE Start \/ \E p \in -1..Pixels, c \in Color : Set(p, c)
  BY <1>6 DEF Start, Set, kernel, workq
<1>7. ASSUME NEW i \in Item, TimerFires(i)
      PROVE  i \in Item \ {"cursor", "color"} /\ queue' = Submit(queue, i)
  BY <1>7 DEF TimerFires, StripTyped, Delayable
<1>8. CASE PwmNext
  BY <1>8 DEF PwmNext, Go, Tone, Light, SetValue, ScheduleOff, AdjustLight, Adjust,
              SetLevels, TurnOff, PreSleep, PreSlept, workq, Runs, Taken
<1>9. CASE UNCHANGED vars
  BY <1>9 DEF vars, pwmVars, workq
<1>10. QED
  BY <1>1, <1>2, <1>3, <1>4, <1>5, <1>6, <1>7, <1>8, <1>9 DEF Next, StripNext

\* An item that is queued stays so until its handler takes it or, the refresh, until
\* it is withdrawn.
LEMMA QueuedStays ==
  ASSUME StripTyped, [Next]_vars, NEW x, Queued(queue, x), ~(Taken /\ x = Head(queue))
  PROVE  \/ Queued(queue', x)
         \/ x = "refresh" /\ \E cancel \in BOOLEAN : PutOut(cancel)
<1>1. queue \in Seq(Item) /\ {"refresh", "cursor", "color"} \subseteq Item
  BY DEF StripTyped, TypeOK, PwmTypeOK, Item
<1>2. ASSUME NEW w \in Item, queue' = Submit(queue, w)
      PROVE  Queued(queue', x)
  BY <1>1, <1>2, SubmitQueued
<1>3. CASE SubmitChange
  BY <1>1, <1>2, <1>3 DEF SubmitChange, StripTyped, TypeOK
<1>4. CASE queue' = Withdraw(queue, "refresh")
  <2>1. Queued(queue', x) \/ x = "refresh"
    BY <1>1, <1>4, WithdrawQueue
  <2>2. CASE x # "refresh"
    BY <2>1, <2>2
  <2>3. CASE ~ \E cancel \in BOOLEAN : PutOut(cancel)
    BY <1>1, <1>2, <1>3, <2>3, QueueMoves, TailQueued
  <2>4. QED
    BY <2>2, <2>3
<1>5. CASE Taken /\ queue # << >> /\ queue' = Tail(queue)
  BY <1>1, <1>5, TailQueued
<1>6. QED
  BY <1>2, <1>3, <1>4, <1>5, QueueMoves

\* The items that wait for a delay go to the queue when it expires.  Only the refresh
\* is ever cancelled.
LEMMA PendingStays ==
  ASSUME StripTyped, [Next]_vars, NEW x, x # "refresh", Pending(x),
         ~(Taken /\ x = Head(queue))
  PROVE  Pending(x)'
<1>1. queue \in Seq(Item) /\ "refresh" \in Item
  BY DEF StripTyped, TypeOK, PwmTypeOK, Item
<1>2. CASE Queued(queue, x)
  BY <1>2, QueuedStays DEF Pending
<1>3. CASE x \in delayed
  <2>1. CASE \E i \in Item : TimerFires(i)
    <3>1. PICK i \in Item : TimerFires(i)
      BY <2>1
    <3>2. CASE x = i
      BY <1>1, <3>1, <3>2, SubmitQueued DEF TimerFires, Pending
    <3>3. CASE x # i
      BY <1>3, <3>1, <3>3 DEF TimerFires, Pending
    <3>4. QED
      BY <3>2, <3>3
  <2>2. CASE On
    BY <1>3, <2>2 DEF On, Pending
  <2>3. CASE \E cancel \in BOOLEAN : PutOut(cancel)
    BY <1>3, <2>3 DEF PutOut, Pending
  <2>4. CASE QueueRuns \/ ShellGoes \/ SubmitChange \/ Start
    BY <1>3, <2>4 DEF QueueRuns, ShellGoes, Refresh, Refreshed, CursorChanged, ColorChanged,
                      Clear, Send, Sent, Assign, SubmitChange, Start, Schedule, Pending,
                      kernel, workq
  <2>5. CASE \/ \E p \in 0..Pixels : WriteCursor(p)
             \/ \E c \in Name : WriteColor(c)
             \/ \E p \in -1..Pixels, c \in Color : Set(p, c)
    BY <1>3, <2>5 DEF WriteCursor, WriteColor, Set, kernel, workq, Pending
  <2>6. CASE PwmNext
    BY <1>3, <2>6 DEF PwmNext, Go, Tone, Light, SetValue, ScheduleOff, AdjustLight, Adjust,
                      SetLevels, TurnOff, PreSleep, PreSlept, workq, Schedule, Pending
  <2>7. CASE UNCHANGED vars
    BY <1>3, <2>7 DEF vars, pwmVars, workq, Pending
  <2>8. QED
    BY <2>1, <2>2, <2>3, <2>4, <2>5, <2>6, <2>7 DEF Next, StripNext
<1>4. QED
  BY <1>2, <1>3 DEF Pending

\* Somebody has switched channel c on and is about to schedule its end.
Calling(c) == \E t \in Thread : at[t] \in {"value", "schedule"} /\ channel[t] = c

Ending ==
  \A c \in Channel : level[c] > 0 /\ ~(c = "pwmled" /\ adrift) => Pending(Off[c]) \/ Calling(c)

\* A channel that is on has its end pending, when nobody is at it.
THEOREM SoundsEnd == Spec => []OnHasAnEnd
<1>1. Init => Ending
  BY DEF Init, PwmInit, Ending
<1>2. StripTyped /\ Ending /\ [Next]_vars => Ending'
  <2> SUFFICES ASSUME StripTyped, Ending, [Next]_vars, NEW c \in Channel,
                      level'[c] > 0, ~(c = "pwmled" /\ adrift')
               PROVE  Pending(Off[c])' \/ Calling(c)'
    BY DEF Ending
  <2>0. /\ level \in [Channel -> Level] /\ at \in [Thread -> {"idle", "value", "schedule", "adjust", "clear"}]
        /\ channel \in [Thread -> Channel] /\ queue \in Seq(Item)
        /\ Off[c] # "refresh"
    BY DEF StripTyped, TypeOK, PwmTypeOK, Channel, Off
  <2>1. ~(Taken /\ Off[c] = Head(queue))
    <3>1. ASSUME NEW d \in Channel, TurnOff(d), Off[c] = Head(queue)
          PROVE  FALSE
      <4>1. d = c
        BY <3>1 DEF TurnOff, Runs, Channel, Off
      <4>2. level'[c] = 0
        BY <2>0, <3>1, <4>1 DEF TurnOff
      <4>3. QED
        BY <4>2
    <3>2. Head(queue) = Off[c] => ~(Refresh \/ CursorChanged \/ ColorChanged)
      BY DEF Channel, Off, Refresh, CursorChanged, ColorChanged, Runs
    <3>3. QED
      BY <3>1, <3>2 DEF Taken
  <2>2. Pending(Off[c]) => Pending(Off[c])'
    BY <2>0, <2>1, PendingStays
  <2>3. ASSUME level'[c] = level[c], adrift' = adrift, Calling(c) => Calling(c)'
        PROVE  Pending(Off[c])' \/ Calling(c)'
    BY <2>2, <2>3 DEF Ending
  <2>4. UNCHANGED caller => (Calling(c) => Calling(c)')
    BY DEF caller, Calling
  <2>5. ASSUME NEW t \in Thread, at[t] \notin {"value", "schedule"},
               \A u \in Thread \ {t} : at'[u] = at[u] /\ channel'[u] = channel[u]
        PROVE  Calling(c) => Calling(c)'
    BY <2>5 DEF Calling
  <2>6. ASSUME NEW t \in Thread, Tone(t)
        PROVE  Pending(Off[c])' \/ Calling(c)'
    <3>1. CASE c = "spkr"
      <4>1. at'[t] = "schedule" /\ channel'[t] = "spkr"
        BY <2>0, <2>6 DEF Tone
      <4>2. QED
        BY <3>1, <4>1 DEF Calling
    <3>2. CASE c # "spkr"
      <4>1. Calling(c) => Calling(c)'
        BY <2>0, <2>5, <2>6 DEF Tone
      <4>2. level'[c] = level[c] /\ adrift' = adrift
        BY <2>0, <2>6, <3>2 DEF Tone
      <4>3. QED
        BY <2>3, <4>1, <4>2
    <3>3. QED
      BY <3>1, <3>2
  <2>7. ASSUME NEW t \in Thread, NEW d \in Level, Light(t, d)
        PROVE  Pending(Off[c])' \/ Calling(c)'
    <3>1. CASE c = "pwmled"
      <4>1. at'[t] = "value" /\ channel'[t] = "pwmled"
        BY <2>0, <2>7 DEF Light
      <4>2. QED
        BY <3>1, <4>1 DEF Calling
    <3>2. CASE c # "pwmled"
      <4>1. Calling(c) => Calling(c)'
        BY <2>0, <2>5, <2>7 DEF Light
      <4>2. level'[c] = level[c] /\ adrift' = adrift
        BY <2>0, <2>7, <3>2 DEF Light
      <4>3. QED
        BY <2>3, <4>1, <4>2
    <3>3. QED
      BY <3>1, <3>2
  <2>8. ASSUME NEW t \in Thread, SetValue(t)
        PROVE  Pending(Off[c])' \/ Calling(c)'
    <3>1. Calling(c) => Calling(c)'
      BY <2>0, <2>8 DEF SetValue, Calling
    <3>2. QED
      BY <2>3, <2>8, <3>1 DEF SetValue
  <2>9. ASSUME NEW t \in Thread, ScheduleOff(t)
        PROVE  Pending(Off[c])' \/ Calling(c)'
    <3>1. CASE channel[t] = c
      BY <2>9, <3>1 DEF ScheduleOff, Schedule, Pending
    <3>2. CASE channel[t] # c
      <4>1. Calling(c) => Calling(c)'
        BY <2>0, <2>9, <3>2 DEF ScheduleOff, Calling
      <4>2. c = "pwmled" => adrift' = adrift
        BY <2>9, <3>2 DEF ScheduleOff, StripTyped, TypeOK, PwmTypeOK
      <4>3. level'[c] = level[c]
        BY <2>9 DEF ScheduleOff
      <4>4. QED
        BY <2>2, <4>1, <4>2, <4>3 DEF Ending
    <3>3. QED
      BY <3>1, <3>2
  <2>10. ASSUME NEW d \in Channel, TurnOff(d)
         PROVE  Pending(Off[c])' \/ Calling(c)'
    <3>1. d # c
      BY <2>0, <2>10 DEF TurnOff
    <3>2. level'[c] = level[c] /\ (c = "pwmled" => adrift' = adrift)
      BY <2>0, <2>10, <3>1 DEF TurnOff, StripTyped, TypeOK, PwmTypeOK, Channel
    <3>3. Calling(c) => Calling(c)'
      BY <2>4, <2>10 DEF TurnOff
    <3>4. QED
      BY <2>2, <3>2, <3>3 DEF Ending
  <2>11. ASSUME NEW t \in Thread, NEW delta \in {-1, 1}, Adjust(t, delta)
         PROVE  Pending(Off[c])' \/ Calling(c)'
    <3>1. Calling(c) => Calling(c)'
      BY <2>0, <2>5, <2>11 DEF Adjust
    <3>2. QED
      BY <2>3, <2>11, <3>1 DEF Adjust
  <2>12. ASSUME NEW t \in Thread, AdjustLight(t)
         PROVE  Pending(Off[c])' \/ Calling(c)'
    <3>1. CASE c = "pwmled"
      BY <2>2, <2>12, <3>1 DEF AdjustLight, Off
    <3>2. CASE c # "pwmled"
      <4>1. Calling(c) => Calling(c)'
        BY <2>0, <2>5, <2>12 DEF AdjustLight
      <4>2. level'[c] = level[c]
        BY <2>0, <2>12, <3>2 DEF AdjustLight
      <4>3. QED
        BY <2>2, <3>2, <4>1, <4>2 DEF Ending
    <3>3. QED
      BY <3>1, <3>2
  <2>13. CASE (\E v, d \in Level : SetLevels(v, d)) \/ (\E i \in Item : TimerFires(i))
    BY <2>3, <2>4, <2>13 DEF SetLevels, TimerFires
  <2>14. CASE PreSleep
    BY <2>0, <2>14 DEF PreSleep
  <2>15. CASE PreSlept
    <3>1. Calling(c) => Calling(c)'
      BY <2>0, <2>15 DEF PreSlept, Calling
    <3>2. QED
      BY <2>3, <2>15, <3>1 DEF PreSlept
  <2>16. CASE StripNext
    <3>1. UNCHANGED output
      BY <2>16 DEF StripNext, QueueRuns, ShellGoes, Refresh, Refreshed, CursorChanged,
                   ColorChanged, Clear, Send, Sent, Assign, SubmitChange, WriteCursor,
                   WriteColor, On, PutOut, Start, Set
    <3>2. QED
      BY <2>3, <2>4, <3>1 DEF output
  <2>17. CASE UNCHANGED vars
    BY <2>3, <2>4, <2>17 DEF vars, pwmVars
  <2>18. QED
    BY <2>6, <2>7, <2>8, <2>9, <2>10, <2>11, <2>12, <2>13, <2>14, <2>15, <2>16, <2>17
       DEF Next, PwmNext, Go
<1>3. StripTyped /\ Ending => OnHasAnEnd
  BY DEF Ending, Calling, OnHasAnEnd
<1>4. QED
  BY <1>1, <1>2, <1>3, StripTypes, PTL DEF Spec

\* Unless a pixel was drawn since, or the shell is about to send, what was begun last
\* sends the picture, or has ended: then the strip shows it, or the end of a sending
\* that failed or was overtaken has torn it.
Begun(t) == IF t = "queue" THEN blocked ELSE strip = "sending"

PictureGoes ==
  ~unsent /\ strip # "send" =>
    IF Begun(last) THEN sending[last] = pixels ELSE torn \/ shown = pixels

\* When nothing is being sent, the strip shows the picture.
THEOREM PictureIsShown == Spec => []ShowsPicture
<1>1. Init => PictureGoes
  BY DEF Init, PwmInit, PictureGoes, Begun
<1>2. StripTyped /\ PictureGoes /\ [Next]_vars => PictureGoes'
  <2> SUFFICES ASSUME StripTyped, PictureGoes, [Next]_vars
               PROVE  PictureGoes'
    OBVIOUS
  <2>0. /\ sending \in [{"queue", "shell"} -> Picture \cup {NULL}]
        /\ strip \in {"idle", "clear", "send", "sending", "assign"}
        /\ unsent \in BOOLEAN /\ last \in {"queue", "shell"}
    BY DEF StripTyped, TypeOK
  <2>a. ASSUME UNCHANGED <<blocked, pixels, shown, sending, last, torn, unsent>>,
               \/ strip' = strip
               \/ strip \notin {"send", "sending"} /\ strip' \notin {"send", "sending"}
        PROVE  PictureGoes'
    BY <2>a DEF PictureGoes, Begun
  <2>1. CASE Refresh
    BY <2>0, <2>1 DEF Refresh, BeginSending, PictureGoes, Begun
  <2>2. CASE Refreshed
    <3>1. CASE last = "queue"
      BY <2>0, <2>2, <3>1 DEF Refreshed, EndSending, PictureGoes, Begun
    <3>2. CASE last = "shell"
      BY <2>0, <2>2, <3>2 DEF Refreshed, EndSending, PictureGoes, Begun, drawn
    <3>3. QED
      BY <2>0, <3>1, <3>2
  <2>3. CASE CursorChanged
    BY <2>a, <2>3 DEF CursorChanged, wire
  <2>4. CASE ColorChanged
    <3>1. CASE UNCHANGED <<pixels, unsent>>
      BY <2>a, <2>4, <3>1 DEF ColorChanged, wire
    <3>2. CASE unsent'
      BY <3>2 DEF PictureGoes
    <3>3. QED
      BY <2>4, <3>1, <3>2 DEF ColorChanged
  <2>5. CASE \/ \E p \in 0..Pixels : WriteCursor(p)
             \/ \E c \in Name : WriteColor(c)
             \/ SubmitChange
    BY <2>a, <2>5 DEF WriteCursor, WriteColor, SubmitChange, wire, kernel, workq
  <2>6. CASE On
    BY <2>a, <2>6 DEF On, stripVars
  <2>7. CASE \E cancel \in BOOLEAN : PutOut(cancel)
    BY <2>a, <2>7 DEF PutOut, Shell, wire
  <2>8. CASE Clear \/ \E p \in -1..Pixels, c \in Color : Set(p, c)
    BY <2>8 DEF Clear, Set, PictureGoes
  <2>9. CASE Send
    BY <2>0, <2>9 DEF Send, BeginSending, PictureGoes, Begun
  <2>10. CASE Sent
    <3>1. CASE last = "shell"
      BY <2>0, <2>10, <3>1 DEF Sent, EndSending, PictureGoes, Begun
    <3>2. CASE last = "queue"
      BY <2>0, <2>10, <3>2 DEF Sent, EndSending, PictureGoes, Begun, kernel, workq
    <3>3. QED
      BY <2>0, <3>1, <3>2
  <2>11. CASE Start \/ Assign
    BY <2>a, <2>11 DEF Start, Assign, Shell, wire, kernel, workq
  <2>12. CASE (PwmNext \/ \E i \in Item : TimerFires(i)) /\ UNCHANGED stripVars
    <3>1. blocked' = blocked
      BY <2>12 DEF PwmNext, Go, Tone, Light, SetValue, ScheduleOff, AdjustLight, Adjust,
                   SetLevels, TurnOff, PreSleep, PreSlept, TimerFires, workq
    <3>2. QED
      BY <2>a, <2>12, <3>1 DEF stripVars
  <2>13. CASE UNCHANGED vars
    BY <2>a, <2>13 DEF vars, pwmVars, workq, stripVars
  <2>14. QED
    BY <2>1, <2>2, <2>3, <2>4, <2>5, <2>6, <2>7, <2>8, <2>9, <2>10, <2>11, <2>12, <2>13
       DEF Next, StripNext, QueueRuns, ShellGoes
<1>3. StripTyped /\ PictureGoes => ShowsPicture
  BY DEF StripTyped, TypeOK, PictureGoes, Begun, ShowsPicture
<1>4. QED
  BY <1>1, <1>2, <1>3, StripTypes, PTL DEF Spec

\* The cursor follows its variable, unless the leaf was started while it was written,
\* and a start that is not overtaken assigns what the variable holds.
CursorFollows ==
  /\ ~behind /\ writer # "cursor" /\ ~Queued(queue, "cursor") => cursor = cursor_value
  /\ ~behind /\ strip = "assign" => fetched = cursor_value

LEMMA CursorIsSet ==
  ASSUME StripTyped, CursorFollows, [Next]_vars
  PROVE  CursorFollows'
<1>0. /\ behind \in BOOLEAN /\ writer \in {"cursor", "color", NULL}
      /\ queue \in Seq(Item) /\ {"refresh", "cursor", "color"} \subseteq Item
      /\ NULL \notin {"cursor", "color"}
  BY StripAssumption DEF StripTyped, TypeOK, PwmTypeOK, Item
<1>1. CASE CursorChanged
  BY <1>0, <1>1 DEF CursorChanged, CursorFollows
<1>2. ~Queued(queue', "cursor") => CursorChanged \/ ~Queued(queue, "cursor")
  <2>1. "cursor" = Head(queue) => CursorChanged \/ ~Taken
    BY DEF Taken, Refresh, TurnOff, ColorChanged, Runs, Channel, Off
  <2>2. QED
    BY <2>1, QueuedStays
<1>3. CASE Refresh \/ Refreshed \/ ColorChanged
  BY <1>1, <1>2, <1>3 DEF Refresh, Refreshed, ColorChanged, Runs, CursorFollows, drawn
<1>4. CASE \E p \in 0..Pixels : WriteCursor(p)
  BY <1>0, <1>4 DEF WriteCursor, CursorFollows
<1>5. CASE \E c \in Name : WriteColor(c)
  BY <1>0, <1>1, <1>2, <1>5 DEF WriteColor, CursorFollows, kernel, workq
<1>6. CASE SubmitChange
  <2>1. Queued(queue', writer)
    BY <1>0, <1>6, SubmitQueued DEF SubmitChange
  <2>2. QED
    BY <1>1, <1>2, <1>6, <2>1 DEF SubmitChange, CursorFollows
<1>7. CASE On
  BY <1>1, <1>2, <1>7 DEF On, stripVars, CursorFollows
<1>8. CASE \E cancel \in BOOLEAN : PutOut(cancel)
  BY <1>1, <1>2, <1>8 DEF PutOut, CursorFollows, drawn
<1>9. CASE Clear \/ Send \/ Sent \/ \E p \in -1..Pixels, c \in Color : Set(p, c)
  BY <1>1, <1>2, <1>9 DEF Clear, Send, Sent, Set, CursorFollows, drawn
<1>10. CASE Start
  BY <1>0, <1>1, <1>2, <1>10 DEF Start, CursorFollows
<1>11. CASE Assign
  BY <1>0, <1>1, <1>2, <1>11 DEF Assign, CursorFollows
<1>12. CASE UNCHANGED stripVars
  BY <1>1, <1>2, <1>12 DEF stripVars, CursorFollows
<1>13. QED
  BY <1>1, <1>3, <1>4, <1>5, <1>6, <1>7, <1>8, <1>9, <1>10, <1>11, <1>12
     DEF Next, StripNext, QueueRuns, ShellGoes, vars

\* While the last write was a colour and no earlier one was still to be drawn, the
\* cursor's change comes before the colour's, and what has been drawn is that colour.
ColorFollows ==
  /\ latest => writer # "cursor"
  /\ latest /\ ~crossed => Before(queue, "cursor", "color")
                           /\ (writer = "color" => ~Queued(queue, "color"))
  /\ latest /\ ~crossed /\ ~behind /\ writer # "color" /\ ~Queued(queue, "color")
       /\ color_value \in Color /\ cursor_value < Pixels
     => pixels[cursor_value] = color_value

\* A colour lands under the cursor as it was when the colour was written.
THEOREM ColorsLand == Spec => []ColorLands
<1>1. Init => CursorFollows /\ ColorFollows
  BY DEF Init, CursorFollows, ColorFollows
<1>2. StripTyped /\ CursorFollows /\ ColorFollows /\ [Next]_vars => ColorFollows'
  <2> SUFFICES ASSUME StripTyped, CursorFollows, ColorFollows, [Next]_vars
               PROVE  ColorFollows'
    OBVIOUS
  <2>0. /\ behind \in BOOLEAN /\ latest \in BOOLEAN /\ crossed \in BOOLEAN
        /\ writer \in {"cursor", "color", NULL}
        /\ pixels \in Picture /\ cursor_value \in 0..Pixels
        /\ queue \in Seq(Item) /\ {"refresh", "cursor", "color"} \subseteq Item
        /\ Pixels \in Nat /\ NULL \notin {"cursor", "color"}
    BY StripAssumption DEF StripTyped, TypeOK, PwmTypeOK, Item
  <2>1. ~Queued(queue', "color") => ColorChanged \/ ~Queued(queue, "color")
    <3>1. "color" = Head(queue) => ColorChanged \/ ~Taken
      BY DEF Taken, Refresh, TurnOff, CursorChanged, Runs, Channel, Off
    <3>2. QED
      BY <3>1, QueuedStays
  <2>2. ASSUME ~SubmitChange
        PROVE  /\ Before(queue, "cursor", "color") => Before(queue', "cursor", "color")
               /\ ~Queued(queue, "color") => ~Queued(queue', "color")
    <3>1. ASSUME NEW w \in Item \ {"cursor", "color"}, queue' = Submit(queue, w)
          PROVE  /\ Before(queue, "cursor", "color") => Before(queue', "cursor", "color")
                 /\ ~Queued(queue, "color") => ~Queued(queue', "color")
      <4>1. w \in Item /\ w # "cursor" /\ w # "color"
        BY <3>1
      <4>2. Before(queue, "cursor", "color") => Before(queue', "cursor", "color")
        BY <2>0, <3>1, <4>1, OrderKept
      <4>3. ~Queued(queue, "color") => ~Queued(queue', "color")
        BY <2>0, <3>1, <4>1, SubmitQueued
      <4>4. QED
        BY <4>2, <4>3
    <3>2. CASE queue' = Withdraw(queue, "refresh")
      BY <2>0, <3>2, WithdrawQueue, OrderKept
    <3>3. CASE queue # << >> /\ queue' = Tail(queue)
      BY <2>0, <3>3, TailQueued, OrderKept
    <3>4. QED
      BY <2>2, <3>1, <3>2, <3>3, QueueMoves
  <2>3. ASSUME ~ColorChanged, ~SubmitChange,
               UNCHANGED <<writer, pixels, cursor_value, color_value>>,
               latest' => latest /\ crossed' = crossed /\ pixels' = pixels, ~behind' => ~behind
        PROVE  ColorFollows'
    <3>1. latest' => writer' # "cursor"
      BY <2>3 DEF ColorFollows
    <3>2. latest' /\ ~crossed' => Before(queue', "cursor", "color")
                                 /\ (writer' = "color" => ~Queued(queue', "color"))
      BY <2>2, <2>3 DEF ColorFollows
    <3>3. latest' /\ ~crossed' /\ ~behind' /\ writer' # "color" /\ ~Queued(queue', "color")
            /\ color_value' \in Color /\ cursor_value' < Pixels
          => pixels'[cursor_value'] = color_value'
      BY <2>1, <2>3 DEF ColorFollows
    <3>4. QED
      BY <3>1, <3>2, <3>3 DEF ColorFollows
  <2>4. CASE ColorChanged
    <3>1. ~SubmitChange /\ UNCHANGED <<latest, crossed, behind, writer, color_value, cursor_value>>
      BY <2>4 DEF ColorChanged, drawn, SubmitChange
    <3>2. ASSUME latest, ~crossed, ~behind, color_value \in Color, cursor_value < Pixels
          PROVE  pixels'[cursor_value] = color_value
      <4>1. ~Queued(queue, "cursor") /\ writer # "cursor"
        BY <2>0, <2>4, <3>2, OrderEnds DEF ColorChanged, Runs, ColorFollows
      <4>2. cursor = cursor_value
        BY <3>2, <4>1 DEF CursorFollows
      <4>3. pixels' = [pixels EXCEPT ![cursor_value] = color_value]
        BY <2>4, <3>2, <4>2 DEF ColorChanged, OnStrip
      <4>4. cursor_value \in DOMAIN pixels
        BY <2>0, <3>2 DEF Picture, Position
      <4>5. QED
        BY <4>3, <4>4
    <3>3. QED
      BY <2>2, <3>1, <3>2 DEF ColorFollows
  <2>5. CASE Refresh \/ Refreshed \/ CursorChanged
    <3>1. ~ColorChanged \/ UNCHANGED pixels
      BY <2>5 DEF Refresh, Refreshed, CursorChanged
    <3>2. QED
      BY <2>3, <2>4, <2>5, <3>1 DEF Refresh, Refreshed, CursorChanged, SubmitChange, drawn
  <2>6. CASE \E p \in 0..Pixels : WriteCursor(p)
    BY <2>0, <2>6 DEF WriteCursor, ColorFollows
  <2>7. ASSUME NEW c \in Name, WriteColor(c)
        PROVE  ColorFollows'
    <3>1. crossed' = Queued(queue, "color") /\ queue' = queue /\ writer' = "color"
      BY <2>7 DEF WriteColor, kernel, workq
    <3>2. ~crossed' => ~Queued(queue', "color") /\ Before(queue', "cursor", "color")
      BY <2>0, <3>1, OrderEnds
    <3>3. QED
      BY <3>1, <3>2 DEF ColorFollows
  <2>8. CASE SubmitChange
    <3>1. CASE writer = "color"
      <4>1. Before(queue, "cursor", "color") => Before(queue', "cursor", "color")
        BY <2>0, <2>8, <3>1, OrderKept DEF SubmitChange
      <4>2. Queued(queue', "color")
        BY <2>0, <2>8, <3>1, SubmitQueued DEF SubmitChange
      <4>3. QED
        BY <2>0, <2>8, <4>1, <4>2 DEF SubmitChange, ColorFollows
    <3>2. CASE writer # "color"
      <4>1. writer = "cursor" /\ ~latest
        BY <2>0, <2>8, <3>2 DEF SubmitChange, ColorFollows
      <4>2. QED
        BY <2>8, <4>1 DEF SubmitChange, ColorFollows
    <3>3. QED
      BY <3>1, <3>2
  <2>9. CASE On \/ UNCHANGED stripVars
    BY <2>3, <2>4, <2>8, <2>9 DEF On, stripVars
  <2>10. CASE \E cancel \in BOOLEAN : PutOut(cancel)
    BY <2>3, <2>4, <2>8, <2>10 DEF PutOut, drawn
  <2>11. CASE Clear \/ \E p \in -1..Pixels, c \in Color : Set(p, c)
    BY <2>11 DEF Clear, Set, ColorFollows
  <2>12. CASE Send \/ Sent \/ Assign
    BY <2>3, <2>4, <2>8, <2>12 DEF Send, Sent, Assign, drawn
  <2>13. CASE Start
    BY <2>0, <2>3, <2>4, <2>8, <2>13 DEF Start
  <2>14. QED
    BY <2>4, <2>5, <2>6, <2>7, <2>8, <2>9, <2>10, <2>11, <2>12, <2>13
       DEF Next, StripNext, QueueRuns, ShellGoes, vars
<1>3. ColorFollows => ColorLands
  BY StripAssumption DEF ColorFollows, ColorLands
<1>4. QED
  BY <1>1, <1>2, <1>3, CursorIsSet, StripTypes, PTL DEF Spec

=============================================================================
