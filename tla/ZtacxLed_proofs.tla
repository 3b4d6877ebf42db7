--------------------------- MODULE ZtacxLed_proofs ---------------------------
(***************************************************************************)
(* Proofs about ZtacxLed, for any duties and commands: its types, and that *)
(* the blink chain never loses its last link.                              *)
(***************************************************************************)
EXTENDS ZtacxLed, Common_proofs

\* Every variable of the LED's model keeps its type, and the work queue holds
\* only the LED's two items.
THEOREM TypeCorrect == Spec => []TypeOK
<1>1. Init => TypeOK
  <2>1. <<"ledon">> \in Seq(Item) /\ 0 \in 0..MaxCommands
    BY LedAssumption DEF Item
  <2>2. QED
    BY <2>1 DEF Init, TypeOK
<1>2. TypeOK /\ [Next]_vars => TypeOK'
  <2> SUFFICES ASSUME TypeOK, [Next]_vars
               PROVE  TypeOK'
    OBVIOUS
  <2> USE DEF TypeOK
  <2>0. "ledon" \in Item /\ "ledoff" \in Item
    BY DEF Item
  <2>1. ASSUME NEW i \in Item, TimerFires(i)
        PROVE  TypeOK'
    BY <2>1, SubmitQueued DEF TimerFires
  <2>2. CASE turn_led_on
    <3>1. queue' \in Seq(Item)
      BY <2>2, TailQueued DEF turn_led_on, Runs
    <3>2. QED
      BY <2>2, <2>0, <3>1 DEF turn_led_on, Runs, Schedule, AfterOn
  <2>3. CASE turn_led_off
    <3>1. queue' \in Seq(Item)
      BY <2>3, TailQueued DEF turn_led_off, Runs
    <3>2. QED
      BY <2>3, <2>0, <3>1 DEF turn_led_off, Runs, Schedule, AfterOff
  <2>4. ASSUME NEW cmd, NEW i \in Item, Switch(cmd, i)
        PROVE  TypeOK'
    BY <2>4, SubmitQueued, LedAssumption DEF Switch, Commands
  <2>5. ASSUME NEW d \in Duty, SetDuty(d)
        PROVE  TypeOK'
    BY <2>5, LedAssumption DEF SetDuty, Commands
  <2>6. CASE SetBlink \/ Unlist \/ PreSleep
    <3>1. commands' \in 0..MaxCommands
      BY <2>6, LedAssumption DEF SetBlink, Unlist, PreSleep, Commands
    <3>2. blink' \in BOOLEAN /\ listed' \in BOOLEAN
      BY <2>6 DEF SetBlink, Unlist, PreSleep
    <3>3. gpio' \in {0, 1} /\ UNCHANGED <<delayed, queue, duty, started, shell>>
      BY <2>6 DEF SetBlink, Unlist, PreSleep
    <3>4. QED
      BY <3>1, <3>2, <3>3
  <2>7. CASE Stop
    <3>1. queue' \in Seq(Item)
      BY <2>7, WithdrawQueue DEF Stop
    <3>2. QED
      BY <2>7, <3>1, LedAssumption DEF Stop, Commands
  <2>8. CASE StopLedoff \/ StopGpio
    <3>1. queue' \in Seq(Item)
      BY <2>8, WithdrawQueue DEF StopLedoff, StopGpio
    <3>2. QED
      BY <2>8, <3>1 DEF StopLedoff, StopGpio
  <2>9. CASE Start
    BY <2>9, <2>0, SubmitQueued, LedAssumption DEF Start, Commands
  <2>10. CASE UNCHANGED vars
    BY <2>10 DEF vars
  <2>11. QED
    BY <2>0, <2>1, <2>2, <2>3, <2>4, <2>5, <2>6, <2>7, <2>8, <2>9, <2>10 DEF Next
<1>3. QED
  BY <1>1, <1>2, PTL DEF Spec

-----------------------------------------------------------------------------
\* A handler that has found its leaf leaves the item it schedules pending: the
\* item is queued already, delayed already, or delayed now.
LEMMA SchedulePends ==
  ASSUME TypeOK, NEW i \in Item, queue' = Tail(queue), Schedule(i)
  PROVE  Pending(i)'
BY DEF Schedule, Pending

\* A submission leaves its item pending.
LEMMA SubmitPends ==
  ASSUME TypeOK, NEW i \in Item, queue' = Submit(queue, i)
  PROVE  Pending(i)'
BY SubmitQueued DEF TypeOK, Pending

\* The blink chain never loses its last link while the LED is started, listed and
\* not being stopped, whatever commands and writes fall between its handlers.
THEOREM ChainNeverDies == Spec => []ChainAlive
<1>1. Init => ChainAlive
  <2> SUFFICES ASSUME Init
               PROVE  Queued(queue, "ledon") /\ "ledon" \in Item
    BY DEF ChainAlive, Pending
  <2>1. queue = <<"ledon">>
    BY DEF Init
  <2>2. 1 \in DOMAIN queue /\ queue[1] = "ledon"
    BY <2>1
  <2>3. QED
    BY <2>2 DEF Queued, Range, Item
<1>2. TypeOK /\ ChainAlive /\ [Next]_vars => ChainAlive'
  <2> SUFFICES ASSUME TypeOK, ChainAlive, [Next]_vars, (started /\ listed /\ shell = "idle")'
               PROVE  (\E i \in Item : Pending(i))'
    BY DEF ChainAlive
  <2>0. "ledon" \in Item /\ "ledoff" \in Item
    BY DEF Item
  <2>1. ASSUME NEW i \in Item, TimerFires(i)
        PROVE  (\E j \in Item : Pending(j))'
    BY <2>1, SubmitPends DEF TimerFires
  <2>2. CASE turn_led_on
    <3>1. listed
      BY <2>2 DEF turn_led_on, Runs
    <3>2. AfterOn \in Item
      BY <2>0 DEF AfterOn
    <3>3. QED
      BY <2>2, <3>1, <3>2, SchedulePends DEF turn_led_on, Runs
  <2>3. CASE turn_led_off
    <3>1. listed
      BY <2>3 DEF turn_led_off, Runs
    <3>2. AfterOff \in Item
      BY <2>0 DEF AfterOff
    <3>3. QED
      BY <2>3, <3>1, <3>2, SchedulePends DEF turn_led_off, Runs
  <2>4. ASSUME NEW cmd, NEW i \in Item, Switch(cmd, i)
        PROVE  (\E j \in Item : Pending(j))'
    BY <2>4, SubmitPends DEF Switch
  <2>5. CASE (\E d \in Duty : SetDuty(d)) \/ SetBlink \/ Unlist \/ PreSleep \/ UNCHANGED vars
    <3>1. UNCHANGED <<delayed, queue>> /\ started /\ listed /\ shell = "idle"
      BY <2>5 DEF SetDuty, SetBlink, Unlist, PreSleep, Commands, vars
    <3>2. QED
      BY <3>1 DEF ChainAlive, Pending
  <2>6. CASE Stop \/ StopLedoff \/ StopGpio
    BY <2>6 DEF Stop, StopLedoff, StopGpio
  <2>7. CASE Start
    BY <2>7, <2>0, SubmitPends DEF Start
  <2>8. QED
    BY <2>0, <2>1, <2>2, <2>3, <2>4, <2>5, <2>6, <2>7 DEF Next
<1>3. QED
  BY <1>1, <1>2, TypeCorrect, PTL DEF Spec

=============================================================================
