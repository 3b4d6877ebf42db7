---------------------- MODULE ZtacxBtPeripheral_proofs ----------------------
(***************************************************************************)
(* Proofs about the Bluetooth peripheral.                                  *)
(*                                                                         *)
(* ZtacxBtPeripheral, for any data sets and commands: its types; that what *)
(* is on the air is what is registered; and, for an application that has   *)
(* registered one data set, as the samples do, that it is flagged.         *)
(*                                                                         *)
(* ZtacxBtServices and ZtacxBtGatt: for any services, characteristics,     *)
(* values and writes, their types, that the stack has the whole of every   *)
(* service it knows, that the observer of an attribute ends up with its    *)
(* value, and that a central reads what whole writes and stores leave.     *)
(***************************************************************************)
EXTENDS ZtacxBtPeripheral, ZtacxBtGatt, Common_proofs

-----------------------------------------------------------------------------
(* Advertising and connections.                                            *)

\* What reaches the radio has a pointer: advertise looks at it before it starts, and it
\* is never taken back.
DataInv ==
  /\ pc["app"] \in {"idle", "flag", "adv_stop", "clear", "submit"} \cup DOMAIN Storing
  /\ pc["app"] # "idle" => arg \in Data
  /\ \A c \in Context : pc[c] = "adv_start" => adv["data"] \in Data

\* Every step keeps the types.
LEMMA TypeStep == TypeOK /\ DataInv /\ [Next]_vars => TypeOK'
<1> SUFFICES ASSUME TypeOK, DataInv, [Next]_vars
             PROVE  TypeOK'
  OBVIOUS
<1> USE DEF TypeOK
<1>0. "advertise" \in Work /\ "bt_ready" \in Work /\ Nothing \in Fields
  BY DEF Work, Nothing, Fields
<1>1. ASSUME NEW c \in Context, StopIfFlag(c) \/ AdvStop(c) \/ ClearFlag(c) \/ CheckData(c) \/ SetFlag(c)
      PROVE  TypeOK'
  BY <1>0, <1>1 DEF StopIfFlag, AdvStop, ClearFlag, CheckData, SetFlag, Goto, Step, values, datas, stack
<1>2. ASSUME NEW c \in Context, AdvStart(c)
      PROVE  TypeOK'
  <2>1. pc' \in [Context -> Step]
    <3>1. pc' = [pc EXCEPT ![c] = "set"] \/ pc' = [pc EXCEPT ![c] = "idle"]
      BY <1>2 DEF AdvStart, Goto
    <3>2. QED
      BY <3>1 DEF Step
  <2>2. onair' \in Fields /\ resume' \in Fields /\ refused' \subseteq {"name", "start"}
    BY <1>2 DEF AdvStart
  <2>3. QED
    BY <1>2, <2>1, <2>2 DEF AdvStart, values, datas
<1>3. ASSUME NEW d \in Data, Register(d)
      PROVE  TypeOK'
  BY <1>3 DEF Register, Goto, Step, Context, values, stack
<1>4. CASE Store
  <2>1. pc["app"] \in DOMAIN Storing /\ arg \in Data
    BY <1>4 DEF Store, DataInv, Storing
  <2>2. Storing[pc["app"]] \in Field /\ Following[pc["app"]] \in Step
    BY <2>1 DEF Storing, Following, Field, Step
  <2>3. adv' \in Fields
    BY <1>4, <2>1, <2>2 DEF Store, Fields
  <2>4. QED
    BY <1>4, <2>2, <2>3 DEF Store, Goto, values, stack
<1>5. CASE SubmitIfReady
  <2>1. queue' \in Seq(Work)
    BY <1>0, <1>5, SubmitQueued DEF SubmitIfReady
  <2>2. QED
    BY <1>5, <2>1 DEF SubmitIfReady, Goto, Step, Context, values, stack
<1>6. CASE RunAdvertise
  <2>1. queue' \in Seq(Work)
    BY <1>6, TailQueued DEF RunAdvertise
  <2>2. QED
    BY <1>6, <2>1 DEF RunAdvertise, Goto, Step, Context, values, datas, stack
<1>7. CASE RunBtReady
  <2>1. Tail(queue) \in Seq(Work)
    BY <1>7, TailQueued DEF RunBtReady
  <2>2. queue' \in Seq(Work)
    <3>1. Submit(Tail(queue), "advertise") \in Seq(Work)
      BY <1>0, <2>1, SubmitQueued
    <3>2. QED
      BY <1>7, <2>1, <3>1 DEF RunBtReady, AdvertiseName
  <2>3. pc' \in [Context -> Step] /\ up' \in BOOLEAN /\ refused' \subseteq {"name", "start"}
    BY <1>7 DEF RunBtReady, Goto, Step, Context
  <2>4. QED
    BY <1>7, <2>2, <2>3 DEF RunBtReady, values, datas
<1>8. CASE BtReadyOk
  BY <1>8 DEF BtReadyOk, Goto, Step, Context, datas, stack
<1>9. CASE Connected \/ ConnectFailed
  BY <1>0, <1>9 DEF Connected, ConnectFailed, datas, stack
<1>10. CASE Disconnected
  <2>1. queue' \in Seq(Work)
    BY <1>0, <1>10, SubmitQueued DEF Disconnected
  <2>2. onair' \in Fields
    BY <1>0, <1>10 DEF Disconnected
  <2>3. QED
    BY <1>10, <2>1, <2>2 DEF Disconnected, datas
<1>11. CASE ShellAdvertise \/ ShellStop \/ ShellName
  <2>1. commands' \in 0..MaxCommands /\ typed' \subseteq Command
    <3>1. \E cmd \in {"advertise", "advertise_stop", "name"} : Typed(cmd)
      BY <1>11 DEF ShellAdvertise, ShellStop, ShellName
    <3>2. QED
      BY <3>1, BtAssumption DEF Typed
  <2>2. queue' \in Seq(Work)
    <3>1. Submit(queue, "advertise") \in Seq(Work)
      BY <1>0, SubmitQueued
    <3>2. QED
      BY <1>11, <3>1 DEF ShellAdvertise, ShellStop, ShellName, AdvertiseName
  <2>3. pc' \in [Context -> Step] /\ onair' \in Fields /\ resume' \in Fields
    BY <1>0, <1>11 DEF ShellAdvertise, ShellStop, ShellName, Goto, Step, Context, stack
  <2>4. QED
    BY <1>11, <2>1, <2>2, <2>3 DEF ShellAdvertise, ShellStop, ShellName, values, datas, stack
<1>12. CASE UNCHANGED vars
  BY <1>12 DEF vars, values, datas, stack
<1>13. QED
  BY <1>1, <1>2, <1>3, <1>4, <1>5, <1>6, <1>7, <1>8, <1>9, <1>10, <1>11, <1>12
     DEF Next, Continue, AppStep, QueueStep

\* Every step keeps what is said of the data.
LEMMA DataStep == TypeOK /\ DataInv /\ [Next]_vars => DataInv'
<1> SUFFICES ASSUME TypeOK, DataInv, [Next]_vars
             PROVE  DataInv'
  OBVIOUS
<1> USE BtAssumption DEF DataInv, TypeOK, Context, Storing
<1>1. ASSUME NEW c \in Context, StopIfFlag(c) \/ AdvStop(c) \/ ClearFlag(c) \/ CheckData(c) \/ SetFlag(c)
      PROVE  DataInv'
  BY <1>1 DEF StopIfFlag, AdvStop, ClearFlag, CheckData, SetFlag, NoAdvData, Goto, values, datas, stack,
              Fields, Field
<1>2. ASSUME NEW c \in Context, AdvStart(c)
      PROVE  DataInv'
  <2>1. c # "app" /\ UNCHANGED datas
    BY <1>2 DEF AdvStart
  <2>2. pc'["app"] = pc["app"] /\ \A x \in Context : pc'[x] = "adv_start" => pc[x] = "adv_start"
    BY <1>2, <2>1 DEF AdvStart, Goto
  <2>3. QED
    BY <2>1, <2>2 DEF datas
<1>3. ASSUME NEW d \in Data, Register(d)
      PROVE  DataInv'
  BY <1>3 DEF Register, Goto, values, stack
<1>4. CASE Store
  <2>1. pc["app"] \in DOMAIN Storing /\ arg \in Data /\ arg' = arg
    BY <1>4 DEF Store
  <2>2. adv'["data"] \in Data \/ adv'["data"] = adv["data"]
    BY <1>4, <2>1 DEF Store, Fields, Field
  <2>3. pc' = [pc EXCEPT !["app"] = Following[pc["app"]]]
        /\ Following[pc["app"]] \in {"submit", "store_size", "store_scanresp", "store_scanresp_size"}
    BY <1>4, <2>1 DEF Store, Goto, Following
  <2>4. QED
    BY <2>1, <2>2, <2>3
<1>5. CASE SubmitIfReady \/ QueueStep
  BY <1>5 DEF SubmitIfReady, QueueStep, RunAdvertise, RunBtReady, BtReadyOk, Goto, values, datas, stack
<1>6. CASE Connected \/ ConnectFailed \/ Disconnected
  BY <1>6 DEF Connected, ConnectFailed, Disconnected, datas, stack
<1>7. CASE ShellAdvertise \/ ShellStop \/ ShellName
  BY <1>7 DEF ShellAdvertise, ShellStop, ShellName, Typed, Goto, values, datas, stack
<1>8. CASE UNCHANGED vars
  BY <1>8 DEF vars, values, datas, stack
<1>9. QED
  BY <1>1, <1>2, <1>3, <1>4, <1>5, <1>6, <1>7, <1>8 DEF Next, Continue, AppStep

LEMMA BothKept == Spec => [](TypeOK /\ DataInv)
<1>1. Init => TypeOK
  <2>1. <<"bt_ready">> \in Seq(Work) /\ 0 \in 0..MaxCommands
    BY BtAssumption DEF Work
  <2>2. QED
    BY <2>1 DEF Init, TypeOK, Step, Fields, Nothing
<1>2. Init => DataInv
  BY DEF Init, DataInv, Context
<1>3. QED
  BY <1>1, <1>2, TypeStep, DataStep, PTL DEF Spec

\* Every variable of the peripheral keeps its type, and the work queue holds only
\* bt_ready and advertise.
THEOREM TypeCorrect == Spec => []TypeOK
BY BothKept, PTL

-----------------------------------------------------------------------------
\* What keeps radio and flag together until a second data set is registered.  Before
\* the first is stored nothing has ever been on the air, so that the application's
\* stop finds nothing to stop; afterwards only the work queue's advertise starts and
\* stops, and it clears the flag with the radio off.
Silent == onair = Nothing /\ resume = Nothing
InStop == {"flag", "adv_stop", "clear", "stopped"}

FlagInv ==
  /\ pc["shell"] = "idle"
  /\ left = Data => pc["app"] = "idle" /\ adv["data"] = NoData
  /\ pc["app"] \in InStop => adv["data"] = NoData
  /\ adv["data"] = NoData => Silent /\ \A c \in Context : pc[c] # "set"
  /\ pc["sysworkq"] = "clear" => Silent
  /\ Silent \/ flag \/ pc["sysworkq"] = "set"

\* A data set is registered only once: with a first still registered, a second is not.
LEMMA OnlyOne ==
  ASSUME NEW d \in left, TypeOK, Once', left' = left \ {d}
  PROVE  left = Data /\ left' # Data
<1>1. d \in Data \ left'
  BY DEF TypeOK
<1>2. ASSUME NEW e \in Data \ left
      PROVE  FALSE
  <2>1. e \in Data \ left'
    OBVIOUS
  <2>2. e = d
    BY <1>1, <2>1 DEF Once
  <2>3. QED
    BY <2>2
<1>3. QED
  BY <1>1, <1>2 DEF TypeOK

LEMMA FlagKept == Spec => []("advertise" \notin typed /\ Once => FlagInv)
<1> DEFINE Inv == "advertise" \notin typed /\ Once => FlagInv
<1>1. Init => Inv
  BY DEF Init, FlagInv, Silent, InStop, Context, Nothing, Field
<1>2. TypeOK /\ DataInv /\ Inv /\ [Next]_vars => Inv'
  <2> SUFFICES ASSUME TypeOK, DataInv, Inv, [Next]_vars, "advertise" \notin typed', Once'
               PROVE  FlagInv'
    OBVIOUS
  <2>0. FlagInv
    <3>1. typed \subseteq typed' /\ left' \subseteq left
      BY DEF Next, Continue, StopIfFlag, AdvStop, ClearFlag, CheckData, AdvStart, SetFlag, Register,
             AppStep, Store, SubmitIfReady, QueueStep, RunAdvertise, RunBtReady,
             BtReadyOk, Connected, ConnectFailed, Disconnected, ShellAdvertise, ShellStop, ShellName,
             Typed, vars, datas
    <3>2. QED
      BY <3>1 DEF Once
  <2> USE <2>0 DEF FlagInv, Silent, InStop, Context
  <2>1. ASSUME NEW c \in Context, StopIfFlag(c) \/ AdvStop(c) \/ ClearFlag(c) \/ CheckData(c) \/ SetFlag(c)
        PROVE  FlagInv'
    BY <2>1 DEF StopIfFlag, AdvStop, ClearFlag, CheckData, SetFlag, NoAdvData, Goto, values, datas, stack,
                TypeOK, DataInv, Storing
  <2>2. ASSUME NEW c \in Context, AdvStart(c)
        PROVE  FlagInv'
    <3>1. c = "sysworkq" /\ adv["data"] # NoData
      BY <2>2, BtAssumption DEF AdvStart, DataInv, Storing
    <3>2. pc'["sysworkq"] \in {"set", "idle"} /\ pc'["app"] = pc["app"] /\ pc'["shell"] = pc["shell"]
      BY <2>2, <3>1 DEF AdvStart, Goto, TypeOK
    <3>3. pc'["sysworkq"] = "idle" => UNCHANGED <<onair, resume>>
      BY <2>2, <3>1 DEF AdvStart, Goto, TypeOK
    <3>4. UNCHANGED <<flag, adv, left>>
      BY <2>2 DEF AdvStart, values, datas
    <3>5. pc["sysworkq"] = "adv_start"
      BY <2>2, <3>1 DEF AdvStart
    <3>6. QED
      BY <3>1, <3>2, <3>3, <3>4, <3>5
  <2>3. ASSUME NEW d \in Data, Register(d)
        PROVE  FlagInv'
    BY <2>3, OnlyOne DEF Register, Goto, values, stack, TypeOK
  <2>4. CASE Store
    <3>1. pc["app"] \in DOMAIN Storing /\ arg \in Data /\ left # Data
      BY <2>4 DEF Store, DataInv, Storing
    <3>2. pc'["app"] = Following[pc["app"]] /\ Following[pc["app"]] \notin InStop \cup {"set"}
          /\ pc'["sysworkq"] = pc["sysworkq"] /\ pc'["shell"] = pc["shell"]
      BY <2>4, <3>1 DEF Store, Goto, Following, Storing, TypeOK
    <3>3. adv'["data"] = NoData => adv["data"] = NoData
      BY <2>4, <3>1, BtAssumption DEF Store, TypeOK, Fields, Field, Storing
    <3>4. UNCHANGED <<flag, onair, resume, left>>
      BY <2>4 DEF Store, values, stack
    <3>5. QED
      BY <3>1, <3>2, <3>3, <3>4
  <2>5. CASE SubmitIfReady
    BY <2>5 DEF SubmitIfReady, Goto, values, stack, TypeOK
  <2>6. CASE QueueStep
    BY <2>6 DEF QueueStep, RunAdvertise, RunBtReady, BtReadyOk, Goto, values, datas, stack, TypeOK
  <2>7. CASE Connected \/ ConnectFailed \/ Disconnected
    BY <2>7 DEF Connected, ConnectFailed, Disconnected, datas, stack
  <2>8. CASE ShellAdvertise \/ ShellStop \/ ShellName
    BY <2>8 DEF ShellAdvertise, ShellStop, ShellName, Typed, Goto, values, datas, stack
  <2>9. CASE UNCHANGED vars
    BY <2>9 DEF vars, values, datas, stack
  <2>10. QED
    BY <2>1, <2>2, <2>3, <2>4, <2>5, <2>6, <2>7, <2>8, <2>9 DEF Next, Continue, AppStep
<1>3. QED
  BY <1>1, <1>2, BothKept, PTL DEF Spec

\* Until a second data set is registered, what is on the air when nobody is inside
\* advertise or a registration is flagged ADVERTISING, so that stop_advertise will
\* stop it.
THEOREM FlagIsTrue == Spec => []FlagFollowsRadio
<1>1. ("advertise" \notin typed /\ Once => FlagInv) => FlagFollowsRadio
  BY DEF FlagInv, Silent, FlagFollowsRadio, Quiet, Context
<1>2. QED
  BY <1>1, FlagKept, PTL

-----------------------------------------------------------------------------
\* What is on the air and flagged, or about to be, is what is registered, unless a
\* registration is at its assignments, or an advertise that stops it is to come.
\* Before the leaf is OK nothing is on the air, so that a registration that does not
\* submit advertise leaves nothing old.
Replacing ==
  \/ pc["app"] \in {"store_size", "store_scanresp", "store_scanresp_size", "submit"}
  \/ Queued(queue, "advertise")
  \/ pc["sysworkq"] \in {"flag", "adv_stop"}

AirInv ==
  /\ pc["shell"] = "idle"
  /\ up => ok \/ pc["sysworkq"] = "ready"
  /\ ~ok => Silent
  /\ pc["sysworkq"] \in {"stopped", "adv_start"} => ~flag
  /\ pc["sysworkq"] = "clear" => Silent
  /\ onair # Nothing /\ (flag \/ pc["sysworkq"] = "set") => onair = adv \/ Replacing

\* What is on the air and flagged is what is registered, when nobody is inside
\* advertise or a registration and none is to come: for any data sets.
THEOREM RegisteredIsOnAir == Spec => []AirIsRegistered
<1> DEFINE Inv == "advertise" \notin typed => AirInv
<1>1. Init => Inv
  BY DEF Init, AirInv, Silent, Context
<1>2. TypeOK /\ DataInv /\ Inv /\ [Next]_vars => Inv'
  <2> SUFFICES ASSUME TypeOK, DataInv, Inv, [Next]_vars, "advertise" \notin typed'
               PROVE  AirInv'
    OBVIOUS
  <2>0. AirInv
    <3>1. typed \subseteq typed'
      BY DEF Next, Continue, StopIfFlag, AdvStop, ClearFlag, CheckData, AdvStart, SetFlag, Register,
             AppStep, Store, SubmitIfReady, QueueStep, RunAdvertise, RunBtReady,
             BtReadyOk, Connected, ConnectFailed, Disconnected, ShellAdvertise, ShellStop, ShellName,
             Typed, vars
    <3>2. QED
      BY <3>1
  <2>a. queue \in Seq(Work) /\ pc \in [Context -> Step]
        /\ "advertise" \in Work /\ {"sysworkq", "app", "shell"} = Context
    BY DEF TypeOK, Work, Context
  <2> USE <2>0 DEF AirInv, Silent
  <2>1. ASSUME NEW c \in Context, StopIfFlag(c) \/ AdvStop(c) \/ ClearFlag(c)
        PROVE  AirInv'
    BY <2>1, <2>a DEF StopIfFlag, AdvStop, ClearFlag, Goto, values, datas, stack, Context, Replacing
  <2>2. ASSUME NEW c \in Context, CheckData(c) \/ SetFlag(c)
        PROVE  AirInv'
    BY <2>2, <2>a DEF CheckData, SetFlag, Goto, values, datas, stack, Context, Replacing, DataInv, Storing
  <2>3. ASSUME NEW c \in Context, AdvStart(c)
        PROVE  AirInv'
    <3>1. c = "sysworkq" /\ pc["sysworkq"] = "adv_start"
      BY <2>3, <2>a DEF AdvStart, DataInv, Storing, Context
    <3>2. CASE pc'["sysworkq"] = "set"
      BY <2>3, <2>a, <3>1, <3>2 DEF AdvStart, Startable, Goto, values, datas, Context
    <3>3. CASE pc'["sysworkq"] = "idle"
      BY <2>3, <2>a, <3>1, <3>3 DEF AdvStart, Goto, values, datas, Context
    <3>4. QED
      BY <2>3, <2>a, <3>1, <3>2, <3>3 DEF AdvStart, Goto
  <2>4. ASSUME NEW d \in Data, Register(d)
        PROVE  AirInv'
    BY <2>4, <2>a DEF Register, Goto, values, stack, Context, Replacing
  <2>5. CASE Store
    <3>1. pc'["app"] = Following[pc["app"]] /\ pc'["sysworkq"] = pc["sysworkq"] /\ pc'["shell"] = pc["shell"]
      BY <2>5, <2>a DEF Store, Goto, Context
    <3>2. Replacing'
      BY <2>5, <3>1 DEF Store, Storing, Following, Replacing
    <3>3. UNCHANGED <<values, stack>>
      BY <2>5 DEF Store
    <3>4. QED
      BY <3>1, <3>2, <3>3 DEF values, stack
  <2>6. CASE SubmitIfReady
    <3>1. ok => Queued(queue', "advertise")
      BY <2>6, <2>a, SubmitQueued DEF SubmitIfReady
    <3>2. pc'["sysworkq"] = pc["sysworkq"] /\ pc'["shell"] = pc["shell"]
      BY <2>6, <2>a DEF SubmitIfReady, Goto, Context
    <3>3. UNCHANGED <<values, stack>>
      BY <2>6 DEF SubmitIfReady
    <3>4. QED
      BY <3>1, <3>2, <3>3 DEF values, stack, Replacing
  <2>7. CASE RunAdvertise
    BY <2>7, <2>a DEF RunAdvertise, Goto, values, datas, stack, Context, Replacing
  <2>8. CASE RunBtReady
    <3>1. Queued(queue, "advertise") => Queued(queue', "advertise")
      <4>1. Tail(queue) \in Seq(Work)
            /\ (Queued(queue, "advertise") => Queued(Tail(queue), "advertise"))
        BY <2>8, <2>a, TailQueued DEF RunBtReady
      <4>2. Queued(Submit(Tail(queue), "advertise"), "advertise")
        BY <2>a, <4>1, SubmitQueued
      <4>3. QED
        BY <2>8, <4>1, <4>2 DEF RunBtReady, AdvertiseName
    <3>2. pc["sysworkq"] = "idle" /\ pc'["sysworkq"] \in {"idle", "ready"}
          /\ pc'["app"] = pc["app"] /\ pc'["shell"] = pc["shell"]
      BY <2>8, <2>a DEF RunBtReady, Goto, Context
    <3>3. up' => pc'["sysworkq"] = "ready" \/ up
      BY <2>8, <2>a DEF RunBtReady, Goto, Context
    <3>4. UNCHANGED <<ok, flag, adv, onair, resume>>
      BY <2>8 DEF RunBtReady, values, datas
    <3>5. QED
      BY <3>1, <3>2, <3>3, <3>4 DEF Replacing
  <2>9. CASE BtReadyOk
    BY <2>9, <2>a DEF BtReadyOk, Goto, datas, stack, Context, Replacing
  <2>10. CASE Connected \/ ConnectFailed
    BY <2>10 DEF Connected, ConnectFailed, datas, stack, Replacing
  <2>11. CASE Disconnected
    <3>1. Queued(queue', "advertise")
      BY <2>11, <2>a, SubmitQueued DEF Disconnected
    <3>2. QED
      BY <2>11, <3>1 DEF Disconnected, datas, Replacing
  <2>12. CASE ShellAdvertise
    BY <2>12 DEF ShellAdvertise, Typed
  <2>13. CASE ShellStop
    BY <2>13 DEF ShellStop, Typed, values, datas
  <2>14. CASE ShellName
    <3>1. Queued(queue, "advertise") => Queued(queue', "advertise")
      BY <2>14, <2>a, SubmitQueued DEF ShellName, AdvertiseName
    <3>2. QED
      BY <2>14, <3>1 DEF ShellName, Typed, values, datas, stack, Replacing
  <2>15. CASE UNCHANGED vars
    BY <2>15 DEF vars, values, datas, stack, Replacing
  <2>16. QED
    BY <2>1, <2>2, <2>3, <2>4, <2>5, <2>6, <2>7, <2>8, <2>9, <2>10, <2>11, <2>12, <2>13, <2>14,
       <2>15 DEF Next, Continue, AppStep, QueueStep
<1>3. Inv => AirIsRegistered
  BY DEF AirInv, Replacing, AirIsRegistered, Quiet, Context
<1>4. QED
  BY <1>1, <1>2, <1>3, BothKept, PTL DEF Spec

-----------------------------------------------------------------------------
(* Services and attributes.                                                *)

\* The attributes of a characteristic are attributes, and none declares a service.
LEMMA EntriesTyped ==
  ASSUME NEW c \in Characteristic
  PROVE  /\ Common(c) \in Seq(Attribute) /\ Entries(c) \in Seq(Attribute)
         /\ \A i \in DOMAIN Common(c)  : Common(c)[i] # Declaration
         /\ \A i \in DOMAIN Entries(c) : Entries(c)[i] # Declaration
<1> DEFINE T == IF c \in Described THEN <<<<c, "type">>>> ELSE << >>
           N == IF c \in Notifying THEN <<<<c, "notify">>>> ELSE << >>
           A == {<<c, "declaration">>, <<c, "value">>, <<c, "name">>, <<c, "type">>, <<c, "notify">>}
<1>1. A \subseteq Attribute /\ Declaration \notin A
  BY DEF Attribute, Part, Declaration
<1>2. Common(c) \in Seq(A)
  BY DEF Common
<1>3. T \in Seq(A) /\ N \in Seq(A)
  OBVIOUS
<1>4. Entries(c) \in Seq(A)
  <2> HIDE DEF T, N, A
  <2>1. << >> \in Seq(A) /\ Common(c) \o T \o N \in Seq(A)
    BY <1>2, <1>3
  <2>2. QED
    BY <2>1 DEF Entries, T, N
<1>5. ASSUME NEW q \in Seq(A)
      PROVE  q \in Seq(Attribute) /\ \A i \in DOMAIN q : q[i] # Declaration
  <2> HIDE DEF A
  <2>1. q \in Seq(Attribute)
    BY <1>1
  <2>2. ASSUME NEW i \in DOMAIN q
        PROVE  q[i] # Declaration
    BY <1>1
  <2>3. QED
    BY <2>1, <2>2
<1>6. QED
  BY <1>2, <1>4, <1>5

\* Every variable of the services keeps its type.
LEMMA ServicesTyped ==
  /\ ServicesInit => ServicesTypeOK
  /\ ServicesTypeOK /\ [ServicesNext]_gattState => ServicesTypeOK'
<1>1. ServicesInit => ServicesTypeOK
  <2>1. << >> \in Seq(Attribute) /\ << >> \in Seq(Characteristic)
    OBVIOUS
  <2>2. QED
    BY <2>1, ServicesAssumption DEF ServicesInit, ServicesTypeOK
<1>2. ServicesTypeOK /\ [ServicesNext]_gattState => ServicesTypeOK'
  <2> SUFFICES ASSUME ServicesTypeOK, [ServicesNext]_gattState
               PROVE  ServicesTypeOK'
    OBVIOUS
  <2>0. Default \in Service /\ NULL \notin Service /\ Array \subseteq Seq(Characteristic)
    BY ServicesAssumption
  <2> USE DEF ServicesTypeOK
  <2>a. Return => calling' = "idle" /\ service' = NULL /\ todo' \in Seq(Characteristic)
    <3>1. << >> \in Seq(Characteristic)
      OBVIOUS
    <3>2. QED
      BY <3>1 DEF Return
  <2>b. ASSUME NEW s \in Service, HandOrFail(s)
        PROVE  known' \in [Service -> Seq(Attribute)] /\ twice' \subseteq Service
    BY <2>b DEF HandOrFail, Hand
  <2>1. ASSUME NEW s \in Service, Declare(s)
        PROVE  ServicesTypeOK'
    <3>1. Declaration \in Attribute
      BY DEF Declaration, Attribute, Part
    <3>2. <<Declaration>> \o attrs[s] \in Seq(Attribute)
      BY <3>1
    <3>3. attrs' \in [Service -> Seq(Attribute)]
      BY <2>1, <3>2 DEF Declare
    <3>4. QED
      BY <2>0, <2>1, <3>3 DEF Declare, history
  <2>2. CASE DeclareFails
    BY <2>0, <2>2 DEF DeclareFails, call, history
  <2>3. CASE OfferService
    <3>1. service \in Service
      BY <2>3 DEF OfferService
    <3>2. known' \in [Service -> Seq(Attribute)] /\ twice' \subseteq Service
      BY <2>b, <2>3, <3>1 DEF OfferService
    <3>3. QED
      BY <2>0, <2>a, <2>3, <3>2 DEF OfferService
  <2>4. ASSUME NEW s \in Service, NEW a \in Array, Characteristics(s, a)
        PROVE  ServicesTypeOK'
    <3>1. known' \in [Service -> Seq(Attribute)]
      BY <2>4 DEF Characteristics
    <3>2. QED
      BY <2>0, <2>4, <3>1 DEF Characteristics, history
  <2>5. ASSUME NEW s \in Service, CharacteristicsFail(s)
        PROVE  ServicesTypeOK'
    <3>1. known' \in [Service -> Seq(Attribute)] /\ ruined' \subseteq Service
      BY <2>5 DEF CharacteristicsFail
    <3>2. QED
      BY <2>0, <2>5, <3>1 DEF CharacteristicsFail, call, history
  <2>6. CASE AppendNext
    <3>1. service \in Service /\ Head(todo) \in Characteristic /\ Tail(todo) \in Seq(Characteristic)
      BY <2>6 DEF AppendNext
    <3>2. attrs[service] \o Entries(Head(todo)) \in Seq(Attribute)
      BY <3>1, EntriesTyped
    <3>3. attrs' \in [Service -> Seq(Attribute)]
      BY <2>6, <3>2 DEF AppendNext, Append1
    <3>4. QED
      BY <2>6, <3>1, <3>3 DEF AppendNext, history
  <2>7. CASE AppendFails
    <3>1. service \in Service /\ Head(todo) \in Characteristic
      BY <2>7 DEF AppendFails
    <3>2. attrs[service] \o Common(Head(todo)) \in Seq(Attribute)
      BY <3>1, EntriesTyped
    <3>3. attrs' \in [Service -> Seq(Attribute)]
      BY <2>7, <3>2 DEF AppendFails, Append1
    <3>4. QED
      BY <2>0, <2>a, <2>7, <3>1, <3>3 DEF AppendFails, history
  <2>8. CASE Appended
    BY <2>8 DEF Appended, history
  <2>9. CASE OfferCharacteristics
    <3>1. service \in Service
      BY <2>9 DEF OfferCharacteristics
    <3>2. known' \in [Service -> Seq(Attribute)] /\ twice' \subseteq Service
      BY <2>b, <2>9, <3>1 DEF OfferCharacteristics
    <3>3. QED
      BY <2>0, <2>a, <2>9, <3>2 DEF OfferCharacteristics
  <2>10. CASE ReadyHands
    BY <2>0, <2>10 DEF ReadyHands, Hand, call
  <2>11. CASE ReadyHandsNothing \/ ReadyOk \/ ReadyFailed
    BY <2>11 DEF ReadyHandsNothing, ReadyOk, ReadyFailed, call, history
  <2>12. CASE UNCHANGED gattState
    BY <2>12 DEF gattState, call, history
  <2>13. QED
    BY <2>1, <2>2, <2>3, <2>4, <2>5, <2>6, <2>7, <2>8, <2>9, <2>10, <2>11, <2>12 DEF ServicesNext
<1>3. QED
  BY <1>1, <1>2

\* Why the stack has the whole of what it knows: outside the application's call, a
\* service is handed over when its attributes are complete; only bt_ready may do so
\* before, and that service is early.  Whoever has a declaration is declared, and no
\* call is at work on a table that is lost.
Handed ==
  /\ twice \subseteq early
  /\ \A s \in Service \ early :
       Known(s) => s \in declared /\ s # service /\ s \notin ruined /\ known[s] = attrs[s]
  /\ \A s \in Service, i \in Nat : i \in DOMAIN attrs[s] /\ attrs[s][i] = Declaration => s \in declared
  /\ \A s \in declared : attrs[s] # << >>
  /\ ready = "enabling" => \A s \in Service : ~Known(s)
  /\ calling = "offer_service" => service \in declared
  /\ calling # "idle" => service \notin ruined

LEMMA AttributesHanded ==
  /\ ServicesInit => Handed
  /\ ServicesTypeOK /\ Handed /\ [ServicesNext]_gattState => Handed'
<1>1. ServicesInit => Handed
  BY DEF ServicesInit, Handed, Known
<1>2. ServicesTypeOK /\ Handed /\ [ServicesNext]_gattState => Handed'
  <2> SUFFICES ASSUME ServicesTypeOK, Handed, [ServicesNext]_gattState
               PROVE  Handed'
    OBVIOUS
  <2>0. Default \in Service /\ NULL \notin Service /\ Array \subseteq Seq(Characteristic)
    BY ServicesAssumption
  <2> USE DEF ServicesTypeOK
  \* Adding attributes of characteristics to a service.
  <2>1. ASSUME NEW new \in Seq(Attribute), \A i \in DOMAIN new : new[i] # Declaration,
               calling = "append",
               attrs' = [attrs EXCEPT ![service] = @ \o new],
               UNCHANGED <<folded, ready, known, declared, ruined, early, twice>>
        PROVE  /\ \A s \in Service, i \in Nat :
                    i \in DOMAIN attrs'[s] /\ attrs'[s][i] = Declaration => s \in declared'
               /\ \A s \in declared' : attrs'[s] # << >>
               /\ \A s \in Service \ {service} : attrs'[s] = attrs[s]
    <3>0. service \in Service
      BY <2>1
    <3>1. \A s \in Service \ {service} : attrs'[s] = attrs[s]
      BY <2>1
    <3>2. attrs'[service] = attrs[service] \o new
      BY <2>1, <3>0
    <3>3. ASSUME NEW i \in DOMAIN attrs'[service], attrs'[service][i] = Declaration
          PROVE  service \in declared
      <4>1. CASE i \in DOMAIN attrs[service]
        BY <3>0, <3>2, <3>3, <4>1 DEF Handed
      <4>2. CASE i \notin DOMAIN attrs[service]
        BY <2>1, <3>0, <3>2, <3>3, <4>2
      <4>3. QED
        BY <4>1, <4>2
    <3>4. service \in declared => attrs'[service] # << >>
      BY <3>0, <3>2 DEF Handed
    <3>5. QED
      BY <2>1, <3>1, <3>3, <3>4 DEF Handed
  <2>2. ASSUME NEW s \in Service, Declare(s)
        PROVE  Handed'
    <3>1. /\ calling = "idle" /\ s \notin declared \cup ruined /\ service = NULL
          /\ declared' = declared \cup {s}
          /\ calling' = "offer_service" /\ service' = s
          /\ UNCHANGED <<folded, ready, known, unregistered, todo, ruined, early, twice>>
      BY <2>2 DEF Declare, history
    <3>2. /\ attrs'[s] = <<Declaration>> \o attrs[s]
          /\ \A x \in Service \ {s} : attrs'[x] = attrs[x]
      BY <2>2 DEF Declare
    <3>3. attrs'[s] # << >>
      BY <3>2
    <3>4. Known(s) => s \in early
      BY <3>1 DEF Handed
    <3>5. \A x \in Service, i \in Nat : i \in DOMAIN attrs'[x] /\ attrs'[x][i] = Declaration => x \in declared'
      BY <3>1, <3>2 DEF Handed
    <3>6. \A x \in declared' : attrs'[x] # << >>
      BY <3>1, <3>2, <3>3 DEF Handed
    <3>7. QED
      BY <2>0, <3>1, <3>2, <3>4, <3>5, <3>6 DEF Handed, Known
  <2>3. CASE DeclareFails
    <3>1. Known(Default) => Default \in early
      BY <2>0, <2>3 DEF DeclareFails, Handed
    <3>2. QED
      BY <2>0, <2>3, <3>1 DEF DeclareFails, call, history, Handed, Known
  \* Handing over a service the call is for, at its end.
  <2>4. ASSUME service \in declared, Hand(service), Return, calling # "idle", ready = "ok",
               UNCHANGED <<folded, ready, attrs, declared, ruined, early>>
        PROVE  Handed'
    <3>1. /\ known'[service] = attrs[service] /\ \A x \in Service \ {service} : known'[x] = known[x]
          /\ attrs[service] # << >>
      BY <2>4 DEF Hand, Handed
    <3>2. twice' \subseteq early
      BY <2>4 DEF Hand, Handed
    <3>3. QED
      BY <2>0, <2>4, <3>1, <3>2 DEF Handed, Known, Return
  \* Ending a call without.
  <2>5. ASSUME Return, calling # "idle", UNCHANGED <<folded, ready, attrs, known, declared, ruined, early, twice>>
        PROVE  Handed'
    <3>1. calling' = "idle" /\ service' = NULL
      BY <2>5 DEF Return
    <3>2. \A s \in Service : Known(s)' <=> Known(s)
      BY <2>5 DEF Known
    <3>3. QED
      BY <2>0, <2>5, <3>1, <3>2 DEF Handed
  <2>6. CASE OfferService
    <3>1. service \in declared /\ calling = "offer_service"
      BY <2>6 DEF OfferService, Handed
    <3>2. CASE ready = "ok" /\ Hand(service)
      BY <2>4, <2>6, <3>1, <3>2 DEF OfferService
    <3>3. CASE UNCHANGED <<known, twice>>
      BY <2>5, <2>6, <3>1, <3>3 DEF OfferService
    <3>4. QED
      BY <2>6, <3>2, <3>3 DEF OfferService, HandOrFail
  <2>7. ASSUME NEW s \in Service, NEW a \in Array, Characteristics(s, a)
        PROVE  Handed'
    <3>1. /\ calling = "idle" /\ service = NULL /\ s \notin ruined
          /\ calling' = "append" /\ service' = s
          /\ UNCHANGED <<ready, attrs, declared, ruined, early, twice>>
      BY <2>7 DEF Characteristics, history
    <3>2. ~Known(s)' /\ \A x \in Service \ {s} : known'[x] = known[x]
      BY <2>7 DEF Characteristics, Known
    <3>3. QED
      BY <2>0, <3>1, <3>2 DEF Handed, Known
  <2>8. ASSUME NEW s \in Service, CharacteristicsFail(s)
        PROVE  Handed'
    <3>1. /\ calling = "idle" /\ ruined' \subseteq ruined \cup {s}
          /\ UNCHANGED <<ready, attrs, declared, calling, service, early, twice>>
      BY <2>8 DEF CharacteristicsFail, history, call
    <3>2. ~Known(s)' /\ \A x \in Service \ {s} : known'[x] = known[x]
      BY <2>8 DEF CharacteristicsFail, Known
    <3>3. QED
      BY <2>0, <3>1, <3>2 DEF Handed, Known
  <2>9. CASE AppendNext
    <3>1. /\ calling = "append" /\ service \in Service /\ Head(todo) \in Characteristic
          /\ attrs' = [attrs EXCEPT ![service] = @ \o Entries(Head(todo))]
          /\ UNCHANGED <<folded, ready, known, declared, calling, service, ruined, early, twice>>
      BY <2>9 DEF AppendNext, Append1, history
    <3>2. /\ \A s \in Service, i \in Nat :
               i \in DOMAIN attrs'[s] /\ attrs'[s][i] = Declaration => s \in declared'
          /\ \A s \in declared' : attrs'[s] # << >>
          /\ \A s \in Service \ {service} : attrs'[s] = attrs[s]
      BY <2>1, <3>1, EntriesTyped
    <3>3. QED
      BY <3>1, <3>2 DEF Handed, Known
  <2>10. CASE AppendFails
    <3>1. /\ calling = "append" /\ service \in Service /\ Head(todo) \in Characteristic
          /\ attrs' = [attrs EXCEPT ![service] = @ \o Common(Head(todo))]
          /\ UNCHANGED <<folded, ready, known, declared, ruined, early, twice>>
          /\ calling' = "idle" /\ service' = NULL
      BY <2>10 DEF AppendFails, Append1, Return, history
    <3>2. /\ \A s \in Service, i \in Nat :
               i \in DOMAIN attrs'[s] /\ attrs'[s][i] = Declaration => s \in declared'
          /\ \A s \in declared' : attrs'[s] # << >>
          /\ \A s \in Service \ {service} : attrs'[s] = attrs[s]
      BY <2>1, <3>1, EntriesTyped
    <3>3. QED
      BY <2>0, <3>1, <3>2 DEF Handed, Known
  <2>11. CASE Appended
    BY <2>11 DEF Appended, history, Handed, Known
  <2>12. CASE OfferCharacteristics
    <3>1. service \in Service /\ calling = "offer_characteristics"
      BY <2>12 DEF OfferCharacteristics
    <3>2. CASE ready = "ok" /\ StartsWithService /\ Hand(service)
      <4>1. 1 \in DOMAIN attrs[service] /\ attrs[service][1] = Declaration
        BY <3>1, <3>2 DEF StartsWithService
      <4>2. service \in declared
        BY <3>1, <4>1 DEF Handed
      <4>3. QED
        BY <2>4, <2>12, <3>1, <3>2, <4>2 DEF OfferCharacteristics
    <3>3. CASE UNCHANGED <<known, twice>>
      BY <2>5, <2>12, <3>1, <3>3 DEF OfferCharacteristics
    <3>4. QED
      BY <2>12, <3>2, <3>3 DEF OfferCharacteristics, HandOrFail
  <2>13. CASE ReadyHands
    <3>1. /\ ready = "enabling" /\ ready' = "loading" /\ Default \notin ruined
          /\ UNCHANGED <<attrs, declared, calling, service, ruined>>
          /\ Hand(Default)
          /\ early' = IF Default \notin declared \/ service = Default
                      THEN early \cup {Default} ELSE early
      BY <2>13 DEF ReadyHands, call
    <3>2. /\ known'[Default] = attrs[Default] /\ \A x \in Service \ {Default} : known'[x] = known[x]
          /\ twice' = twice
      BY <2>0, <3>1 DEF Hand, Handed
    <3>3. QED
      BY <3>1, <3>2 DEF Handed, Known
  <2>14. CASE ReadyHandsNothing \/ ReadyOk \/ ReadyFailed \/ UNCHANGED gattState
    BY <2>14 DEF ReadyHandsNothing, ReadyOk, ReadyFailed, call, history, gattState, Handed, Known
  <2>15. QED
    BY <2>2, <2>3, <2>6, <2>7, <2>8, <2>9, <2>10, <2>11, <2>12, <2>13, <2>14 DEF ServicesNext
<1>3. QED
  BY <1>1, <1>2

-----------------------------------------------------------------------------
(* Reading and writing one attribute.                                      *)

\* Overwriting bytes of a value gives one of the same length.
LEMMA PatchTyped ==
  ASSUME NEW n \in Nat, NEW v \in [1..n -> Byte], NEW o \in Nat, NEW b \in Seq(Byte)
  PROVE  Patch(v, o, b) \in [1..n -> Byte]
BY DEF Patch

\* A write is an offset and bytes.
LEMMA WriteTyped ==
  ASSUME NEW w \in Write
  PROVE  w[1] \in Nat /\ w[2] \in Seq(Byte) /\ w # << >>
BY GattAssumption

\* The cases of the switch are kinds, and the kinds that do not fall into another case
\* have one.
LEMMA CasesTyped ==
  ASSUME NEW k \in DOMAIN Width
  PROVE  /\ Cases(k) \in Seq(DOMAIN Width) /\ Cases(k) # << >>
         /\ k \notin {"int16", "int32"} => Cases(k) = <<k>>
         /\ Width[k] \in Nat \ {0}
<1>1. k \in {"bool", "byte", "uint16", "int16", "int32", "int64"}
  BY DEF Width
<1>2. Width[k] \in Nat \ {0}
  BY <1>1 DEF Width
<1> HIDE DEF Width
<1>3. CASE k = "int16"
  BY <1>1, <1>2, <1>3 DEF Cases, Width
<1>4. CASE k = "int32"
  BY <1>1, <1>2, <1>4 DEF Cases, Width
<1>5. CASE k \notin {"int16", "int32"}
  <2>1. Cases(k) = <<k>>
    BY <1>5 DEF Cases
  <2>2. <<k>> \in Seq(DOMAIN Width) /\ <<k>> # << >>
    OBVIOUS
  <2>3. QED
    BY <1>2, <2>1, <2>2
<1>6. QED
  BY <1>3, <1>4, <1>5

\* What a write leaves of a value is a value, and a second time changes nothing.
LEMMA LeftTwice ==
  ASSUME NEW k \in DOMAIN Width, NEW w \in Write, NEW v \in [1..Width[k] -> Byte]
  PROVE  LET L(x) == Narrow(k, Patch(x, w[1], w[2]))
         IN  L(v) \in [1..Width[k] -> Byte] /\ L(L(v)) = L(v)
<1> DEFINE n == Width[k]
           L(x) == Narrow(k, Patch(x, w[1], w[2]))
<1>1. n \in Nat /\ w[1] \in Nat /\ w[2] \in Seq(Byte) /\ 0 \in Byte
  BY CasesTyped, WriteTyped, GattAssumption
<1>2. v \in [1..n -> Byte]
  OBVIOUS
<1> HIDE DEF n
<1>3. ASSUME NEW u \in [1..n -> Byte]
      PROVE  L(u) \in [1..n -> Byte]
  <2>1. Patch(u, w[1], w[2]) \in [1..n -> Byte]
    BY <1>1, <1>3, PatchTyped
  <2>2. QED
    BY <1>1, <2>1 DEF Narrow
<1>4. L(v) \in [1..n -> Byte] /\ L(L(v)) \in [1..n -> Byte]
  BY <1>2, <1>3
<1>5. ASSUME NEW i \in 1..n
      PROVE  L(L(v))[i] = L(v)[i]
  BY <1>2, <1>5 DEF Narrow, Patch
<1>6. L(L(v)) = L(v)
  <2> DEFINE a == L(L(v))
             b == L(v)
  <2>1. a \in [1..n -> Byte] /\ b \in [1..n -> Byte] /\ \A i \in 1..n : a[i] = b[i]
    BY <1>4, <1>5
  <2> HIDE DEF a, b
  <2>2. a = [i \in 1..n |-> a[i]] /\ b = [i \in 1..n |-> b[i]]
    BY <2>1
  <2>3. [i \in 1..n |-> a[i]] = [i \in 1..n |-> b[i]]
    BY <2>1
  <2>4. a = b
    BY <2>2, <2>3
  <2>5. QED
    BY <2>4 DEF a, b
<1> HIDE DEF L
<1>7. QED
  BY <1>4, <1>6 DEF L, n

\* A handler is at work on a write, or there is none.
WriteInOrder ==
  /\ write = << >> => stages = << >>
  /\ stages = << >> => temp = << >>

\* Every variable of the attribute and of the services keeps its type.
THEOREM GattTypes == GattSpec => [](GattTypeOK /\ WriteInOrder)
<1>1. GattInit => GattTypeOK /\ WriteInOrder
  <2> SUFFICES ASSUME GattInit
               PROVE  GattTypeOK /\ WriteInOrder
    OBVIOUS
  <2>1. kind \in DOMAIN Width /\ 0 \in Byte /\ << >> \in Seq(DOMAIN Width)
    BY GattAssumption DEF GattInit
  <2>2. Zero(Width[kind]) \in [1..Width[kind] -> Byte]
    BY <2>1 DEF Zero
  <2>3. stores \in 0..MaxStores /\ writes \in 0..MaxWrites
    BY GattAssumption DEF GattInit
  <2>4. QED
    BY <2>1, <2>2, <2>3, ServicesTyped DEF GattInit, GattTypeOK, WriteInOrder
<1>2. GattTypeOK /\ WriteInOrder /\ [GattNext]_gattVars => GattTypeOK' /\ WriteInOrder'
  <2> SUFFICES ASSUME GattTypeOK, WriteInOrder, [GattNext]_gattVars
               PROVE  GattTypeOK' /\ WriteInOrder'
    OBVIOUS
  <2>0. /\ kind \in DOMAIN Width /\ Width[kind] \in Nat \ {0}
        /\ MaxStores \in Nat /\ MaxWrites \in Nat /\ 0 \in Byte
        /\ \A w \in Write : w[1] \in Nat /\ w[2] \in Seq(Byte) /\ w # << >>
        /\ Local[kind] \subseteq [1..Width[kind] -> Byte]
    <3>1. kind \in DOMAIN Width
      BY GattAssumption DEF GattTypeOK
    <3>2. Local[kind] \subseteq [1..Width[kind] -> Byte]
      BY GattAssumption DEF GattTypeOK
    <3>3. QED
      BY <3>1, <3>2, WriteTyped, CasesTyped, GattAssumption
  <2>a. UNCHANGED gattState => ServicesTypeOK'
    BY ServicesTyped DEF GattTypeOK
  <2> USE DEF GattTypeOK, WriteInOrder
  <2>1. ASSUME NEW w \in Write, Begin(w)
        PROVE  GattTypeOK' /\ WriteInOrder'
    <3>1. writes' \in 0..MaxWrites
      BY <2>0, <2>1 DEF Begin
    <3>2. Cases(kind) \in Seq(DOMAIN Width)
      BY <2>0, CasesTyped
    <3>3. QED
      BY <2>0, <2>a, <2>1, <3>1, <3>2 DEF Begin
  <2>2. CASE Overwrite
    <3>1. write \in Write /\ stages # << >> /\ temp = << >>
      BY <2>2 DEF Overwrite
    <3>2. Patch(value, write[1], write[2]) \in [1..Width[kind] -> Byte]
      BY <2>0, <3>1, PatchTyped
    <3>3. Narrow(Head(stages), Patch(value, write[1], write[2])) \in [1..Width[kind] -> Byte]
      BY <2>0, <3>2 DEF Narrow
    <3>4. QED
      BY <2>a, <2>2, <3>1, <3>2, <3>3 DEF Overwrite
  <2>3. CASE Put
    <3>1. value' \in [1..Width[kind] -> Byte] /\ stages # << >> /\ Tail(stages) \in Seq(DOMAIN Width)
      BY <2>3 DEF Put
    <3>2. QED
      BY <2>a, <2>3, <3>1 DEF Put
  <2>4. CASE Answer
    <3>1. write \in Write /\ clash' \in BOOLEAN
      BY <2>4 DEF Answer
    <3>2. \A p \in possible : Left(p) \in [1..Width[kind] -> Byte]
      BY <2>0, <3>1, LeftTwice DEF Left
    <3>3. possible' \subseteq [1..Width[kind] -> Byte]
      BY <2>4, <3>2 DEF Answer, Outcomes
    <3>4. QED
      BY <2>a, <2>4, <3>1, <3>3 DEF Answer
  <2>5. ASSUME NEW v \in Local[kind], LocalStore(v)
        PROVE  GattTypeOK' /\ WriteInOrder'
    <3>1. stores' \in 0..MaxStores /\ clash' \in BOOLEAN
      BY <2>0, <2>5 DEF LocalStore
    <3>2. write # << >> => \A p \in possible \cup {v} : Left(p) \in [1..Width[kind] -> Byte]
      BY <2>0, LeftTwice DEF Left
    <3>3. possible' \subseteq [1..Width[kind] -> Byte]
      BY <2>0, <2>5, <3>2 DEF LocalStore, Outcomes
    <3>4. QED
      BY <2>0, <2>a, <2>5, <3>1, <3>3 DEF LocalStore
  <2>6. CASE Observe
    BY <2>a, <2>6 DEF Observe
  <2>7. CASE Read
    BY <2>a, <2>7 DEF Read
  <2>8. CASE (ServicesNext /\ UNCHANGED attribute) \/ UNCHANGED gattVars
    BY <2>8, ServicesTyped DEF attribute, gattVars
  <2>9. QED
    BY <2>1, <2>2, <2>3, <2>4, <2>5, <2>6, <2>7, <2>8 DEF GattNext, AttributeNext
<1>3. QED
  BY <1>1, <1>2, PTL DEF GattSpec

\* It holds in every reachable state.
LEMMA HandedAlways == GattSpec => []Handed
<1>1. GattInit => Handed
  BY AttributesHanded DEF GattInit
<1>2. GattTypeOK /\ Handed /\ [GattNext]_gattVars => Handed'
  <2>1. AttributeNext => UNCHANGED gattState
    BY DEF AttributeNext, Begin, LocalStore, Overwrite, Put, Answer, Read, Observe
  <2>2. QED
    BY <2>1, AttributesHanded DEF GattNext, gattVars, GattTypeOK
<1>3. QED
  BY <1>1, <1>2, GattTypes, PTL DEF GattSpec

\* The stack has the whole of each service it knows, for any services and arrays of
\* characteristics and any order of ztacx_bt_service_register,
\* ztacx_bt_characteristic_register and bt_ready, whatever of it fails.
THEOREM ServicesAreHanded == GattSpec => []StackKnowsService
<1>1. GattTypeOK /\ Handed => StackKnowsService
  BY ServicesAssumption DEF GattTypeOK, ServicesTypeOK, Handed, StackKnowsService
<1>2. QED
  BY <1>1, HandedAlways, GattTypes, PTL

\* The observer has the value, or is waiting for the work queue, or the handler is
\* about to store and to submit it.
Observed == ~pending /\ temp = << >> => seen = value

\* The observer ends up with the value, also with what a refused write leaves
\* (bt_write_variable, ztacx_variable_value_set).
THEOREM ObserverHasCaughtUp == GattSpec => []ObserverCatchesUp
<1>1. GattInit => Observed
  BY DEF GattInit, Observed
<1>2. GattTypeOK /\ WriteInOrder /\ Observed /\ [GattNext]_gattVars => Observed'
  <2> SUFFICES ASSUME GattTypeOK, WriteInOrder, Observed, [GattNext]_gattVars
               PROVE  Observed'
    OBVIOUS
  <2>1. CASE Overwrite
    <3>1. write \in Write /\ stages # << >> /\ temp = << >> /\ kind \in DOMAIN Width
      BY <2>1, GattAssumption DEF Overwrite, GattTypeOK, WriteInOrder
    <3>2. /\ Width[kind] \in Nat \ {0}
          /\ write[1] \in Nat /\ write[2] \in Seq(Byte)
      BY <3>1, CasesTyped, GattAssumption
    <3>3. Patch(value, write[1], write[2]) \in [1..Width[kind] -> Byte]
      BY <3>2, PatchTyped DEF GattTypeOK
    <3>4. temp' \in [1..Width[kind] -> Byte]
      <4>1. temp' = value \/ temp' = Narrow(Head(stages), Patch(value, write[1], write[2]))
        BY <2>1 DEF Overwrite
      <4>2. Narrow(Head(stages), Patch(value, write[1], write[2])) \in [1..Width[kind] -> Byte]
        BY <3>2, <3>3, GattAssumption DEF Narrow
      <4>3. QED
        BY <4>1, <4>2 DEF GattTypeOK
    <3>5. temp' # << >>
      BY <3>2, <3>4
    <3>6. QED
      BY <3>5 DEF Observed
  <2>2. ASSUME NEW w \in Write, Begin(w)
        PROVE  Observed'
    BY <2>2 DEF Begin, Observed
  <2>3. ASSUME NEW v \in Local[kind], LocalStore(v)
        PROVE  Observed'
    BY <2>3 DEF LocalStore, Observed
  <2>4. CASE Put \/ Answer \/ Observe \/ Read
    BY <2>4 DEF Put, Answer, Observe, Read, Observed
  <2>5. CASE UNCHANGED attribute
    BY <2>5 DEF attribute, Observed
  <2>6. QED
    BY <2>1, <2>2, <2>3, <2>4, <2>5 DEF GattNext, AttributeNext, gattVars
<1>3. WriteInOrder /\ Observed => ObserverCatchesUp
  BY DEF WriteInOrder, Observed, ObserverCatchesUp
<1>4. QED
  BY <1>1, <1>2, <1>3, GattTypes, PTL DEF GattSpec

\* The cases still to run for a kind.
Rest(k) ==
  CASE k = "int16" -> {<<"int16", "int32", "int64">>, <<"int32", "int64">>, <<"int64">>, << >>}
    [] k = "int32" -> {<<"int32", "int64">>, <<"int64">>, << >>}
    [] OTHER       -> {<<k>>, << >>}

\* Of the cases still to run each but int64 does to the value what the whole write
\* does, and int64 comes last.
LEMMA RestShape ==
  ASSUME NEW k \in DOMAIN Width, NEW s \in Rest(k), s # << >>
  PROVE  /\ Tail(s) \in Rest(k)
         /\ Head(s) = "int64" => Tail(s) = << >>
         /\ k = "int64" => Head(s) = "int64"
         /\ k # "int64" /\ Head(s) # "int64" =>
              Head(s) = k \/ (Head(s) = "int32" /\ Width[k] = 2)
<1>1. k \in {"bool", "byte", "uint16", "int16", "int32", "int64"}
  BY DEF Width
<1>2. CASE k = "int16"
  <2>1. Width[k] = 2
    BY <1>2 DEF Width
  <2>2. CASE s = <<"int16", "int32", "int64">>
    BY <1>2, <2>2 DEF Rest
  <2>3. CASE s = <<"int32", "int64">>
    BY <1>2, <2>1, <2>3 DEF Rest
  <2>4. CASE s = <<"int64">>
    BY <1>2, <2>4 DEF Rest
  <2>5. QED
    BY <1>2, <2>2, <2>3, <2>4 DEF Rest
<1>3. CASE k = "int32"
  <2>1. CASE s = <<"int32", "int64">>
    BY <1>3, <2>1 DEF Rest
  <2>2. CASE s = <<"int64">>
    BY <1>3, <2>2 DEF Rest
  <2>3. QED
    BY <1>3, <2>1, <2>2 DEF Rest
<1>4. CASE k \notin {"int16", "int32"}
  <2>1. Rest(k) = {<<k>>, << >>}
    BY <1>4 DEF Rest
  <2>2. s = <<k>>
    BY <2>1
  <2>3. Head(s) = k /\ Tail(s) = << >>
    BY <2>2
  <2>4. QED
    BY <2>1, <2>3
<1>5. QED
  BY <1>2, <1>3, <1>4

\* Where a write may be, and what it has in hand: what it may leave, or what one more
\* of its cases makes that.  Once it has begun on a value, doing it again changes
\* nothing.
Going ==
  /\ write # << >> => stages \in Rest(kind)
  /\ write = << >> => value \in possible /\ ~clash
  /\ write # << >> =>
       /\ Outcomes \subseteq [1..Width[kind] -> Byte]
       /\ \A p \in Outcomes : Left(p) \in Outcomes
       /\ temp # << >> => temp \in Outcomes
       /\ temp = << >> =>
            IF stages # << >> /\ Head(stages) # "int64" THEN Left(value) \in Outcomes
                                                        ELSE value \in Outcomes

\* A central reads what whole writes and whole stores leave, for any kinds, values and
\* writes (bt_write_variable, bt_read_variable).
THEOREM WritesStayWhole == GattSpec => WritesAreWhole
<1> DEFINE Told == got' # got => got' \in possible
<1>1. GattInit => Going
  BY DEF GattInit, Going
<1>2. GattTypeOK /\ WriteInOrder /\ Going /\ [GattNext]_gattVars => Going'
  <2> SUFFICES ASSUME GattTypeOK, WriteInOrder, Going, [GattNext]_gattVars
               PROVE  Going'
    OBVIOUS
  <2>0. /\ kind \in DOMAIN Width /\ Width[kind] \in Nat \ {0} /\ 0 \in Byte
        /\ \A w \in Write : w # << >>
        /\ Cases(kind) \in Rest(kind)
        /\ Local[kind] \subseteq [1..Width[kind] -> Byte]
    <3>1. kind \in DOMAIN Width
      BY GattAssumption DEF GattTypeOK
    <3>2. Cases(kind) \in Rest(kind)
      BY DEF Cases, Rest
    <3>3. QED
      BY <3>1, <3>2, WriteTyped, CasesTyped, GattAssumption DEF GattTypeOK
  \* What a write leaves depends on the write and the kind alone.
  <2>a. ASSUME UNCHANGED <<kind, write>>
        PROVE  \A v : Left(v)' = Left(v)
    BY <2>a DEF Left
  <2>b. ASSUME UNCHANGED <<kind, write, possible, clash>>
        PROVE  Outcomes' = Outcomes /\ \A v : Left(v)' = Left(v)
    BY <2>b DEF Left, Outcomes
  <2>1. ASSUME NEW w \in Write, Begin(w)
        PROVE  Going'
    <3>1. /\ write = << >> /\ stages = << >> /\ temp = << >> /\ value \in possible /\ ~clash
          /\ UNCHANGED <<kind, value, temp, possible, clash>>
      BY <2>1 DEF Begin, Going, WriteInOrder
    <3>2. CASE UNCHANGED <<write, stages>>
      BY <3>1, <3>2 DEF Going
    <3>3. CASE write' = w /\ stages' = Cases(kind)
      <4> DEFINE L(x) == IF kind = "int64" THEN x ELSE Narrow(kind, Patch(x, w[1], w[2]))
      <4>0. \A x : Left(x)' = L(x)
        BY <3>1, <3>3 DEF Left
      <4>1. Outcomes' = {L(p) : p \in possible}
        BY <3>1, <4>0 DEF Outcomes
      <4>2. ASSUME NEW p \in possible
            PROVE  L(p) \in [1..Width[kind] -> Byte] /\ L(L(p)) = L(p)
        <5>1. p \in [1..Width[kind] -> Byte]
          BY DEF GattTypeOK
        <5>2. QED
          BY <2>0, <5>1, LeftTwice
      <4> HIDE DEF L
      <4>3. write' # << >> /\ temp' = << >>
        BY <2>0, <3>1, <3>3
      <4>4. stages' \in Rest(kind')
        BY <2>0, <3>1, <3>3
      <4>5. Outcomes' \subseteq [1..Width[kind'] -> Byte] /\ \A p \in Outcomes' : Left(p)' \in Outcomes'
        BY <3>1, <4>0, <4>1, <4>2
      <4>6. L(value) \in Outcomes'
        BY <3>1, <4>1
      <4>7. stages' # << >>
        BY <2>0, <3>3, CasesTyped
      <4>8. Head(stages') = "int64" => value' \in Outcomes'
        <5>1. Head(Cases(kind)) = kind
          BY <2>0 DEF Cases
        <5>2. kind = "int64" => L(value) = value'
          BY <3>1 DEF L
        <5>3. QED
          BY <3>3, <4>6, <5>1, <5>2
      <4> HIDE DEF Going
      <4>9. QED
        BY <3>1, <4>0, <4>3, <4>4, <4>5, <4>6, <4>7, <4>8 DEF Going
    <3>4. QED
      BY <2>1, <3>2, <3>3 DEF Begin
  <2>2. CASE Overwrite
    <3>1. /\ stages # << >> /\ temp = << >> /\ write # << >> /\ write \in Write
          /\ UNCHANGED <<kind, write, stages, possible, clash>>
      BY <2>2 DEF Overwrite, WriteInOrder, GattTypeOK
    <3>2. stages \in Rest(kind)
      BY <3>1 DEF Going
    <3>3. temp' \in Outcomes
      <4>1. CASE Head(stages) = "int64"
        BY <2>2, <3>1, <4>1 DEF Overwrite, Going
      <4>2. CASE Head(stages) # "int64"
        <5>1. kind # "int64" /\ (Head(stages) = kind \/ (Head(stages) = "int32" /\ Width[kind] = 2))
          BY <2>0, <3>1, <3>2, <4>2, RestShape
        <5>2. temp' = Narrow(Head(stages), Patch(value, write[1], write[2]))
          BY <2>2, <4>2 DEF Overwrite
        <5>3. Patch(value, write[1], write[2]) \in [1..Width[kind] -> Byte]
          BY <2>0, <3>1, PatchTyped, WriteTyped DEF GattTypeOK
        <5>4. temp' = Narrow(kind, Patch(value, write[1], write[2]))
          <6>1. CASE Head(stages) = kind
            BY <5>2, <6>1
          <6>2. CASE Head(stages) = "int32" /\ Width[kind] = 2
            <7>1. kind # "int32"
              BY <6>2 DEF Width
            <7>2. QED
              BY <5>2, <5>3, <6>2, <7>1 DEF Narrow
          <6>3. QED
            BY <5>1, <6>1, <6>2
        <5>5. temp' = Left(value)
          BY <5>1, <5>4 DEF Left
        <5>6. QED
          BY <3>1, <4>2, <5>5 DEF Going
      <4>3. QED
        BY <4>1, <4>2
    <3>4. Outcomes' = Outcomes /\ \A v : Left(v)' = Left(v)
      BY <2>b, <3>1
    <3>5. temp' # << >>
      BY <2>0, <3>1, <3>3 DEF Going
    <3>6. QED
      BY <3>1, <3>3, <3>4, <3>5 DEF Going
  <2>3. CASE Put
    <3>1. /\ stages # << >> /\ temp # << >> /\ write # << >>
          /\ value' = temp /\ temp' = << >> /\ stages' = Tail(stages)
          /\ UNCHANGED <<kind, write, possible, clash>>
      BY <2>3 DEF Put, WriteInOrder
    <3>2. temp \in Outcomes /\ Left(temp) \in Outcomes
      BY <3>1 DEF Going
    <3>3. stages' \in Rest(kind)
      BY <2>0, <3>1, RestShape DEF Going
    <3>4. Outcomes' = Outcomes /\ \A v : Left(v)' = Left(v)
      BY <2>b, <3>1
    <3>5. QED
      BY <3>1, <3>2, <3>3, <3>4 DEF Going
  <2>4. CASE Answer
    <3>1. /\ write # << >> /\ stages = << >> /\ temp = << >> /\ write' = << >>
          /\ possible' = Outcomes /\ ~clash' /\ value' = value
      BY <2>4 DEF Answer, WriteInOrder
    <3>2. QED
      BY <3>1 DEF Going
  <2>5. ASSUME NEW v \in Local[kind], LocalStore(v)
        PROVE  Going'
    <3>1. /\ value' = v /\ UNCHANGED <<kind, write, stages, temp>>
          /\ possible' = IF write = << >> THEN {v} ELSE Outcomes \cup {v, Left(v)}
          /\ clash' = (write # << >>)
          /\ v \in [1..Width[kind] -> Byte]
      BY <2>0, <2>5 DEF LocalStore
    <3>2. CASE write = << >>
      BY <3>1, <3>2 DEF Going
    <3>3. CASE write # << >>
      <4>1. Outcomes' = Outcomes \cup {v, Left(v)}
        BY <3>1, <3>3 DEF Outcomes
      <4>2. \A p : Left(p)' = Left(p)
        BY <2>a, <3>1
      <4>3. write \in Write
        BY <3>3 DEF GattTypeOK
      <4>4. Left(v) \in [1..Width[kind] -> Byte] /\ Left(Left(v)) = Left(v)
        BY <2>0, <3>1, <4>3, LeftTwice DEF Left
      <4>5. /\ Outcomes' \subseteq [1..Width[kind] -> Byte]
            /\ \A p \in Outcomes' : Left(p)' \in Outcomes'
        BY <3>3, <4>1, <4>2, <4>4, <3>1 DEF Going
      <4>6. QED
        BY <3>1, <3>3, <4>1, <4>2, <4>5 DEF Going
    <3>4. QED
      BY <3>2, <3>3
  <2>6. CASE Observe \/ Read \/ UNCHANGED attribute
    <3>1. UNCHANGED <<kind, value, write, stages, temp, possible, clash>>
      BY <2>6 DEF Observe, Read, attribute
    <3>2. Outcomes' = Outcomes /\ \A v : Left(v)' = Left(v)
      BY <2>b, <3>1
    <3>3. QED
      BY <3>1, <3>2 DEF Going
  <2>7. QED
    BY <2>1, <2>2, <2>3, <2>4, <2>5, <2>6 DEF GattNext, AttributeNext, gattVars
<1>3. GattTypeOK /\ WriteInOrder /\ Going /\ [GattNext]_gattVars => [Told]_gattVars
  BY DEF Going, GattNext, AttributeNext, Begin, LocalStore, Overwrite, Put, Answer, Read,
         Observe, attribute, gattVars
<1>4. QED
  BY <1>1, <1>2, <1>3, GattTypes, PTL DEF GattSpec, WritesAreWhole

=============================================================================
