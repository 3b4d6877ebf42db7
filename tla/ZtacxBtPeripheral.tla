------------------------- MODULE ZtacxBtPeripheral --------------------------
(***************************************************************************)
(* Advertising in the Bluetooth peripheral leaf                            *)
(* (src/src/ztacx_bt_peripheral.c).                                        *)
(*                                                                         *)
(* The application registers its advertising data at some moment, the      *)
(* stack reports ready at another, and centrals connect and disconnect.    *)
(* advertise() runs on the system work queue, and on the shell's thread    *)
(* for its "advertise" command; ztacx_bt_adv_register runs on the          *)
(* application's.  They share the flag ADVERTISING and the registered data *)
(* without a lock, and the calls into the stack block, so that each of     *)
(* them can be overtaken at any step.                                      *)
(*                                                                         *)
(* The stack is modelled by what these functions rely on: starting fails   *)
(* before it is up and while advertising or connected (one connection),    *)
(* and may fail at any other time, as setting the name may; stopping       *)
(* leaves it off the air, a connection ends the advertising, and on        *)
(* disconnection the stack may resume it by itself.                        *)
(***************************************************************************)
EXTENDS SysWorkQ, FiniteSets

CONSTANTS
  Data,           \* data sets the application registers, each once: advertising data, a
                  \* scan response and the size of each
  NoData,         \* NULL, or size 0
  Command,        \* the shell commands of this instance
  MaxCommands     \* bound on the shell commands

ASSUME BtAssumption ==
  /\ NoData \notin Data
  /\ Command \subseteq {"advertise", "advertise_stop", "name"}
  /\ MaxCommands \in Nat

Context == {"sysworkq", "app", "shell"}
Work    == {"bt_ready", "advertise"}

\* bt_adv_data, bt_adv_data_size, bt_scanresp, bt_scanresp_size: of which set each is.
Field   == {"data", "size", "scanresp", "scanresp_size"}
Nothing == [f \in Field |-> NoData]

VARIABLES
  ok,         \* value OK
  flag,       \* value ADVERTISING
  connected,  \* value CONNECTED
  adv,        \* field -> the data set it is of
  pc,         \* context -> the step it is at
  arg,        \* the data set being registered by the application
  left,       \* data sets not registered yet
  queue,      \* the system work queue
  onair,      \* the fields being advertised, or Nothing
  resume,     \* what the stack will resume after a connection, or Nothing
  up,         \* the stack is initialised
  linked,     \* a central is connected
  refused,    \* the stack has refused "name" in bt_ready, the last "start" (auxiliary)
  typed,      \* the shell commands given so far (auxiliary)
  commands    \* shell commands so far, for the bound MaxCommands

values == <<ok, flag, connected>>
datas  == <<adv, arg, left>>
stack  == <<onair, resume, linked, up>>
vars   == <<values, datas, pc, queue, stack, refused, typed, commands>>

Step == {"idle", "flag", "adv_stop", "clear", "stopped", "adv_start", "set",
         "store_size", "store_scanresp", "store_scanresp_size", "submit", "ready"}

Fields == [Field -> Data \cup {NoData}]

TypeOK ==
  /\ ok \in BOOLEAN /\ flag \in BOOLEAN /\ connected \in BOOLEAN
  /\ adv \in Fields
  /\ pc \in [Context -> Step]
  /\ arg \in Data \cup {NoData}
  /\ left \subseteq Data
  /\ queue \in Seq(Work)
  /\ onair \in Fields /\ resume \in Fields /\ refused \subseteq {"name", "start"}
  /\ linked \in BOOLEAN /\ up \in BOOLEAN /\ typed \subseteq Command
  /\ commands \in 0..MaxCommands

\* ztacx_bt_peripheral_start has called bt_enable(bt_ready).
Init ==
  /\ ok = FALSE /\ flag = FALSE /\ connected = FALSE
  /\ adv = Nothing
  /\ pc = [c \in Context |-> "idle"]
  /\ arg = NoData /\ left = Data
  /\ queue = <<"bt_ready">>
  /\ onair = Nothing /\ resume = Nothing /\ linked = FALSE /\ up = FALSE
  /\ refused = {} /\ typed = {} /\ commands = 0

Goto(c, step) == pc' = [pc EXCEPT ![c] = step]

-----------------------------------------------------------------------------
(* stop_advertise, the beginning of advertise and of ztacx_bt_adv_register *)

StopIfFlag(c) ==
  /\ pc[c] = "flag"
  /\ Goto(c, IF flag THEN "adv_stop" ELSE "stopped")
  /\ UNCHANGED <<values, datas, queue, stack, refused, typed, commands>>

\* bt_le_adv_stop
AdvStop(c) ==
  /\ pc[c] = "adv_stop"
  /\ onair' = Nothing /\ resume' = Nothing
  /\ Goto(c, "clear")
  /\ UNCHANGED <<values, datas, queue, linked, up, refused, typed, commands>>

ClearFlag(c) ==
  /\ pc[c] = "clear"
  /\ flag' = FALSE
  /\ Goto(c, "stopped")
  /\ UNCHANGED <<ok, connected, datas, queue, stack, refused, typed, commands>>

-----------------------------------------------------------------------------
(* advertise                                                               *)

\* Is there nothing to advertise?
NoAdvData == adv["data"] = NoData \/ adv["size"] = NoData

\* Without data there is nothing to start.
CheckData(c) ==
  /\ pc[c] = "stopped" /\ c # "app"
  /\ Goto(c, IF NoAdvData THEN "idle" ELSE "adv_start")
  /\ UNCHANGED <<values, datas, queue, stack, refused, typed, commands>>

\* bt_le_adv_start with what is registered now; on an error advertise returns.
Startable == up /\ onair = Nothing /\ ~linked

AdvStart(c) ==
  /\ pc[c] = "adv_start"
  /\ \/ /\ Startable
        /\ onair' = adv /\ resume' = adv /\ refused' = refused \ {"start"}
        /\ Goto(c, "set")
     \/ /\ refused' = IF Startable THEN refused \cup {"start"} ELSE refused \ {"start"}
        /\ Goto(c, "idle") /\ UNCHANGED <<onair, resume>>
  /\ UNCHANGED <<values, datas, queue, linked, up, typed, commands>>

SetFlag(c) ==
  /\ pc[c] = "set"
  /\ flag' = TRUE
  /\ Goto(c, "idle")
  /\ UNCHANGED <<ok, connected, datas, queue, stack, refused, typed, commands>>

-----------------------------------------------------------------------------
(* ztacx_bt_adv_register, on the application's thread                      *)

Register(d) ==
  /\ pc["app"] = "idle" /\ d \in left
  /\ arg' = d /\ left' = left \ {d}
  /\ Goto("app", "flag")
  /\ UNCHANGED <<values, adv, queue, stack, refused, typed, commands>>

\* Its four assignments, in this order.
Storing   == [stopped |-> "data", store_size |-> "size", store_scanresp |-> "scanresp",
              store_scanresp_size |-> "scanresp_size"]
Following == [stopped |-> "store_size", store_size |-> "store_scanresp",
              store_scanresp |-> "store_scanresp_size", store_scanresp_size |-> "submit"]

Store ==
  /\ pc["app"] \in DOMAIN Storing
  /\ adv' = [adv EXCEPT ![Storing[pc["app"]]] = arg]
  /\ Goto("app", Following[pc["app"]])
  /\ UNCHANGED <<values, arg, left, queue, stack, refused, typed, commands>>

\* Advertise now if the stack is ready; otherwise bt_ready will.  Broken variant: not
\* if something is on the air already.
SubmitIfSilent ==
  /\ pc["app"] = "submit"
  /\ queue' = IF ok /\ ~flag THEN Submit(queue, "advertise") ELSE queue
  /\ Goto("app", "idle") /\ arg' = NoData
  /\ UNCHANGED <<values, adv, left, stack, refused, typed, commands>>

SubmitIfReady ==
  /\ pc["app"] = "submit"
  /\ queue' = IF ok THEN Submit(queue, "advertise") ELSE queue
  /\ Goto("app", "idle") /\ arg' = NoData
  /\ UNCHANGED <<values, adv, left, stack, refused, typed, commands>>

-----------------------------------------------------------------------------
(* The system work queue                                                   *)

RunAdvertise ==
  /\ pc["sysworkq"] = "idle" /\ queue # << >> /\ Head(queue) = "advertise"
  /\ queue' = Tail(queue)
  /\ Goto("sysworkq", "flag")
  /\ UNCHANGED <<values, datas, stack, refused, typed, commands>>

\* bt_advertise_name submits advertise once the name is set; nothing is done when the
\* stack refuses the name.  Broken variant: only when there is something to advertise.
AdvertiseNameIfData(q) == IF NoAdvData THEN q ELSE Submit(q, "advertise")
AdvertiseName(q)       == Submit(q, "advertise")

\* bt_ready: with an error the leaf stays not OK; otherwise it calls bt_advertise_name,
\* whose result it ignores ...
RunBtReady ==
  /\ pc["sysworkq"] = "idle" /\ queue # << >> /\ Head(queue) = "bt_ready"
  /\ \/ queue' = Tail(queue) /\ UNCHANGED <<up, pc, refused>>
     \/ /\ up' = TRUE /\ Goto("sysworkq", "ready")
        /\ \/ queue' = AdvertiseName(Tail(queue)) /\ UNCHANGED refused
           \/ queue' = Tail(queue) /\ refused' = refused \cup {"name"}
  /\ UNCHANGED <<values, datas, onair, resume, linked, typed, commands>>

\* ... and OK is set.
BtReadyOk ==
  /\ pc["sysworkq"] = "ready"
  /\ ok' = TRUE
  /\ Goto("sysworkq", "idle")
  /\ UNCHANGED <<flag, connected, datas, queue, stack, refused, typed, commands>>

-----------------------------------------------------------------------------
(* Connections                                                             *)

\* bt_cb_connected
Connected ==
  /\ onair # Nothing
  /\ linked' = TRUE /\ onair' = Nothing
  /\ connected' = TRUE
  /\ UNCHANGED <<ok, flag, datas, pc, queue, resume, up, refused, typed, commands>>

\* bt_cb_connected with an error: logged, and the rest is done all the same.
ConnectFailed ==
  /\ onair # Nothing
  /\ connected' = TRUE
  /\ UNCHANGED <<ok, flag, datas, pc, queue, stack, refused, typed, commands>>

\* Broken variant of Disconnected: the flag is cleared with the connection.
DisconnectedClearing ==
  /\ linked
  /\ linked' = FALSE /\ onair' \in {Nothing, resume}
  /\ connected' = FALSE /\ flag' = FALSE
  /\ queue' = Submit(queue, "advertise")
  /\ UNCHANGED <<ok, datas, pc, resume, up, refused, typed, commands>>

\* bt_cb_disconnected
Disconnected ==
  /\ linked
  /\ linked' = FALSE /\ onair' \in {Nothing, resume}
  /\ connected' = FALSE
  /\ queue' = Submit(queue, "advertise")
  /\ UNCHANGED <<ok, flag, datas, pc, resume, up, refused, typed, commands>>

-----------------------------------------------------------------------------
(* cmd_ztacx_bt_peripheral, on the shell's thread                          *)

Typed(cmd) ==
  /\ cmd \in Command
  /\ pc["shell"] = "idle" /\ commands < MaxCommands
  /\ commands' = commands + 1 /\ typed' = typed \cup {cmd}

ShellAdvertise ==
  /\ Typed("advertise")
  /\ Goto("shell", "flag")
  /\ UNCHANGED <<values, datas, queue, stack, refused>>

\* The stack is stopped, the flag left alone.
ShellStop ==
  /\ Typed("advertise_stop")
  /\ onair' = Nothing /\ resume' = Nothing
  /\ UNCHANGED <<values, datas, pc, queue, linked, up, refused>>

\* bt_advertise_name
ShellName ==
  /\ Typed("name")
  /\ queue' \in {AdvertiseName(queue), queue}
  /\ UNCHANGED <<values, datas, pc, stack, refused>>

-----------------------------------------------------------------------------
Continue(c) == StopIfFlag(c) \/ AdvStop(c) \/ ClearFlag(c) \/ CheckData(c)
               \/ AdvStart(c) \/ SetFlag(c)

AppStep   == Store \/ SubmitIfReady
QueueStep == RunAdvertise \/ RunBtReady \/ BtReadyOk

Next ==
  \/ \E c \in Context : Continue(c)
  \/ \E d \in Data : Register(d)
  \/ AppStep \/ QueueStep
  \/ Connected \/ ConnectFailed \/ Disconnected
  \/ ShellAdvertise \/ ShellStop \/ ShellName

Spec == Init /\ [][Next]_vars

\* A thread inside a function goes on, and the work queue serves its items.
FairSpec ==
  /\ Spec
  /\ \A c \in Context : WF_vars(Continue(c))
  /\ WF_vars(AppStep) /\ WF_vars(QueueStep)

-----------------------------------------------------------------------------
(* Properties.                                                             *)

Quiet == \A c \in Context : pc[c] = "idle"

\* The application has registered one data set at most, as every sample does.
Once == \A d, e \in Data \ left : d = e

\* When nobody is inside advertise or ztacx_bt_adv_register, what is on the air
\* is flagged ADVERTISING: stop_advertise trusts the flag, and data advertised
\* without it could never be replaced.  Left out are the "advertise" command, which
\* runs on the shell's thread and can overtake the work queue's advertise, and a
\* second registration, whose stop_advertise runs on the application's.
FlagFollowsRadio ==
  "advertise" \notin typed /\ Once /\ Quiet /\ onair # Nothing => flag

\* When nobody is inside them and no advertise is to come, what is on the air and
\* flagged is what is registered, the scan response and the sizes included, although
\* the four are stored one after the other with advertise free to start between them
\* and a registration may replace another.
AirIsRegistered ==
  "advertise" \notin typed /\ Quiet /\ ~Queued(queue, "advertise") /\ flag /\ onair # Nothing
    => onair = adv

\* Once the stack is ready and data is registered, in whichever order the two
\* happen and whatever a disconnection or a command does meanwhile, the
\* peripheral is on the air again unless a central is connected ("will
\* advertise later", src/src/ztacx_bt_peripheral.c:326), the shell stopped it or the
\* stack refused it, in which case only a disconnection or a command tries again.
AdvertisesEventually ==
  (ok /\ ~NoAdvData /\ ~linked) ~>
    (onair # Nothing \/ linked \/ "advertise_stop" \in typed \/ refused # {})

=============================================================================
