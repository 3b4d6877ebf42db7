---------------------------- MODULE ZtacxLeaves -----------------------------
(***************************************************************************)
(* The leaf registry and the leaves' lifecycle (src/src/ztacx.c).          *)
(*                                                                         *)
(* A leaf is one instance of a module (a LED, a keypad, the Bluetooth      *)
(* peripheral).  At boot the main thread runs SYS_INIT functions in        *)
(* priority order: ztacx_init empties the registry, ztacx_leaf_sys_init    *)
(* appends each leaf and calls its init callback, and then                 *)
(* ztacx_leaf_sys_start calls the start callbacks.  Callbacks may sleep    *)
(* (the LED strip's init shows a test picture, lorawan's start joins the   *)
(* network); the shell then runs, and its commands boot, init, start, stop *)
(* and power off work on the same list, sleeping in callbacks themselves.  *)
(*                                                                         *)
(* The class list is only ever appended to and nothing reads it: left out. *)
(***************************************************************************)
EXTENDS Integers, Sequences, FiniteSets

CONSTANTS
  Leaf,       \* the leaves linked into the program
  HasStop,    \* those whose class has a stop callback
  NULL,       \* the NULL pointer
  Command,    \* the shell commands typed in this instance
  MaxAppends  \* bound on the registrations after which none is made by command

ASSUME LeavesAssumption ==
  /\ IsFiniteSet(Leaf)
  /\ NULL \notin Leaf
  /\ HasStop \subseteq Leaf
  /\ Command \subseteq {"boot", "init", "start", "stop", "status", "power_off"}
  /\ MaxAppends \in Nat

VARIABLES
  phase,     \* SYS_INIT level reached by the main thread
  todo,      \* leaves the level has still to visit
  calling,   \* leaf whose init or start callback the main thread is in, or NULL
  list,      \* ztacx_leaves
  order,     \* leaves appended since the last ztacx_init (auxiliary)
  ready,     \* leaf -> struct ztacx_leaf.ready
  running,   \* leaf -> struct ztacx_leaf.running
  shell,     \* what the shell thread is doing
  target,    \* the leaf named in its command, or NULL
  cursor,    \* the leaf ztacx_pre_sleep looks at, or NULL
  asked,     \* the registry as it was when power_off was called (auxiliary)
  slept,     \* leaves whose pre_sleep callback has run (auxiliary)
  power      \* "on", "off", or "fault" after a NULL leaf is dereferenced

flags == <<ready, running>>
off   == <<cursor, asked, slept, power>>
vars  == <<phase, todo, calling, list, order, flags, shell, target, off>>

S == INSTANCE SysSlist WITH Node <- Leaf

TypeOK ==
  /\ phase    \in {"init", "leaf_init", "leaf_start", "up"}
  /\ todo     \subseteq Leaf
  /\ calling  \in Leaf \cup {NULL}
  /\ list     \in S!List
  /\ order    \in Seq(Leaf)
  /\ ready    \in [Leaf -> BOOLEAN]
  /\ running  \in [Leaf -> BOOLEAN]
  /\ shell    \in {"idle", "get", "init", "start", "stop", "status", "pre_sleep"}
  /\ target   \in Leaf \cup {NULL}
  /\ cursor   \in Leaf \cup {NULL}
  /\ asked    \in S!List
  /\ slept    \subseteq Leaf
  /\ power    \in {"on", "off", "fault"}

\* All of it is zero-initialised static storage.
Init ==
  /\ phase = "init" /\ todo = {} /\ calling = NULL
  /\ list = [head |-> NULL, tail |-> NULL, next |-> [l \in Leaf |-> NULL]]
  /\ order = << >>
  /\ ready = [l \in Leaf |-> FALSE] /\ running = ready
  /\ shell = "idle" /\ target = NULL
  /\ cursor = NULL /\ asked = list /\ slept = {} /\ power = "on"

-----------------------------------------------------------------------------
(* Boot, in the main thread.                                               *)

\* ztacx_init empties the registry.  Broken variant: its tail is left.
EmptyHead ==
  /\ list'  = [list EXCEPT !.head = NULL]
  /\ order' = << >>

EmptyRegistry ==
  /\ list'  = S!SlistInit(list)
  /\ order' = << >>

\* Broken variant of Register: the leaf is appended twice.
RegisterTwice(l) ==
  /\ list'    = S!SlistAppend(S!SlistAppend(list, l), l)
  /\ order'   = Append(order, l)
  /\ ready'   = [ready EXCEPT ![l] = FALSE]
  /\ running' = [running EXCEPT ![l] = FALSE]

\* ztacx_leaf_sys_init up to the init callback: append, forget what the leaf was.
Register(l) ==
  /\ list'    = S!SlistAppend(list, l)
  /\ order'   = Append(order, l)
  /\ ready'   = [ready EXCEPT ![l] = FALSE]
  /\ running' = [running EXCEPT ![l] = FALSE]

\* What a callback that returns rc does to the leaf: a successful init makes it ready,
\* a successful start running.
Inited(l, rc)  == ready' = [ready EXCEPT ![l] = @ \/ rc = 0] /\ UNCHANGED running
Started(l, rc) == running' = [running EXCEPT ![l] = @ \/ rc = 0] /\ UNCHANGED ready

BootInit ==
  /\ phase = "init"
  /\ EmptyRegistry
  /\ phase' = "leaf_init" /\ todo' = Leaf
  /\ UNCHANGED <<calling, flags, shell, target, off>>

\* Within a priority the order of SYS_INIT functions is the linker's choice.
BootLeafInit(l) ==
  /\ phase = "leaf_init" /\ power = "on" /\ l \in todo /\ calling = NULL
  /\ Register(l)
  /\ todo' = todo \ {l} /\ calling' = l
  /\ UNCHANGED <<phase, shell, target, off>>

\* ztacx_leaf_sys_start up to the callback: -ESRCH for a leaf that is not ready.
BootStart(l) ==
  /\ phase = "leaf_start" /\ power = "on" /\ l \in todo /\ calling = NULL
  /\ todo' = todo \ {l}
  /\ calling' = IF ready[l] THEN l ELSE NULL
  /\ UNCHANGED <<phase, list, order, flags, shell, target, off>>

\* The callback returns.
BootReturns ==
  /\ calling # NULL /\ power = "on"
  /\ \E rc \in {0, -1} : IF phase = "leaf_init" THEN Inited(calling, rc) ELSE Started(calling, rc)
  /\ calling' = NULL
  /\ UNCHANGED <<phase, todo, list, order, shell, target, off>>

\* The levels are run through in order (ZTACX_LEAF_INIT_PRIORITY, then
\* ZTACX_LEAF_START_PRIORITY, then main).
NextLevel ==
  /\ todo = {} /\ calling = NULL /\ power = "on"
  /\ \/ phase = "leaf_init"  /\ phase' = "leaf_start" /\ todo' = Leaf
     \/ phase = "leaf_start" /\ phase' = "up"         /\ todo' = {}
  /\ UNCHANGED <<calling, list, order, flags, shell, target, off>>

-----------------------------------------------------------------------------
(* The shell, whose priority is lower: it runs while the main thread sleeps *)
(* in a callback, and when that is done.                                    *)

ShellRuns == power = "on" /\ (phase = "up" \/ calling # NULL)

Types(cmd) == ShellRuns /\ shell = "idle" /\ cmd \in Command

\* cmd_ztacx_boot
ShellBoot ==
  /\ Types("boot")
  /\ EmptyRegistry
  /\ UNCHANGED <<phase, todo, calling, flags, shell, target, off>>

\* cmd_ztacx_status prints every leaf it meets, for as long as the list goes on.
ShellStatus ==
  /\ Types("status")
  /\ shell' = "status"
  /\ UNCHANGED <<phase, todo, calling, list, order, flags, target, off>>

StatusEnds ==
  /\ ShellRuns /\ shell = "status" /\ ~S!Endless(list)
  /\ shell' = "idle"
  /\ UNCHANGED <<phase, todo, calling, list, order, flags, target, off>>

\* cmd_ztacx_init, cmd_ztacx_start and cmd_ztacx_stop look their leaf up by name,
\* for as long as it takes: a list without end keeps the shell in the loop unless the
\* leaf is in it.
ShellGet(l) ==
  /\ \E cmd \in {"init", "start", "stop"} : Types(cmd)
  /\ shell' = "get" /\ target' = l
  /\ UNCHANGED <<phase, todo, calling, list, order, flags, off>>

Found == ShellRuns /\ shell = "get" /\ target \in S!Listed(list)

\* A leaf that is not listed gives a NULL pointer, which the callers use (they test
\* the name instead).
GetFails ==
  /\ ShellRuns /\ shell = "get" /\ target \notin S!Listed(list) /\ ~S!Endless(list)
  /\ power' = "fault"
  /\ UNCHANGED <<phase, todo, calling, list, order, flags, shell, target, cursor, asked, slept>>

\* A leaf that is in the list is appended again.
ShellInit ==
  /\ Found /\ "init" \in Command /\ Len(order) < MaxAppends
  /\ Register(target)
  /\ shell' = "init"
  /\ UNCHANGED <<phase, todo, calling, target, off>>

\* The start callback is called whether or not the leaf is ready or already running.
ShellStart ==
  /\ Found /\ "start" \in Command
  /\ shell' = "start"
  /\ UNCHANGED <<phase, todo, calling, list, order, flags, target, off>>

ShellStop ==
  /\ Found /\ "stop" \in Command
  /\ shell' = "stop"
  /\ UNCHANGED <<phase, todo, calling, list, order, flags, target, off>>

\* Without a stop callback only the flag changes.
Stopped(l, rc) ==
  /\ rc = 0 \/ l \in HasStop
  /\ running' = [running EXCEPT ![l] = @ /\ rc # 0] /\ UNCHANGED ready

\* The callback returns.
ShellReturns ==
  /\ ShellRuns
  /\ \E rc \in {0, -1} :
       \/ shell = "init"  /\ Inited(target, rc)
       \/ shell = "start" /\ Started(target, rc)
       \/ shell = "stop"  /\ Stopped(target, rc)
  /\ shell' = "idle" /\ target' = NULL
  /\ UNCHANGED <<phase, todo, calling, list, order, off>>

\* power_off: ztacx_pre_sleep walks the list ...
PowerOff ==
  /\ Types("power_off")
  /\ shell' = "pre_sleep" /\ cursor' = list.head /\ asked' = list
  /\ UNCHANGED <<phase, todo, calling, list, order, flags, target, slept, power>>

\* Where ztacx_pre_sleep goes after a leaf whose callback returned err.  Broken
\* variants: the walk ends at an error; it takes the list's head for the leaf.
NextIfOk(err)   == IF err = 0 THEN list.next[cursor] ELSE NULL
NextOfHead(err) == list.next[list.head]
NextLeaf(err)   == list.next[cursor]

\* ... calling each leaf's pre_sleep; an error is remembered for a return value
\* that power_off drops, and the walk goes on ...
PreSleep ==
  /\ ShellRuns /\ shell = "pre_sleep" /\ cursor # NULL
  /\ \E err \in {0, -1} :
        /\ slept'  = slept \cup {cursor}
        /\ cursor' = NextLeaf(err)
  /\ UNCHANGED <<phase, todo, calling, list, order, flags, shell, target, asked, power>>

\* ... and then the system is forced off.
SystemOff ==
  /\ ShellRuns /\ shell = "pre_sleep" /\ cursor = NULL
  /\ power' = "off"
  /\ UNCHANGED <<phase, todo, calling, list, order, flags, shell, target, cursor, asked, slept>>

-----------------------------------------------------------------------------
Runs  == NextLevel \/ \E l \in Leaf : BootLeafInit(l) \/ BootStart(l)
Boot  == BootInit \/ Runs \/ BootReturns

Shell == \/ ShellBoot \/ ShellStatus \/ StatusEnds
         \/ (\E l \in Leaf : ShellGet(l)) \/ GetFails
         \/ ShellInit \/ ShellStart \/ ShellStop \/ ShellReturns
         \/ PowerOff \/ PreSleep \/ SystemOff

Next == Boot \/ Shell

Spec == Init /\ [][Next]_vars

\* The main thread runs while it does not sleep in a callback, from which it need not
\* return; the shell runs on whenever the main thread sleeps or is done, and a
\* pre_sleep callback returns.
FairSpec == Spec /\ WF_vars(Runs) /\ WF_vars(PreSleep) /\ WF_vars(SystemOff)

-----------------------------------------------------------------------------
(* Properties.                                                             *)

\* The registry's pointers are what the registrations since the last ztacx_init make
\* of them, however often a leaf is registered and by whom: by the boot, by "ztacx
\* init" in the middle of it, and after "ztacx boot" has emptied a registry that the
\* boot goes on filling (ztacx_leaf_sys_init, ztacx_init).
RegistryIsList == S!Spells(list, order)

\* Every walk of the registry (a lookup that fails, status, ztacx_pre_sleep) comes to
\* an end, unless the leaf registered last was registered twice in a row: then the
\* leaf is its own successor, until another one is registered.
WalksEnd == S!Endless(list) <=> S!Twice(order)

\* The system goes off only after the pre_sleep of every leaf that was listed when
\* power_off was called, also when an earlier leaf's pre_sleep failed, when the boot
\* registers leaves meanwhile, and when leaves were registered twice (ztacx_pre_sleep,
\* power_off).
AllSleptBeforeOff == power = "off" => S!Listed(asked) \subseteq slept

\* Powering off comes to its end, whatever the callbacks return and the boot does
\* meanwhile, unless a second registration has made the registry endless.
PowerOffCompletes == shell = "pre_sleep" /\ ~S!Endless(list) ~> power = "off"

=============================================================================
