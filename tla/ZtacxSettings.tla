---------------------------- MODULE ZtacxSettings -----------------------------
(***************************************************************************)
(* The settings (src/src/ztacx_settings.c): variables whose values are     *)
(* kept in flash under "app/<name>" and handed back at the next start.     *)
(*                                                                         *)
(* The main thread loads them once, in ztacx_settings_start.  The shell    *)
(* sets, loads and saves them; it runs whenever the main thread waits for  *)
(* the flash, so that a set can fall into the middle of the boot's load.   *)
(* settings_load and settings_save_one exclude one another (the kernel's   *)
(* settings lock); changing a value in memory is under no lock.            *)
(*                                                                         *)
(* Of a value only its identity and its length matter: a setting of fixed  *)
(* size accepts a stored value of exactly that size, a string any, and a   *)
(* save of no bytes deletes the entry.                                     *)
(***************************************************************************)
EXTENDS Naturals, FiniteSets

CONSTANTS
  Setting,      \* the settings registered by the leaves' init callbacks
  String,       \* those of kind ZTACX_VALUE_STRING
  Content,      \* the values a setting may have
  Length,       \* value -> number of bytes saved for it
  Width,        \* setting of fixed size -> sizeof its value
  Default,      \* setting -> the value it is linked with
  NULL,         \* no value: the entry is not in flash, the string not allocated
  Garbage,      \* contents of freed memory
  FirstFlash,   \* the entries the flash may hold at first: setting -> value or NULL
  Place,        \* setting -> the place of its entry in flash
  Typed,        \* what is typed in this instance: pairs of a setting and a value
  Starved,      \* the strings that may find no memory, in this instance
  MaxSets,      \* bound on the values set
  MaxRestarts   \* bound on the restarts

Held   == Content \cup {NULL, Garbage}
Caller == {"main", "shell"}

ASSUME SettingsAssumption ==
  /\ String \subseteq Setting
  /\ NULL \notin Content /\ Garbage \notin Content /\ NULL # Garbage
  /\ NULL \notin Setting \cup Caller
  /\ Length \in [Content \cup {Garbage} -> Nat] /\ Length[Garbage] # 0
  /\ Width \in [Setting \ String -> Nat \ {0}]
  /\ Default \in [Setting -> Content \cup {NULL}]
  /\ FirstFlash \subseteq [Setting -> Content \cup {NULL}]
  /\ Place \in [Setting -> Nat]
  /\ Typed \subseteq Setting \X Content
  /\ \A p \in Typed : p[1] \notin String => Length[p[2]] = Width[p[1]]
  /\ Starved \subseteq String
  /\ MaxSets \in Nat /\ MaxRestarts \in Nat

VARIABLES
  ram,        \* setting -> its value in memory
  flash,      \* setting -> the entry "app/<name>"
  loader,     \* the thread in settings_load, which holds the lock, or NULL
  todo,       \* the entries it has still to hand over
  booted,     \* ztacx_settings_start has been called since the restart
  saving,     \* the setting ztacx_setting_set has changed and not saved yet, or NULL
  freed,      \* its string was reallocated since
  sets, restarts,   \* for the bounds MaxSets, MaxRestarts
  unsaved,    \* settings changed in memory since their last save or load (auxiliary)
  touched     \* settings changed since the restart by other than their entry (auxiliary)

settingsVars == <<ram, flash, loader, todo, booted, saving, freed, sets, restarts, unsaved, touched>>

SettingsTypeOK ==
  /\ ram       \in [Setting -> Held]
  /\ flash     \in [Setting -> Held]
  /\ loader    \in Caller \cup {NULL}
  /\ todo      \subseteq Setting
  /\ booted    \in BOOLEAN
  /\ saving    \in Setting \cup {NULL}
  /\ freed     \in BOOLEAN
  /\ sets      \in 0..MaxSets
  /\ restarts  \in 0..MaxRestarts
  /\ unsaved   \subseteq Setting
  /\ touched   \subseteq Setting

\* Does settings_handle_set accept v for s?  A fixed size must match.  Broken
\* variant: the size is not looked at.
AcceptsAny(s, v) == v # NULL
Accepts(s, v)    == v # NULL /\ (s \notin String => Length[v] = Width[s])

\* The memory of a program that has just started.
Fresh ==
  /\ ram = Default
  /\ loader = NULL /\ todo = {} /\ booted = FALSE
  /\ saving = NULL /\ freed = FALSE
  /\ unsaved = {} /\ touched = {}

\* The flash holds what earlier runs, of this program or of another version of
\* it with other sizes, have left there.
SettingsInit ==
  /\ Fresh
  /\ flash \in FirstFlash
  /\ sets = 0 /\ restarts = 0

-----------------------------------------------------------------------------
(* settings_load: the handler is called for every entry found.             *)

LoadBegin(t) ==
  /\ loader = NULL
  /\ loader' = t
  /\ todo'   = {s \in Setting : flash[s] # NULL}
  /\ UNCHANGED <<ram, flash, saving, freed, sets, restarts, unsaved, touched>>

\* ztacx_settings_start, in the main thread.  Broken variant: nothing is loaded.
BootOnly ==
  /\ ~booted /\ loader = NULL
  /\ booted' = TRUE
  /\ UNCHANGED <<ram, flash, loader, todo, saving, freed, sets, restarts, unsaved, touched>>

BootLoad ==
  /\ ~booted
  /\ LoadBegin("main")
  /\ booted' = TRUE

\* "settings" and "settings load".
ShellLoad ==
  /\ saving = NULL
  /\ LoadBegin("shell")
  /\ UNCHANGED booted

\* Does a string make room for another value before it takes it?
MovesTo(s, v) == s \in String /\ (ram[s] # NULL => Length[ram[s]] # Length[v])

\* settings_handle_set stores the value without telling any observer.  A string of
\* another length moves to new memory; when there is none it is left without any.
settings_handle_set(s) ==
  /\ s \in todo /\ \A other \in todo : Place[s] <= Place[other]
  /\ todo' = todo \ {s}
  /\ \/ /\ Accepts(s, flash[s]) = FALSE
        /\ UNCHANGED <<ram, freed, unsaved, touched>>
     \/ /\ Accepts(s, flash[s])
        /\ ram'     = [ram EXCEPT ![s] = flash[s]]
        /\ freed'   = (freed \/ (s = saving /\ ram[s] # NULL /\ MovesTo(s, flash[s])))
        /\ unsaved' = unsaved \ {s}
        /\ UNCHANGED touched
     \/ /\ Accepts(s, flash[s]) /\ MovesTo(s, flash[s]) /\ s \in Starved
        /\ ram'     = [ram EXCEPT ![s] = NULL]
        /\ unsaved' = unsaved \cup {s}
        /\ touched' = touched \cup {s}
        /\ UNCHANGED freed
  /\ UNCHANGED <<flash, loader, booted, saving, sets, restarts>>

LoadEnd ==
  /\ loader # NULL /\ todo = {}
  /\ loader' = NULL
  /\ UNCHANGED <<ram, flash, todo, booted, saving, freed, sets, restarts, unsaved, touched>>

-----------------------------------------------------------------------------
(* ztacx_setting_set and the other writers.                                *)

ShellIdle == saving = NULL /\ loader # "shell"

\* ztacx_setting_set changes the value in memory (a new string in new memory; when
\* there is none, ztacx_variable_value_set_string forgets the error and the old one
\* is saved below) ...
SetRam(s, v) ==
  /\ ShellIdle /\ sets < MaxSets
  /\ <<s, v>> \in Typed
  /\ \/ ram' = [ram EXCEPT ![s] = v]
     \/ s \in Starved /\ UNCHANGED ram
  /\ saving'  = s /\ freed' = FALSE
  /\ unsaved' = unsaved \cup {s}
  /\ touched' = touched \cup {s}
  /\ sets'    = sets + 1
  /\ UNCHANGED <<flash, loader, todo, booted, restarts>>

\* What a save of value v leaves in flash.
Entry(v) == IF v = NULL \/ Length[v] = 0 THEN NULL ELSE v

\* Is there a string behind the pointer that the save was given?
Sound(s) == ~freed /\ ram[s] # NULL

\* What the save of s leaves in flash and in doubt: what is in memory by now, read
\* through the pointer that ztacx_setting_set took.
Saved(s) ==
  /\ \E v \in IF Sound(s) THEN {ram[s]} ELSE {ram[s], Garbage} : flash' = [flash EXCEPT ![s] = Entry(v)]
  /\ unsaved' = IF Sound(s) THEN unsaved \ {s} ELSE unsaved \cup {s}

\* Broken variant of SaveOne: the old entry is deleted before the new one is written.
SaveOneAnew(s, ok) ==
  /\ s = saving /\ loader = NULL
  /\ saving' = NULL /\ freed' = FALSE
  /\ IF ok THEN Saved(s) ELSE flash' = [flash EXCEPT ![s] = NULL] /\ UNCHANGED unsaved
  /\ UNCHANGED <<ram, loader, todo, booted, sets, restarts, touched>>

\* ... and then saves it.  A save that fails changes nothing.
SaveOne(s, ok) ==
  /\ s = saving /\ loader = NULL
  /\ saving' = NULL /\ freed' = FALSE
  /\ IF ok THEN Saved(s) ELSE UNCHANGED <<flash, unsaved>>
  /\ UNCHANGED <<ram, loader, todo, booted, sets, restarts, touched>>

\* A leaf's command or handler changes a setting of fixed size in memory only
\* (the LED's duty, the speaker's volume).
VarSet(s, v) ==
  /\ sets < MaxSets
  /\ <<s, v>> \in Typed /\ s \notin String
  /\ ram'     = [ram EXCEPT ![s] = v]
  /\ unsaved' = unsaved \cup {s}
  /\ touched' = touched \cup {s}
  /\ sets'    = sets + 1
  /\ UNCHANGED <<flash, loader, todo, booted, saving, freed, restarts>>

\* "settings save": settings_handle_export names the entries without "app/", so
\* that no load finds them; what is under "app/" stays.
settings_handle_export ==
  /\ ShellIdle /\ loader = NULL
  /\ UNCHANGED settingsVars

\* Power or reset, at any moment; an entry is written whole or not at all.
Restart ==
  /\ restarts < MaxRestarts
  /\ restarts' = restarts + 1
  /\ ram' = Default
  /\ loader' = NULL /\ todo' = {} /\ booted' = FALSE
  /\ saving' = NULL /\ freed' = FALSE
  /\ unsaved' = {} /\ touched' = {}
  /\ UNCHANGED <<flash, sets>>

-----------------------------------------------------------------------------
SettingsNext ==
  \/ BootLoad \/ ShellLoad \/ LoadEnd
  \/ settings_handle_export
  \/ \E s \in Setting :
       \/ settings_handle_set(s)
       \/ \E v \in Content : SetRam(s, v) \/ VarSet(s, v)
       \/ \E ok \in BOOLEAN : SaveOne(s, ok)
  \/ Restart

SettingsSpec == SettingsInit /\ [][SettingsNext]_settingsVars

-----------------------------------------------------------------------------
(* Properties.                                                             *)

\* The boot's load is over.
Loaded == booted /\ loader # "main"

\* Does the entry of s fit it?
Fits(s) == /\ flash[s] # NULL
           /\ s \notin String => Length[flash[s]] = Width[s]

\* Memory and flash do not drift apart: a setting that nothing has changed in memory
\* since it was last saved or loaded is what a restart would bring, whatever saves
\* and allocations fail, whatever loads and writes fall into a set or between two.
\* (In doubt stays a string that a load reallocated, or that was never allocated,
\* under a set that was saving it: ztacx_settings.c:182 and 530.)
MemoryIsFlash ==
  Loaded => \A s \in Setting \ unsaved :
              Entry(ram[s]) = Entry(flash[s]) \/ (~Fits(s) /\ ram[s] = Default[s])

\* After the boot's load, a setting that nothing but its entry has changed since the
\* restart has the value in flash, or its default when there is none or it does not
\* fit (ztacx_settings_start, settings_handle_set).
AcrossRestart ==
  Loaded => \A s \in Setting \ touched : ram[s] = IF Fits(s) THEN flash[s] ELSE Default[s]

=============================================================================
