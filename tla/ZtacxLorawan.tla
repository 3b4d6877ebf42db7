----------------------------- MODULE ZtacxLorawan -----------------------------
(***************************************************************************)
(* The LoRaWAN leaf (src/src/ztacx_lorawan.c) on top of the settings: the  *)
(* credentials are read from the settings in memory when the leaf starts,  *)
(* are kept from the first complete set on, and are used to join the       *)
(* network, with a sleep between attempts.                                 *)
(*                                                                         *)
(* The main thread starts the settings and this leaf in the order the      *)
(* linker chose; all of boot waits for the join.  "ztacx start lorawan"    *)
(* starts it once more in the shell, which runs while the main thread      *)
(* sleeps or waits for the radio.                                          *)
(***************************************************************************)
EXTENDS ZtacxSettings, Sequences

CONSTANTS
  Yes,        \* the value of a boolean setting that is on
  Key,        \* the string settings with credentials
  KeyLength,  \* key -> number of bytes the network needs
  Retries,    \* the values of setting lorawan_join_retries
  MaxStarts   \* bound on the start commands

Mode == {"abp", "otaa"}

\* The settings each mode needs, in the order they are parsed.
Needs == [abp  |-> <<"dev_eui", "dev_addr", "app_skey", "nwk_skey">>,
          otaa |-> <<"dev_eui", "app_key", "join_eui">>]

Needed(mode) == {Needs[mode][i] : i \in DOMAIN Needs[mode]}

ASSUME LorawanAssumption ==
  /\ {"enable", "auth_abp", "auth_otaa"} \subseteq Setting \ String
  /\ Key \subseteq String /\ Needed("abp") \cup Needed("otaa") \subseteq Key
  /\ KeyLength \in [Key -> Nat \ {0}]
  /\ Retries \subseteq Nat /\ NULL \notin Mode
  /\ MaxStarts \in Nat

VARIABLES
  at,        \* thread -> where it is in ztacx_lorawan_start
  mode,      \* thread -> the mode whose credentials it parses
  keys,      \* thread -> those it has still to parse
  try,       \* thread -> attempts made
  try_max,   \* thread -> the retries read when it began to join
  join_cfg,  \* the mode of the configuration kept, or NULL
  cred,      \* key -> the bytes parsed from it last, or NULL (dev_eui, ...)
  radio,     \* the thread whose join request is on the air, or NULL
  rc,        \* thread -> what its last start returned
  starts,    \* start commands so far, for the bound MaxStarts
  crossed    \* a configuration was kept while the other thread was parsing (auxiliary)

parsing     == <<mode, keys>>
joining     == <<try, try_max, radio>>
lorawanVars == <<at, parsing, joining, join_cfg, cred, rc, starts, crossed>>
nodeVars == <<settingsVars, lorawanVars>>

LorawanTypeOK ==
  /\ at       \in [Caller -> {"boot", "returned", "start", "parse", "radio", "join", "joining", "sleep"}]
  /\ mode     \in [Caller -> Mode \cup {NULL}]
  /\ keys     \in [Caller -> Seq(Key)]
  /\ try      \in [Caller -> Nat]
  /\ try_max  \in [Caller -> Retries \cup {0}]
  /\ join_cfg \in Mode \cup {NULL}
  /\ cred     \in [Key -> Held]
  /\ radio    \in Caller \cup {NULL}
  /\ rc       \in [Caller -> {"none", "joined", "disabled", "invalid", "not_started", "unreachable", "no_memory"}]
  /\ starts   \in 0..MaxStarts
  /\ crossed  \in BOOLEAN

LorawanFresh ==
  /\ at = [main |-> "boot", shell |-> "returned"]
  /\ mode = [t \in Caller |-> NULL] /\ keys = [t \in Caller |-> << >>]
  /\ try = [t \in Caller |-> 0] /\ try_max = try
  /\ join_cfg = NULL /\ cred = [k \in Key |-> NULL]
  /\ radio = NULL
  /\ rc = [t \in Caller |-> "none"]
  /\ crossed = FALSE

LorawanInit == SettingsInit /\ LorawanFresh /\ starts = 0

-----------------------------------------------------------------------------
(* ztacx_lorawan_start.                                                    *)

Return(t, code) ==
  /\ at' = [at EXCEPT ![t] = "returned"]
  /\ rc' = [rc EXCEPT ![t] = code]

Outside(t) == at[t] \in {"boot", "returned"}

\* The boot calls it before or after ztacx_settings_start, never in its middle.
BootStart ==
  /\ at["main"] = "boot" /\ loader # "main"
  /\ at' = [at EXCEPT !["main"] = "start"]
  /\ UNCHANGED <<settingsVars, parsing, joining, join_cfg, cred, rc, starts, crossed>>

ShellStart ==
  /\ at["shell"] = "returned" /\ ShellIdle /\ starts < MaxStarts
  /\ at' = [at EXCEPT !["shell"] = "start"]
  /\ starts' = starts + 1
  /\ UNCHANGED <<settingsVars, parsing, joining, join_cfg, cred, rc, crossed>>

On(f, s) == f[s] = Yes

\* parse_hex_setting wants two digits for each byte.
Parses(f, k) == f[k] # NULL /\ Length[f[k]] \div 2 = KeyLength[k]

\* The mode that settings f ask for: ABP comes first.
Wanted(f) == IF On(f, "auth_abp") THEN "abp" ELSE IF On(f, "auth_otaa") THEN "otaa" ELSE NULL

Complete(f) == Wanted(f) # NULL /\ \A k \in Needed(Wanted(f)) : Parses(f, k)

Disabled(t) ==
  /\ at[t] = "start" /\ ~On(ram, "enable")
  /\ Return(t, "disabled")
  /\ UNCHANGED <<settingsVars, parsing, joining, join_cfg, cred, starts, crossed>>

\* A configuration that was kept is used as it is.
UseConfig(t) ==
  /\ at[t] = "start" /\ On(ram, "enable") /\ join_cfg # NULL
  /\ at' = [at EXCEPT ![t] = "radio"]
  /\ UNCHANGED <<settingsVars, parsing, joining, join_cfg, cred, rc, starts, crossed>>

\* Otherwise the mode is looked up.  Broken variant: every start parses again.
ChooseAgain(t) ==
  /\ at[t] = "start" /\ On(ram, "enable")
  /\ IF Wanted(ram) = NULL
     THEN Return(t, "invalid") /\ UNCHANGED parsing
     ELSE /\ at'   = [at EXCEPT ![t] = "parse"]
          /\ mode' = [mode EXCEPT ![t] = Wanted(ram)]
          /\ keys' = [keys EXCEPT ![t] = Needs[Wanted(ram)]]
          /\ UNCHANGED rc
  /\ UNCHANGED <<settingsVars, joining, join_cfg, cred, starts, crossed>>

Choose(t) == join_cfg = NULL /\ ChooseAgain(t)

\* Broken variant of ParseKey: the result is not looked at.
ParseAnyway(t) ==
  /\ at[t] = "parse" /\ keys[t] # << >>
  /\ LET k == Head(keys[t])
     IN  cred' = IF Parses(ram, k) THEN [cred EXCEPT ![k] = ram[k]] ELSE cred
  /\ keys' = [keys EXCEPT ![t] = Tail(@)]
  /\ UNCHANGED <<settingsVars, at, mode, joining, join_cfg, rc, starts, crossed>>

\* The credentials are parsed one by one into the static buffers that the
\* configuration points to; the first that is not right ends the start.
ParseKey(t) ==
  /\ at[t] = "parse" /\ keys[t] # << >>
  /\ LET k == Head(keys[t])
     IN  IF Parses(ram, k)
         THEN /\ cred' = [cred EXCEPT ![k] = ram[k]]
              /\ keys' = [keys EXCEPT ![t] = Tail(@)]
              /\ UNCHANGED <<at, rc, mode>>
         ELSE /\ Return(t, "invalid")
              /\ keys' = [keys EXCEPT ![t] = << >>] /\ mode' = [mode EXCEPT ![t] = NULL]
              /\ UNCHANGED cred
  /\ UNCHANGED <<settingsVars, joining, join_cfg, starts, crossed>>

\* When all of them are right the configuration is kept.  Without memory for it there
\* is none, not even one that the other thread has kept meanwhile.
Keep(t) ==
  /\ at[t] = "parse" /\ keys[t] = << >>
  /\ \/ /\ join_cfg' = mode[t]
        /\ at' = [at EXCEPT ![t] = "radio"]
        /\ UNCHANGED rc
     \/ /\ join_cfg' = NULL
        /\ Return(t, "no_memory")
  /\ mode' = [mode EXCEPT ![t] = NULL]
  /\ crossed' = (crossed \/ \E other \in Caller \ {t} : at[other] = "parse")
  /\ UNCHANGED <<settingsVars, keys, joining, cred, starts>>

\* lorawan_start, the options, and the retries read for the loop.
StartRadio(t) ==
  /\ at[t] = "radio"
  /\ \/ /\ Return(t, "not_started")
        /\ UNCHANGED <<try, try_max>>
     \/ /\ at' = [at EXCEPT ![t] = "join"]
        /\ try' = [try EXCEPT ![t] = 0]
        /\ \E n \in Retries : try_max' = [try_max EXCEPT ![t] = n]
        /\ UNCHANGED rc
  /\ UNCHANGED <<settingsVars, parsing, join_cfg, cred, radio, starts, crossed>>

\* Broken variant of JoinRequest: the attempt is not counted.
JoinUncounted(t) ==
  /\ at[t] = "join" /\ radio = NULL
  /\ radio' = t
  /\ at'    = [at EXCEPT ![t] = "joining"]
  /\ UNCHANGED <<settingsVars, parsing, try, try_max, join_cfg, cred, rc, starts, crossed>>

\* lorawan_join: one request at a time is on the air.
JoinRequest(t) ==
  /\ at[t] = "join" /\ radio = NULL
  /\ radio' = t
  /\ at'    = [at EXCEPT ![t] = "joining"]
  /\ try'   = [try EXCEPT ![t] = @ + 1]
  /\ UNCHANGED <<settingsVars, parsing, try_max, join_cfg, cred, rc, starts, crossed>>

JoinAnswer(t, ok) ==
  /\ at[t] = "joining"
  /\ radio' = NULL
  /\ IF ok THEN Return(t, "joined")
     ELSE at' = [at EXCEPT ![t] = "sleep"] /\ UNCHANGED rc
  /\ UNCHANGED <<settingsVars, parsing, try, try_max, join_cfg, cred, starts, crossed>>

\* The loop tests after its body.
More(t) == try[t] < try_max[t]

\* After five seconds.
Wake(t) ==
  /\ at[t] = "sleep"
  /\ IF More(t) THEN at' = [at EXCEPT ![t] = "join"] /\ UNCHANGED rc
     ELSE Return(t, "unreachable")
  /\ UNCHANGED <<settingsVars, parsing, joining, join_cfg, cred, starts, crossed>>

-----------------------------------------------------------------------------
\* A thread is in one call at a time.
MainFree == Outside("main")
ShellFree == at["shell"] = "returned"

LorawanRestart ==
  /\ Restart
  /\ at' = [main |-> "boot", shell |-> "returned"]
  /\ mode' = [t \in Caller |-> NULL] /\ keys' = [t \in Caller |-> << >>]
  /\ try' = [t \in Caller |-> 0] /\ try_max' = try'
  /\ join_cfg' = NULL /\ cred' = [k \in Key |-> NULL]
  /\ radio' = NULL
  /\ rc' = [t \in Caller |-> "none"]
  /\ crossed' = FALSE
  /\ UNCHANGED starts

SettingsStep ==
  /\ \/ MainFree /\ BootLoad
     \/ LoadEnd
     \/ \E s \in Setting : settings_handle_set(s)
     \/ \E s \in Setting, v \in Content : VarSet(s, v)
     \/ /\ ShellFree
        /\ \/ ShellLoad \/ settings_handle_export
           \/ \E s \in Setting, v \in Content : SetRam(s, v)
           \/ \E s \in Setting, ok \in BOOLEAN : SaveOne(s, ok)
  /\ UNCHANGED lorawanVars

LorawanStep(t) ==
  \/ Disabled(t) \/ UseConfig(t) \/ Choose(t) \/ ParseKey(t) \/ Keep(t) \/ StartRadio(t)
  \/ JoinRequest(t) \/ Wake(t)
  \/ \E ok \in BOOLEAN : JoinAnswer(t, ok)

\* The shell waits while the main thread parses, whose priority is higher; but the
\* main thread comes in between when the shell does.
LorawanNext ==
  \/ BootStart
  \/ LorawanStep("main")
  \/ at["main"] # "parse" /\ (ShellStart \/ LorawanStep("shell") \/ SettingsStep)
  \/ LorawanRestart

LorawanSpec == LorawanInit /\ [][LorawanNext]_nodeVars

\* The main thread boots, loads go on, the radio answers, sleeps end.  The lock is
\* given to the main thread when it waits for it (SF): its priority is higher.
LorawanFairSpec ==
  /\ LorawanSpec
  /\ WF_nodeVars(BootStart) /\ SF_nodeVars(MainFree /\ BootLoad /\ UNCHANGED lorawanVars)
  /\ WF_nodeVars(LoadEnd /\ UNCHANGED lorawanVars)
  /\ WF_nodeVars(\E s \in Setting : settings_handle_set(s) /\ UNCHANGED lorawanVars)
  /\ \A t \in Caller : WF_nodeVars(LorawanStep(t))

-----------------------------------------------------------------------------
(* Properties.                                                             *)

\* A join request goes out with a complete configuration: every credential of its
\* mode is there, of the right length, also when two starts share the buffers.  (What
\* can be missing is the whole of it, when a start that was overtaken in its parsing
\* finds no memory: ztacx_lorawan.c:185 and 209.)
JoinsComplete ==
  radio # NULL => /\ join_cfg # NULL \/ crossed
                  /\ join_cfg # NULL => \A k \in Needed(join_cfg) : Parses(cred, k)

\* The radio keeps pointers into the buffers: once there is a configuration, none
\* of its bytes changes until the restart, whatever is set and started meanwhile,
\* unless it was kept in the middle of the other thread's parsing.
ConfigStays ==
  [][join_cfg # NULL /\ restarts' = restarts /\ ~crossed => UNCHANGED <<join_cfg, cred>>]_nodeVars

\* A start gives up on the settings, in the mode that they ask for.
TurnedDown(t) ==
  /\ at[t] = "start" \/ (at[t] = "parse" /\ mode[t] = Wanted(ram))
  /\ at'[t] = "returned" /\ rc'[t] = "invalid"

\* Credentials set with success before the restart are used after it: when the
\* settings are loaded before the leaf is started, and nothing has been written since,
\* a start is turned down only if what the flash holds is incomplete.
SavedConfigIsUsed ==
  [][\A t \in Caller :
       TurnedDown(t) /\ Loaded /\ touched = {}
         => ~Complete([s \in Setting |-> IF Fits(s) THEN flash[s] ELSE Default[s]])]_nodeVars

\* The boot gets past the settings and the leaf, however often the join fails.
BootGoesOn == <>[](Loaded /\ at["main"] = "returned")

=============================================================================
