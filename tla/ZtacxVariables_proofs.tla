------------------------ MODULE ZtacxVariables_proofs -----------------------
(***************************************************************************)
(* Proofs about the variables, and about those of them that are settings.  *)
(*                                                                         *)
(* ZtacxVariables: type correctness, no lost change, and that every step   *)
(* is a step of ChangeNotification.                                        *)
(*                                                                         *)
(* ZtacxSettings: type correctness, sets survive, settings come back after *)
(* a restart.  ZtacxLorawan: that it implements the settings, so that      *)
(* their theorems hold for it; then on top of them, that joins go out with *)
(* a complete configuration, which stays, and which is the saved one.      *)
(***************************************************************************)
EXTENDS ZtacxVariables, ZtacxLorawan, Common_proofs

\* Calls in progress carry the fields their stage says, so that looking at a
\* stage gives the shape of the call.
LEMMA CallShape ==
  ASSUME NEW k \in Call
  PROVE  /\ k.at \in {"idle", "submit", "store"}
         /\ k.at = "submit" => k.var \in Var /\ k = Stored(k.var)
         /\ k.at = "store"  => k.var \in Counter /\ k.val \in Nat
         /\ Idle.at = "idle" /\ Idle \in Call
         /\ \A v \in Var : Stored(v) \in Call /\ Stored(v).at = "submit" /\ Stored(v).var = v
         /\ \A v \in Counter, x \in Nat :
               /\ Adding(v, x) \in Call /\ Adding(v, x).at = "store"
               /\ Adding(v, x).var = v /\ Adding(v, x).val = x
BY VariablesAssumption DEF Call, Idle, Stored, Adding

\* Every variable of the model keeps its type; a work item that is queued or
\* run is one of the program's, never the NULL pointer.
THEOREM TypeCorrect == Spec => []TypeOK
<1>1. Init => TypeOK
  BY VariablesAssumption DEF Init, TypeOK, Call
<1>2. TypeOK /\ [Next]_vars => TypeOK'
  <2> SUFFICES ASSUME TypeOK, [Next]_vars
               PROVE  TypeOK'
    OBVIOUS
  <2> USE DEF TypeOK
  <2>1. ASSUME NEW c \in Context, NEW v \in Var \ Counter, NEW x \in Value, ValueSet(c, v, x)
        PROVE  TypeOK'
    <3>1. x \in Nat /\ Stored(v) \in Call /\ writes' \in 0..MaxWrites
      BY <2>1, VariablesAssumption DEF Call, Stored, ValueSet, CanCall
    <3>2. QED
      BY <2>1, <3>1 DEF ValueSet
  <2>2. ASSUME NEW c \in Context, NEW v \in Counter, IncRead(c, v)
        PROVE  TypeOK'
    <3>1. v \in Var /\ Adding(v, value[v] + 1) \in Call /\ writes' \in 0..MaxWrites
      BY <2>2, VariablesAssumption DEF Call, Adding, IncRead, CanCall
    <3>2. QED
      BY <2>2, <3>1 DEF IncRead
  <2>3. ASSUME NEW c \in Context, IncStore(c)
        PROVE  TypeOK'
    <3>1. call[c].var \in Var /\ call[c].val \in Nat /\ Stored(call[c].var) \in Call
      BY <2>3, CallShape, VariablesAssumption DEF IncStore
    <3>2. QED
      BY <2>3, <3>1 DEF IncStore
  <2>4. ASSUME NEW c \in Context, SubmitOnChange(c)
        PROVE  TypeOK'
    <3>1. call[c].var \in Var /\ Idle \in Call
      BY <2>4, CallShape DEF SubmitOnChange
    <3>2. queue' \in Seq(Work)
      BY <2>4, <3>1, SubmitQueued DEF SubmitOnChange, Trigger, Work
    <3>3. QED
      BY <2>4, <3>1, <3>2 DEF SubmitOnChange
  <2>5. ASSUME NEW v \in Var, NEW w \in Observer, SetOnchange(v, w)
        PROVE  TypeOK'
    BY <2>5 DEF SetOnchange
  <2>6. ASSUME NEW w \in Sampler, TimerFires(w)
        PROVE  TypeOK'
    BY <2>6, SubmitQueued DEF TimerFires, Work
  <2>7. CASE WorkStart
    <3>1. Head(queue) \in Work /\ Tail(queue) \in Seq(Work)
      BY <2>7, TailQueued DEF WorkStart
    <3>2. Head(queue) # NoWork
      BY <3>1, VariablesAssumption
    <3>3. QED
      BY <2>7, <3>1, <3>2 DEF WorkStart
  <2>8. ASSUME NEW v \in Var, HandlerRead(v)
        PROVE  TypeOK'
    BY <2>8 DEF HandlerRead
  <2>9. CASE HandlerDone
    BY <2>9 DEF HandlerDone
  <2>10. CASE UNCHANGED vars
    BY <2>10 DEF vars
  <2>11. QED
    BY <2>1, <2>2, <2>3, <2>4, <2>5, <2>6, <2>7, <2>8, <2>9, <2>10
       DEF Next, SetStep, FinishCall
<1>3. QED
  BY <1>1, <1>2, PTL DEF Spec

-----------------------------------------------------------------------------
\* While NotificationOwed(v) holds, a step that is neither the observer's read of
\* v nor the hooking of v leaves a notification of v owed.
LEMMA OwedKept ==
  ASSUME TypeOK, [Next]_vars, NEW v \in Var,
         on_change[v] # NoWork, NotificationOwed(v),
         ~HandlerRead(v)
  PROVE  NotificationOwed(v)'
<1> USE DEF TypeOK, NotificationOwed
<1>0. on_change[v] \in Work /\ on_change'[v] = on_change[v]
  BY DEF Next, SetStep, FinishCall, ValueSet, IncRead, IncStore, SubmitOnChange,
         SetOnchange, TimerFires, WorkStart, HandlerRead, HandlerDone, vars, Work
<1>1. ASSUME NEW c \in Context, NEW u \in Var, NEW x \in Value, ValueSet(c, u, x)
      PROVE  NotificationOwed(v)'
  BY <1>0, <1>1 DEF ValueSet, CanCall, Idle, Stored
<1>2. ASSUME NEW c \in Context, NEW u \in Counter, IncRead(c, u)
      PROVE  NotificationOwed(v)'
  BY <1>0, <1>2 DEF IncRead, CanCall, Idle, Stored
<1>3. ASSUME NEW c \in Context, IncStore(c)
      PROVE  NotificationOwed(v)'
  BY <1>0, <1>3 DEF IncStore, Stored
<1>4. ASSUME NEW c \in Context, SubmitOnChange(c)
      PROVE  NotificationOwed(v)'
  <2>1. CASE call[c] = Stored(v)
    <3>1. queue' = Submit(queue, on_change[v])
      BY <2>1, <1>0, <1>4 DEF SubmitOnChange, Trigger, Stored
    <3>2. QED
      BY <3>1, <1>0, SubmitQueued
  <2>2. CASE call[c] # Stored(v)
    <3>1. \A y : Queued(queue, y) => Queued(queue', y)
      <4>1. call[c].var \in Var
        BY <1>4, CallShape DEF SubmitOnChange
      <4>2. CASE on_change[call[c].var] = NoWork
        BY <4>2, <1>4 DEF SubmitOnChange, Trigger
      <4>3. CASE on_change[call[c].var] # NoWork
        <5>1. on_change[call[c].var] \in Work
          BY <4>1, <4>3 DEF Work
        <5>2. queue' = Submit(queue, on_change[call[c].var])
          BY <4>3, <1>4 DEF SubmitOnChange, Trigger
        <5>3. QED
          BY <5>1, <5>2, SubmitQueued
      <4>4. QED
        BY <4>2, <4>3
    <3>2. QED
      BY <3>1, <2>2, <1>0, <1>4 DEF SubmitOnChange
  <2>3. QED
    BY <2>1, <2>2
<1>5. ASSUME NEW u \in Var, NEW w \in Observer, SetOnchange(u, w)
      PROVE  NotificationOwed(v)'
  BY <1>0, <1>5 DEF SetOnchange
<1>6. ASSUME NEW w \in Sampler, TimerFires(w)
      PROVE  NotificationOwed(v)'
  <2>1. w \in Work
    BY DEF Work
  <2>2. \A y : Queued(queue, y) => Queued(queue', y)
    BY <2>1, <1>6, SubmitQueued DEF TimerFires
  <2>3. QED
    BY <1>0, <1>6, <2>2 DEF TimerFires
<1>7. CASE WorkStart
  <2>1. CASE on_change[v] = Head(queue)
    BY <2>1, <1>0, <1>7 DEF WorkStart
  <2>2. CASE on_change[v] # Head(queue)
    BY <2>2, <1>0, <1>7, TailQueued DEF WorkStart
  <2>3. QED
    BY <2>1, <2>2
<1>8. ASSUME NEW u \in Var, HandlerRead(u)
      PROVE  NotificationOwed(v)'
  BY <1>0, <1>8 DEF HandlerRead
<1>9. CASE HandlerDone
  BY <1>0, <1>9 DEF HandlerDone
<1>10. CASE UNCHANGED vars
  BY <1>10 DEF vars
<1>11. QED
  BY <1>1, <1>2, <1>3, <1>4, <1>5, <1>6, <1>7, <1>8, <1>9, <1>10
     DEF Next, SetStep, FinishCall

\* A step that changes v leaves its setter about to submit the hook.
LEMMA ChangeOwes ==
  ASSUME TypeOK, [Next]_vars, NEW v \in Var, value'[v] # value[v]
  PROVE  \E c \in Context : call'[c] = Stored(v)
BY DEF TypeOK, Next, SetStep, FinishCall, ValueSet, IncRead, IncStore, SubmitOnChange,
       SetOnchange, TimerFires, WorkStart, HandlerRead, HandlerDone, vars

\* No change of a hooked variable is ever lost, whatever the variables, the
\* threads and the work items are: ztacx_variable_value_set stores before it
\* submits, and the work queue takes an item off the queue before it runs it.
THEOREM NoChangeIsLost == Spec => []NoLostChange
<1>1. Init => NoLostChange
  BY DEF Init, NoLostChange
<1>2. TypeOK /\ NoLostChange /\ [Next]_vars => NoLostChange'
  <2> SUFFICES ASSUME TypeOK, NoLostChange, [Next]_vars,
                      NEW v \in Var, on_change'[v] # NoWork, seen'[v] # value'[v]
               PROVE  NotificationOwed(v)'
    BY DEF NoLostChange
  <2>1. CASE value'[v] # value[v]
    BY <2>1, ChangeOwes DEF NotificationOwed
  <2>2. CASE value'[v] = value[v]
    <3>1. on_change[v] # NoWork /\ seen[v] # value[v] /\ ~HandlerRead(v)
      BY <2>2 DEF TypeOK, Next, SetStep, FinishCall, ValueSet, IncRead, IncStore,
                  SubmitOnChange, SetOnchange, TimerFires, WorkStart, HandlerRead,
                  HandlerDone, vars
    <3>2. QED
      BY <3>1, OwedKept DEF NoLostChange
  <2>3. QED
    BY <2>1, <2>2
<1>3. QED
  BY <1>1, <1>2, TypeCorrect, PTL DEF Spec

-----------------------------------------------------------------------------
\* ztacx variables implement ChangeNotification: an observer's read delivers the
\* current value, a setter's store is a write, and every other step (the
\* submission, the timers, the work queue's own steps) is invisible.
THEOREM ImplementsPromise == Spec => Promise!Init /\ [][Promise!Next]_(Promise!avars)
<1> USE DEF Promise!avars
<1>1. Init => Promise!Init
  BY DEF Init, Promise!Init
<1>2. TypeOK /\ [Next]_vars => [Promise!Next]_(Promise!avars)
  <2> SUFFICES ASSUME TypeOK, [Next]_vars
               PROVE  [Promise!Next]_(Promise!avars)
    OBVIOUS
  <2> USE DEF TypeOK, Promise!Next
  <2>1. ASSUME NEW c \in Context, NEW v \in Var \ Counter, NEW x \in Value, ValueSet(c, v, x)
        PROVE  Promise!Write(v)
    BY <2>1, VariablesAssumption DEF ValueSet, Promise!Write
  <2>2. ASSUME NEW c \in Context, IncStore(c)
        PROVE  call[c].var \in Var /\ Promise!Write(call[c].var)
    <3>1. call[c].var \in Var /\ call[c].val \in Nat
      BY <2>2, CallShape, VariablesAssumption DEF IncStore
    <3>2. QED
      BY <2>2, <3>1 DEF IncStore, Promise!Write
  <2>3. ASSUME NEW v \in Var, NEW w \in Observer, SetOnchange(v, w)
        PROVE  Promise!Hook(v)
    <3>1. w # NoWork
      BY VariablesAssumption DEF Work
    <3>2. {u \in Var : on_change'[u] # NoWork} = {u \in Var : on_change[u] # NoWork} \cup {v}
      BY <2>3, <3>1 DEF SetOnchange
    <3>3. QED
      BY <2>3, <3>2 DEF SetOnchange, Promise!Hook
  <2>4. ASSUME NEW v \in Var, HandlerRead(v)
        PROVE  Promise!Deliver(v)
    BY <2>4 DEF HandlerRead, Promise!Deliver
  <2>5. CASE UNCHANGED <<value, on_change, seen>>
    BY <2>5
  <2>6. QED
    BY <2>1, <2>2, <2>3, <2>4, <2>5
       DEF Next, SetStep, FinishCall, IncRead, SubmitOnChange, TimerFires,
           WorkStart, HandlerDone, vars
<1>3. QED
  BY <1>1, <1>2, TypeCorrect, PTL DEF Spec

-----------------------------------------------------------------------------
(* The settings.                                                           *)

\* Every variable of the settings' model keeps its type.
THEOREM SettingsTypes == SettingsSpec => []SettingsTypeOK
<1>1. SettingsInit => SettingsTypeOK
  <2> SUFFICES ASSUME SettingsInit
               PROVE  SettingsTypeOK
    OBVIOUS
  <2>1. ram \in [Setting -> Held] /\ flash \in [Setting -> Held]
    BY SettingsAssumption DEF SettingsInit, Fresh, Held
  <2>2. sets \in 0..MaxSets /\ restarts \in 0..MaxRestarts
    BY SettingsAssumption DEF SettingsInit
  <2>3. QED
    BY <2>1, <2>2 DEF SettingsInit, Fresh, SettingsTypeOK
<1>2. SettingsTypeOK /\ [SettingsNext]_settingsVars => SettingsTypeOK'
  <2> SUFFICES ASSUME SettingsTypeOK, [SettingsNext]_settingsVars
               PROVE  SettingsTypeOK'
    OBVIOUS
  <2>0. /\ Default \in [Setting -> Held]
        /\ MaxSets \in Nat /\ MaxRestarts \in Nat
    BY SettingsAssumption DEF Held
  <2> USE DEF SettingsTypeOK, Held
  <2>1. CASE BootLoad \/ ShellLoad
    BY <2>1 DEF BootLoad, ShellLoad, LoadBegin, Caller
  <2>2. CASE LoadEnd
    BY <2>2 DEF LoadEnd
  <2>3. CASE settings_handle_export
    BY <2>3 DEF settings_handle_export, settingsVars
  <2>4. ASSUME NEW s \in Setting, settings_handle_set(s)
        PROVE  SettingsTypeOK'
    <3>1. ram' \in [Setting -> Held]
      BY <2>4 DEF settings_handle_set
    <3>2. /\ freed' \in BOOLEAN /\ todo' \subseteq Setting
          /\ unsaved' \subseteq Setting /\ touched' \subseteq Setting
      BY <2>4 DEF settings_handle_set
    <3>3. QED
      BY <2>4, <3>1, <3>2 DEF settings_handle_set
  <2>5. ASSUME NEW s \in Setting, NEW v \in Content, SetRam(s, v)
        PROVE  SettingsTypeOK'
    <3>1. sets' \in 0..MaxSets
      BY <2>0, <2>5 DEF SetRam
    <3>2. QED
      BY <2>5, <3>1 DEF SetRam
  <2>6. ASSUME NEW s \in Setting, NEW v \in Content, VarSet(s, v)
        PROVE  SettingsTypeOK'
    <3>1. sets' \in 0..MaxSets
      BY <2>0, <2>6 DEF VarSet
    <3>2. QED
      BY <2>6, <3>1 DEF VarSet
  <2>7. ASSUME NEW s \in Setting, NEW ok \in BOOLEAN, SaveOne(s, ok)
        PROVE  SettingsTypeOK'
    <3>1. \A v \in Held : Entry(v) \in Held
      BY DEF Entry
    <3>2. flash' \in [Setting -> Held] /\ unsaved' \subseteq Setting
      BY <2>7, <3>1 DEF SaveOne, Saved
    <3>3. QED
      BY <2>7, <3>2 DEF SaveOne
  <2>8. CASE Restart
    <3>1. restarts' \in 0..MaxRestarts
      BY <2>0, <2>8 DEF Restart
    <3>2. QED
      BY <2>0, <2>8, <3>1 DEF Restart
  <2>9. CASE UNCHANGED settingsVars
    BY <2>9 DEF settingsVars
  <2>10. QED
    BY <2>1, <2>2, <2>3, <2>4, <2>5, <2>6, <2>7, <2>8, <2>9 DEF SettingsNext
<1>3. QED
  BY <1>1, <1>2, PTL DEF SettingsSpec

\* What a save leaves in flash is what it would leave if it were read back and saved.
LEMMA EntryOfEntry ==
  ASSUME NEW v
  PROVE  Entry(Entry(v)) = Entry(v)
BY DEF Entry

\* Why memory and flash stay in step: a setting that nothing has changed in memory
\* agrees with its entry, or is as it was linked and has no use for its entry, or is
\* as it was linked and still waits for the boot's load.
InStep(s) ==
  \/ Entry(ram[s]) = Entry(flash[s])
  \/ ~Fits(s) /\ ram[s] = Default[s]
  \/ /\ ram[s] = Default[s]
     /\ booted => loader = "main" /\ s \in todo

\* Memory and flash do not drift apart, through failing saves and allocations, loads,
\* sets without a save and restarts (ztacx_setting_set, settings_save_one,
\* settings_handle_set).
THEOREM MemoryStaysFlash == SettingsSpec => []MemoryIsFlash
<1> DEFINE Inv == \A s \in Setting \ unsaved : InStep(s)
<1>1. SettingsInit => Inv
  BY DEF SettingsInit, Fresh, InStep
<1>2. SettingsTypeOK /\ Inv /\ [SettingsNext]_settingsVars => Inv'
  <2> SUFFICES ASSUME SettingsTypeOK, Inv, [SettingsNext]_settingsVars,
                      NEW r \in Setting, r \notin unsaved'
               PROVE  InStep(r)'
    OBVIOUS
  <2> USE SettingsAssumption DEF SettingsTypeOK
  \* A step that leaves the memory and the entry of r alone.
  <2>0. ASSUME ram'[r] = ram[r], flash'[r] = flash[r], r \notin unsaved,
               ram[r] = Default[r] /\ (booted => loader = "main" /\ r \in todo)
                 => ~Fits(r) \/ (booted' => loader' = "main" /\ r \in todo')
        PROVE  InStep(r)'
    <3>1. InStep(r)
      BY <2>0
    <3>2. Entry(ram[r])' = Entry(ram[r]) /\ Entry(flash[r])' = Entry(flash[r]) /\ Fits(r)' = Fits(r)
      BY <2>0 DEF Entry, Fits
    <3>3. QED
      BY <2>0, <3>1, <3>2 DEF InStep
  <2>1. CASE BootLoad
    BY <2>0, <2>1 DEF BootLoad, LoadBegin, Fits
  <2>2. CASE ShellLoad
    <3>1. "main" # NULL
      BY DEF Caller
    <3>2. QED
      BY <2>0, <2>2, <3>1 DEF ShellLoad, LoadBegin
  <2>3. CASE LoadEnd
    BY <2>0, <2>3 DEF LoadEnd
  <2>4. CASE settings_handle_export
    BY <2>0, <2>4 DEF settings_handle_export, settingsVars
  <2>5. ASSUME NEW s \in Setting, settings_handle_set(s)
        PROVE  InStep(r)'
    <3>1. CASE s # r
      BY <2>0, <2>5, <3>1 DEF settings_handle_set
    <3>2. CASE s = r /\ ~Accepts(r, flash[r])
      BY <2>0, <2>5, <3>2 DEF settings_handle_set, Accepts, Fits
    <3>3. CASE s = r /\ Accepts(r, flash[r])
      <4>1. ram'[r] = flash[r] /\ flash' = flash
        BY <2>5, <3>3 DEF settings_handle_set
      <4>2. QED
        BY <4>1 DEF InStep, Entry
    <3>4. QED
      BY <3>1, <3>2, <3>3
  <2>6. ASSUME NEW s \in Setting, NEW v \in Content, SetRam(s, v) \/ VarSet(s, v)
        PROVE  InStep(r)'
    BY <2>0, <2>6 DEF SetRam, VarSet
  <2>7. ASSUME NEW s \in Setting, NEW ok \in BOOLEAN, SaveOne(s, ok)
        PROVE  InStep(r)'
    <3>1. CASE ok /\ s = r
      <4>1. Sound(r)
        BY <2>7, <3>1 DEF SaveOne, Saved
      <4>2. flash'[r] = Entry(ram[r]) /\ ram' = ram
        BY <2>7, <3>1, <4>1 DEF SaveOne, Saved
      <4>3. Entry(flash'[r]) = Entry(ram[r])
        BY <4>2, EntryOfEntry
      <4>4. QED
        BY <4>2, <4>3 DEF InStep, Entry
    <3>2. CASE ok /\ s # r
      BY <2>0, <2>7, <3>2 DEF SaveOne, Saved
    <3>3. CASE ~ok
      BY <2>0, <2>7, <3>3 DEF SaveOne
    <3>4. QED
      BY <3>1, <3>2, <3>3
  <2>8. CASE Restart
    BY <2>8 DEF Restart, InStep
  <2>9. CASE UNCHANGED settingsVars
    BY <2>0, <2>9 DEF settingsVars
  <2>10. QED
    BY <2>1, <2>2, <2>3, <2>4, <2>5, <2>6, <2>7, <2>8, <2>9 DEF SettingsNext
<1>3. SettingsTypeOK /\ Inv => MemoryIsFlash
  BY DEF MemoryIsFlash, InStep, Loaded, SettingsTypeOK
<1>4. QED
  BY <1>1, <1>2, <1>3, SettingsTypes, PTL DEF SettingsSpec

\* What a setting should have after a start.
Right(s) == IF Fits(s) THEN flash[s] ELSE Default[s]

\* Why the boot's load brings the settings back: one that nobody has written has its
\* right value already, or is as it was linked and waits for the load.
LoadHolds ==
  /\ saving # NULL => saving \in touched
  /\ \A s \in Setting \ touched :
       \/ ram[s] = Right(s)
       \/ /\ ram[s] = Default[s]
          /\ booted => loader = "main" /\ s \in todo

\* Settings come through a restart (ztacx_settings_start, settings_handle_set).
THEOREM SettingsComeBack == SettingsSpec => []AcrossRestart
<1>1. SettingsInit => LoadHolds
  BY DEF SettingsInit, Fresh, LoadHolds
<1>2. SettingsTypeOK /\ LoadHolds /\ [SettingsNext]_settingsVars => LoadHolds'
  <2> SUFFICES ASSUME SettingsTypeOK, LoadHolds, [SettingsNext]_settingsVars
               PROVE  LoadHolds'
    OBVIOUS
  <2> USE SettingsAssumption DEF SettingsTypeOK, LoadHolds, Right, Fits
  <2>1. CASE BootLoad
    <3>1. ASSUME NEW s \in Setting \ touched
          PROVE  ram[s] = Right(s) \/ (ram[s] = Default[s] /\ s \in todo')
      <4>1. CASE Fits(s)
        BY <2>1, <4>1 DEF BootLoad, LoadBegin
      <4>2. CASE ~Fits(s)
        BY <2>1, <4>2
      <4>3. QED
        BY <4>1, <4>2
    <3>2. loader' = "main" /\ UNCHANGED <<ram, flash, saving, touched>>
      BY <2>1 DEF BootLoad, LoadBegin
    <3>3. QED
      BY <3>1, <3>2
  <2>1a. CASE ShellLoad
    <3>1. "main" # NULL /\ loader = NULL /\ UNCHANGED <<ram, flash, saving, touched, booted>>
      BY <2>1a DEF ShellLoad, LoadBegin, Caller
    <3>2. QED
      BY <3>1
  <2>2. CASE LoadEnd
    BY <2>2 DEF LoadEnd
  <2>3. CASE settings_handle_export
    BY <2>3 DEF settings_handle_export, settingsVars
  <2>4. ASSUME NEW s \in Setting, settings_handle_set(s)
        PROVE  LoadHolds'
    BY <2>4 DEF settings_handle_set, Accepts
  <2>5. ASSUME NEW s \in Setting, NEW v \in Content, SetRam(s, v)
        PROVE  LoadHolds'
    BY <2>5 DEF SetRam
  <2>6. ASSUME NEW s \in Setting, NEW v \in Content, VarSet(s, v)
        PROVE  LoadHolds'
    BY <2>6 DEF VarSet
  <2>7. ASSUME NEW s \in Setting, NEW ok \in BOOLEAN, SaveOne(s, ok)
        PROVE  LoadHolds'
    BY <2>7 DEF SaveOne, Saved
  <2>8. CASE Restart
    BY <2>8 DEF Restart
  <2>9. CASE UNCHANGED settingsVars
    BY <2>9 DEF settingsVars
  <2>10. QED
    BY <2>1, <2>1a, <2>2, <2>3, <2>4, <2>5, <2>6, <2>7, <2>8, <2>9 DEF SettingsNext
<1>3. LoadHolds => AcrossRestart
  BY DEF LoadHolds, AcrossRestart, Right, Loaded
<1>4. QED
  BY <1>1, <1>2, <1>3, SettingsTypes, PTL DEF SettingsSpec

-----------------------------------------------------------------------------
(* LoRaWAN on top of the settings.                                         *)

\* The leaf is a reader of the settings: every step of the two together is a step of
\* the settings or leaves them alone, so that what is proved of them holds here too.
THEOREM ReadsSettingsOnly == LorawanSpec => SettingsSpec
<1>1. LorawanInit => SettingsInit
  BY DEF LorawanInit
<1>2. [LorawanNext]_nodeVars => [SettingsNext]_settingsVars
  <2> SUFFICES ASSUME [LorawanNext]_nodeVars
               PROVE  [SettingsNext]_settingsVars
    OBVIOUS
  <2>1. CASE BootStart
    BY <2>1 DEF BootStart
  <2>2. ASSUME NEW t \in Caller, LorawanStep(t)
        PROVE  UNCHANGED settingsVars
    BY <2>2 DEF LorawanStep, Disabled, UseConfig, Choose, ChooseAgain, ParseKey, Keep, StartRadio,
                JoinRequest, Wake, JoinAnswer
  <2>3. CASE ShellStart
    BY <2>3 DEF ShellStart
  <2>4. CASE SettingsStep
    BY <2>4 DEF SettingsStep, SettingsNext
  <2>5. CASE LorawanRestart
    BY <2>5 DEF LorawanRestart, SettingsNext
  <2>6. CASE UNCHANGED nodeVars
    BY <2>6 DEF nodeVars
  <2>7. QED
    BY <2>1, <2>2, <2>3, <2>4, <2>5, <2>6 DEF LorawanNext, Caller
<1>3. QED
  BY <1>1, <1>2, PTL DEF LorawanSpec, SettingsSpec

\* In particular memory stays flash and settings come back under the leaf.
COROLLARY SettingsHoldHere == LorawanSpec => []MemoryIsFlash /\ []AcrossRestart
BY ReadsSettingsOnly, MemoryStaysFlash, SettingsComeBack, PTL

\* The lists of credentials are lists of settings that hold credentials.
LEMMA NeededAreKeys ==
  /\ Needs \in [Mode -> Seq(Key)]
  /\ \A m \in Mode : Needs[m] # << >> /\ Needed(m) \subseteq Key
<1>1. {Needs["abp"][i] : i \in DOMAIN Needs["abp"]} \subseteq Key
  BY LorawanAssumption DEF Needed
<1>2. {Needs["otaa"][i] : i \in DOMAIN Needs["otaa"]} \subseteq Key
  BY LorawanAssumption DEF Needed
<1>3. Needs["abp"] = <<"dev_eui", "dev_addr", "app_skey", "nwk_skey">>
  BY DEF Needs
<1>4. Needs["otaa"] = <<"dev_eui", "app_key", "join_eui">>
  BY DEF Needs
<1>5. Needs["abp"] \in Seq(Key)
  BY <1>1, <1>3
<1>6. Needs["otaa"] \in Seq(Key)
  BY <1>2, <1>4
<1>7. Needs \in [Mode -> Seq(Key)]
  BY <1>5, <1>6 DEF Needs, Mode
<1>8. Needed("abp") \subseteq Key /\ Needed("otaa") \subseteq Key
  BY LorawanAssumption
<1>9. Needs["abp"] # << >> /\ Needs["otaa"] # << >>
  BY <1>3, <1>4
<1>10. QED
  BY <1>7, <1>8, <1>9 DEF Mode

\* Where the two threads are when the program has just started.
LEMMA FreshPlaces ==
  /\ [main |-> "boot", shell |-> "returned"] \in [Caller -> {"boot", "returned"}]
  /\ [t \in Caller |-> << >>] \in [Caller -> Seq(Key)]
BY DEF Caller

\* Every variable of the leaf keeps its type.
THEOREM LorawanTypes == LorawanSpec => []LorawanTypeOK
<1>1. LorawanInit => LorawanTypeOK
  <2> SUFFICES ASSUME LorawanInit
               PROVE  LorawanTypeOK
    OBVIOUS
  <2>1. starts \in 0..MaxStarts
    BY LorawanAssumption DEF LorawanInit
  <2>2. at \in [Caller -> {"boot", "returned"}] /\ keys \in [Caller -> Seq(Key)]
    BY FreshPlaces DEF LorawanInit, LorawanFresh
  <2>3. cred \in [Key -> Held]
    BY DEF LorawanInit, LorawanFresh, Held
  <2>4. QED
    BY <2>1, <2>2, <2>3 DEF LorawanInit, LorawanFresh, LorawanTypeOK
<1>2. LorawanTypeOK /\ SettingsTypeOK /\ [LorawanNext]_nodeVars => LorawanTypeOK'
  <2> SUFFICES ASSUME LorawanTypeOK, SettingsTypeOK, [LorawanNext]_nodeVars
               PROVE  LorawanTypeOK'
    OBVIOUS
  <2>0. MaxStarts \in Nat /\ Retries \subseteq Nat /\ Key \subseteq Setting
    BY LorawanAssumption, SettingsAssumption
  <2> USE DEF LorawanTypeOK, parsing, joining
  <2>1. CASE BootStart
    BY <2>1 DEF BootStart
  <2>2. CASE ShellStart
    <3>1. starts' \in 0..MaxStarts
      BY <2>0, <2>2 DEF ShellStart
    <3>2. QED
      BY <2>2, <3>1 DEF ShellStart
  <2>3. ASSUME NEW t \in Caller, Disabled(t)
        PROVE  LorawanTypeOK'
    BY <2>3 DEF Disabled, Return
  <2>4. ASSUME NEW t \in Caller, UseConfig(t)
        PROVE  LorawanTypeOK'
    BY <2>4 DEF UseConfig
  <2>5. ASSUME NEW t \in Caller, Choose(t)
        PROVE  LorawanTypeOK'
    <3>1. CASE Wanted(ram) = NULL
      BY <2>5, <3>1 DEF Choose, ChooseAgain, Return
    <3>2. CASE Wanted(ram) # NULL
      <4>1. Wanted(ram) \in Mode
        BY <3>2 DEF Wanted, Mode
      <4>2. Needs[Wanted(ram)] \in Seq(Key)
        BY <4>1, NeededAreKeys
      <4>3. QED
        BY <2>5, <3>2, <4>1, <4>2 DEF Choose, ChooseAgain
    <3>3. QED
      BY <3>1, <3>2
  <2>6. ASSUME NEW t \in Caller, ParseKey(t)
        PROVE  LorawanTypeOK'
    <3>1. Head(keys[t]) \in Key /\ Tail(keys[t]) \in Seq(Key)
      BY <2>6 DEF ParseKey
    <3>2. ram[Head(keys[t])] \in Held
      BY <2>0, <3>1 DEF SettingsTypeOK
    <3>3. CASE Parses(ram, Head(keys[t]))
      BY <2>6, <3>1, <3>2, <3>3 DEF ParseKey
    <3>4. CASE ~Parses(ram, Head(keys[t]))
      <4>1. << >> \in Seq(Key)
        OBVIOUS
      <4>2. QED
        BY <2>6, <3>4, <4>1 DEF ParseKey, Return
    <3>5. QED
      BY <3>3, <3>4
  <2>7. ASSUME NEW t \in Caller, Keep(t)
        PROVE  LorawanTypeOK'
    BY <2>7 DEF Keep, Return
  <2>8. ASSUME NEW t \in Caller, StartRadio(t)
        PROVE  LorawanTypeOK'
    <3>1. CASE UNCHANGED <<try, try_max>>
      BY <2>8, <3>1 DEF StartRadio, Return
    <3>2. CASE ~UNCHANGED <<try, try_max>>
      <4>1. PICK n \in Retries : try_max' = [try_max EXCEPT ![t] = n]
        BY <2>8, <3>2 DEF StartRadio
      <4>2. try_max' \in [Caller -> Retries \cup {0}]
        BY <4>1
      <4>3. try' = [try EXCEPT ![t] = 0] /\ at' = [at EXCEPT ![t] = "join"] /\ rc' = rc
        BY <2>8, <3>2 DEF StartRadio
      <4>4. UNCHANGED <<parsing, join_cfg, cred, radio, starts, crossed>>
        BY <2>8 DEF StartRadio
      <4>5. QED
        BY <4>2, <4>3, <4>4
    <3>3. QED
      BY <3>1, <3>2
  <2>9. ASSUME NEW t \in Caller, JoinRequest(t)
        PROVE  LorawanTypeOK'
    BY <2>9 DEF JoinRequest
  <2>10. ASSUME NEW t \in Caller, Wake(t)
         PROVE  LorawanTypeOK'
    BY <2>10 DEF Wake, Return
  <2>11. ASSUME NEW t \in Caller, NEW ok \in BOOLEAN, JoinAnswer(t, ok)
         PROVE  LorawanTypeOK'
    BY <2>11 DEF JoinAnswer, Return
  <2>12. CASE SettingsStep
    BY <2>12 DEF SettingsStep, lorawanVars
  <2>13. CASE LorawanRestart
    <3>1. at' \in [Caller -> {"boot", "returned"}] /\ keys' \in [Caller -> Seq(Key)]
      BY <2>13, FreshPlaces DEF LorawanRestart
    <3>2. cred' \in [Key -> Held]
      BY <2>13 DEF LorawanRestart, Held
    <3>3. QED
      BY <2>13, <3>1, <3>2 DEF LorawanRestart
  <2>14. CASE UNCHANGED nodeVars
    BY <2>14 DEF nodeVars, lorawanVars
  <2>15. QED
    BY <2>1, <2>2, <2>3, <2>4, <2>5, <2>6, <2>7, <2>8, <2>9, <2>10, <2>11, <2>12, <2>13, <2>14
    DEF LorawanNext, LorawanStep, Caller
<1>3. QED
  BY <1>1, <1>2, SettingsTypes, ReadsSettingsOnly, PTL DEF LorawanSpec

\* Why a configuration that is kept is complete: a buffer that is filled holds a
\* credential of the right length; of the mode that a thread parses, what is not
\* in its buffer yet is on its list; whoever uses the radio has a configuration, unless
\* the two have overtaken one another in the parsing.
FilledWell == \A k \in Key : cred[k] # NULL => Parses(cred, k)

ListCovers(t) ==
  at[t] = "parse" =>
    /\ mode[t] \in Mode
    /\ \A i \in DOMAIN keys[t] : keys[t][i] \in Needed(mode[t])
    /\ \A k \in Needed(mode[t]) : cred[k] # NULL \/ \E i \in DOMAIN keys[t] : keys[t][i] = k

ConfigFilled ==
  join_cfg # NULL => /\ join_cfg \in Mode
                     /\ \A k \in Needed(join_cfg) : cred[k] # NULL

RadioHasConfig ==
  (\/ radio # NULL
   \/ \E t \in Caller : at[t] \in {"radio", "join", "joining", "sleep"}) => join_cfg # NULL \/ crossed

\* A thread is at the parsing when there is a configuration only if that was kept
\* meanwhile.
NobodyParses == join_cfg # NULL /\ ~crossed => \A t \in Caller : at[t] # "parse"

Credentials ==
  /\ FilledWell
  /\ \A t \in Caller : ListCovers(t)
  /\ ConfigFilled
  /\ RadioHasConfig
  /\ NobodyParses

\* What a list has after its first element.
LEMMA TailOfKeys ==
  ASSUME NEW s \in Seq(Key), s # << >>
  PROVE  /\ \A i \in DOMAIN Tail(s) : i + 1 \in DOMAIN s /\ Tail(s)[i] = s[i + 1]
         /\ \A i \in DOMAIN s : s[i] = Head(s) \/ \E j \in DOMAIN Tail(s) : Tail(s)[j] = s[i]
<1>1. \A i \in DOMAIN Tail(s) : i + 1 \in DOMAIN s /\ Tail(s)[i] = s[i + 1]
  OBVIOUS
<1>2. ASSUME NEW i \in DOMAIN s, i # 1
      PROVE  i - 1 \in DOMAIN Tail(s) /\ Tail(s)[i - 1] = s[i]
  BY <1>2
<1>3. s[1] = Head(s)
  OBVIOUS
<1>4. QED
  BY <1>1, <1>2, <1>3

\* The list a thread begins with covers its mode.
LEMMA WholeList ==
  ASSUME NEW m \in Mode
  PROVE  /\ \A i \in DOMAIN Needs[m] : Needs[m][i] \in Needed(m)
         /\ \A k \in Needed(m) : \E i \in DOMAIN Needs[m] : Needs[m][i] = k
BY DEF Needed

\* Parsing one credential keeps the others.
LEMMA ParseKeyKeeps ==
  ASSUME SettingsTypeOK, LorawanTypeOK, Credentials, NEW t \in Caller, ParseKey(t)
  PROVE  Credentials'
<1> DEFINE h == Head(keys[t])
<1>0. h \in Key /\ keys[t] \in Seq(Key) /\ keys[t] # << >> /\ Key \subseteq Setting
  BY LorawanAssumption, SettingsAssumption DEF ParseKey, LorawanTypeOK
<1>1. CASE Parses(ram, h)
  <2>1. /\ cred' = [cred EXCEPT ![h] = ram[h]]
        /\ keys' = [keys EXCEPT ![t] = Tail(@)]
        /\ UNCHANGED <<at, mode, join_cfg, radio, crossed>>
    BY <1>1 DEF ParseKey, joining
  <2>2. cred'[h] # NULL /\ \A k \in Key : cred[k] # NULL => cred'[k] # NULL
    BY <1>0, <1>1, <2>1 DEF Parses, LorawanTypeOK
  <2>3. FilledWell'
    <3>1. ASSUME NEW k \in Key, cred'[k] # NULL
          PROVE  Parses(cred', k)
      <4>1. CASE k = h
        BY <1>0, <1>1, <2>1, <4>1 DEF Parses, LorawanTypeOK
      <4>2. CASE k # h
        BY <1>0, <2>1, <3>1, <4>2 DEF Parses, LorawanTypeOK, Credentials, FilledWell
      <4>3. QED
        BY <4>1, <4>2
    <3>2. QED
      BY <3>1 DEF FilledWell, Parses
  <2>4. ASSUME NEW u \in Caller
        PROVE  ListCovers(u)'
    <3> SUFFICES ASSUME at[u] = "parse"
                 PROVE  /\ mode[u] \in Mode
                        /\ \A i \in DOMAIN keys'[u] : keys'[u][i] \in Needed(mode[u])
                        /\ \A k \in Needed(mode[u]) :
                             cred'[k] # NULL \/ \E i \in DOMAIN keys'[u] : keys'[u][i] = k
      BY <2>1 DEF ListCovers, Needed
    <3>1. /\ mode[u] \in Mode
          /\ \A i \in DOMAIN keys[u] : keys[u][i] \in Needed(mode[u])
          /\ \A k \in Needed(mode[u]) : cred[k] # NULL \/ \E i \in DOMAIN keys[u] : keys[u][i] = k
      BY DEF Credentials, ListCovers
    <3>2. Needed(mode[u]) \subseteq Key
      BY <3>1, NeededAreKeys
    <3>3. CASE u = t
      <4>1. keys'[u] = Tail(keys[t])
        BY <2>1, <3>3 DEF LorawanTypeOK
      <4>2. /\ \A i \in DOMAIN Tail(keys[t]) : i + 1 \in DOMAIN keys[t] /\ Tail(keys[t])[i] = keys[t][i + 1]
            /\ \A i \in DOMAIN keys[t] :
                 keys[t][i] = h \/ \E j \in DOMAIN Tail(keys[t]) : Tail(keys[t])[j] = keys[t][i]
        BY <1>0, TailOfKeys
      <4>3. QED
        BY <2>2, <3>1, <3>2, <3>3, <4>1, <4>2
    <3>4. CASE u # t
      <4>1. keys'[u] = keys[u]
        BY <2>1, <3>4 DEF LorawanTypeOK
      <4>2. QED
        BY <2>2, <3>1, <3>2, <4>1
    <3>5. QED
      BY <3>3, <3>4
  <2>5. ConfigFilled'
    BY <2>1, <2>2, NeededAreKeys DEF ConfigFilled, Credentials, Needed
  <2>6. RadioHasConfig' /\ NobodyParses'
    BY <2>1 DEF RadioHasConfig, NobodyParses, Credentials
  <2>7. QED
    BY <2>3, <2>4, <2>5, <2>6 DEF Credentials
<1>2. CASE ~Parses(ram, h)
  <2>1. /\ at' = [at EXCEPT ![t] = "returned"]
        /\ keys' = [keys EXCEPT ![t] = << >>] /\ mode' = [mode EXCEPT ![t] = NULL]
        /\ UNCHANGED <<cred, join_cfg, radio, crossed>>
    BY <1>2 DEF ParseKey, joining, Return
  <2>2. ASSUME NEW u \in Caller
        PROVE  /\ at'[u] = at[u] /\ keys'[u] = keys[u] /\ mode'[u] = mode[u]
               \/ at'[u] = "returned"
    BY <2>1 DEF LorawanTypeOK
  <2>3. FilledWell' /\ ConfigFilled'
    BY <2>1 DEF Credentials, FilledWell, ConfigFilled, Parses, Needed
  <2>4. ASSUME NEW u \in Caller
        PROVE  ListCovers(u)'
    <3>1. CASE at'[u] = "returned"
      BY <3>1 DEF ListCovers
    <3>2. CASE at'[u] = at[u] /\ keys'[u] = keys[u] /\ mode'[u] = mode[u]
      <4>1. cred' = cred
        BY <2>1
      <4>2. ListCovers(u)
        BY DEF Credentials
      <4>3. QED
        BY <3>2, <4>1, <4>2 DEF ListCovers, Needed
    <3>3. QED
      BY <2>2, <3>1, <3>2
  <2>5. RadioHasConfig' /\ NobodyParses'
    BY <2>1, <2>2 DEF Credentials, RadioHasConfig, NobodyParses
  <2>6. QED
    BY <2>3, <2>4, <2>5 DEF Credentials
<1>3. QED
  BY <1>1, <1>2

\* When the list is empty every buffer of the mode is filled; a configuration is lost
\* only to a thread that has overtaken the other.
LEMMA KeepKeeps ==
  ASSUME LorawanTypeOK, Credentials, NEW t \in Caller, Keep(t)
  PROVE  Credentials'
<1>1. /\ at[t] = "parse" /\ keys[t] = << >>
      /\ join_cfg' \in {mode[t], NULL}
      /\ mode' = [mode EXCEPT ![t] = NULL]
      /\ crossed' = (crossed \/ \E other \in Caller \ {t} : at[other] = "parse")
      /\ UNCHANGED <<keys, cred, radio>>
  BY DEF Keep, joining
<1>2. mode[t] \in Mode /\ \A k \in Needed(mode[t]) : cred[k] # NULL
  BY <1>1 DEF Credentials, ListCovers
<1>3. ASSUME NEW u \in Caller, u # t
      PROVE  at'[u] = at[u] /\ mode'[u] = mode[u]
  BY <1>3 DEF LorawanTypeOK, Keep, Return
<1>4. \/ at'[t] = "radio" /\ join_cfg' = mode[t]
      \/ at'[t] = "returned" /\ join_cfg' = NULL
  BY DEF LorawanTypeOK, Keep, Return
<1>5. mode[t] # NULL
  BY <1>2, LorawanAssumption
<1>6. FilledWell'
  BY <1>1 DEF Credentials, FilledWell, Parses
<1>7. ASSUME NEW u \in Caller
      PROVE  ListCovers(u)'
  <2>1. CASE u = t
    BY <1>4, <2>1 DEF ListCovers
  <2>2. CASE u # t
    BY <1>1, <1>3, <2>2 DEF Credentials, ListCovers, Needed
  <2>3. QED
    BY <2>1, <2>2
<1>8. ConfigFilled'
  BY <1>1, <1>2 DEF ConfigFilled, Needed
<1>9. NobodyParses'
  BY <1>1, <1>3, <1>4 DEF NobodyParses
<1>10. RadioHasConfig'
  <2>1. CASE join_cfg' = mode[t]
    BY <1>5, <2>1 DEF RadioHasConfig
  <2>2. CASE at'[t] = "returned" /\ join_cfg' = NULL
    <3>1. join_cfg # NULL => crossed
      BY <1>1 DEF Credentials, NobodyParses
    <3>2. QED
      BY <1>1, <1>3, <2>2, <3>1 DEF Credentials, RadioHasConfig
  <2>3. QED
    BY <1>4, <2>1, <2>2
<1>11. QED
  BY <1>6, <1>7, <1>8, <1>9, <1>10 DEF Credentials

\* Every reachable state satisfies it, starts by both threads included.
THEOREM ConfigsAreFilled == LorawanSpec => []Credentials
<1>1. LorawanInit => Credentials
  BY DEF LorawanInit, LorawanFresh, Credentials, FilledWell, ListCovers, ConfigFilled,
         RadioHasConfig, NobodyParses, Caller
<1>2. SettingsTypeOK /\ LorawanTypeOK /\ Credentials /\ [LorawanNext]_nodeVars => Credentials'
  <2> SUFFICES ASSUME SettingsTypeOK, LorawanTypeOK, Credentials, [LorawanNext]_nodeVars
               PROVE  Credentials'
    OBVIOUS
  \* Most steps move one thread, not into the parsing and not to the radio.
  <2>0. ASSUME NEW t \in Caller, NEW place \in {"start", "join", "joining", "sleep", "returned", "radio"},
               at' = [at EXCEPT ![t] = place], UNCHANGED <<mode, keys, join_cfg, cred, crossed>>,
               place \in {"start", "returned"} \/ join_cfg # NULL \/ crossed,
               radio' \in {radio, NULL} \/ join_cfg # NULL \/ crossed
        PROVE  Credentials'
    <3>1. FilledWell' /\ ConfigFilled'
      BY <2>0 DEF Credentials, FilledWell, ConfigFilled, Parses, Needed
    <3>2. ASSUME NEW u \in Caller
          PROVE  at'[u] = at[u] \/ at'[u] = place
      BY <2>0 DEF LorawanTypeOK
    <3>3. ASSUME NEW u \in Caller
          PROVE  ListCovers(u)'
      <4>1. ListCovers(u)
        BY DEF Credentials
      <4>2. at'[u] = "parse" => at[u] = "parse"
        BY <3>2
      <4>3. QED
        BY <2>0, <4>1, <4>2 DEF ListCovers, Needed
    <3>4. RadioHasConfig' /\ NobodyParses'
      BY <2>0, <3>2 DEF Credentials, RadioHasConfig, NobodyParses
    <3>5. QED
      BY <3>1, <3>3, <3>4 DEF Credentials
  <2>1. CASE BootStart
    BY <2>0, <2>1 DEF BootStart, Caller, parsing, joining
  <2>2. CASE ShellStart
    BY <2>0, <2>2 DEF ShellStart, Caller, parsing, joining
  <2>3. ASSUME NEW t \in Caller, Disabled(t)
        PROVE  Credentials'
    BY <2>0, <2>3 DEF Disabled, Return, parsing, joining
  <2>4. ASSUME NEW t \in Caller, UseConfig(t)
        PROVE  Credentials'
    BY <2>0, <2>4 DEF UseConfig, parsing, joining
  <2>5. ASSUME NEW t \in Caller, Choose(t)
        PROVE  Credentials'
    <3>1. CASE Wanted(ram) = NULL
      BY <2>0, <2>5, <3>1 DEF Choose, ChooseAgain, Return, parsing, joining
    <3>2. CASE Wanted(ram) # NULL
      <4>1. Wanted(ram) \in Mode
        BY <3>2 DEF Wanted, Mode
      <4>2. /\ join_cfg = NULL
            /\ at' = [at EXCEPT ![t] = "parse"]
            /\ mode' = [mode EXCEPT ![t] = Wanted(ram)]
            /\ keys' = [keys EXCEPT ![t] = Needs[Wanted(ram)]]
            /\ UNCHANGED <<join_cfg, cred, radio, crossed>>
        BY <2>5, <3>2 DEF Choose, ChooseAgain, joining
      <4>3. /\ at'[t] = "parse" /\ mode'[t] = Wanted(ram) /\ keys'[t] = Needs[Wanted(ram)]
            /\ \A u \in Caller \ {t} : at'[u] = at[u] /\ mode'[u] = mode[u] /\ keys'[u] = keys[u]
        BY <4>2 DEF LorawanTypeOK
      <4>4. ListCovers(t)'
        BY <4>1, <4>3, WholeList DEF ListCovers, Needed
      <4>5. ASSUME NEW u \in Caller \ {t}
            PROVE  ListCovers(u)'
        BY <4>2, <4>3 DEF Credentials, ListCovers, Needed
      <4>6. FilledWell' /\ ConfigFilled'
        BY <4>2 DEF Credentials, FilledWell, ConfigFilled, Parses
      <4>7. RadioHasConfig' /\ NobodyParses'
        BY <4>2, <4>3 DEF Credentials, RadioHasConfig, NobodyParses
      <4>8. QED
        BY <4>4, <4>5, <4>6, <4>7 DEF Credentials
    <3>3. QED
      BY <3>1, <3>2
  <2>6. ASSUME NEW t \in Caller, ParseKey(t)
        PROVE  Credentials'
    BY <2>6, ParseKeyKeeps
  <2>7. ASSUME NEW t \in Caller, Keep(t)
        PROVE  Credentials'
    BY <2>7, KeepKeeps
  <2>8. ASSUME NEW t \in Caller, StartRadio(t)
        PROVE  Credentials'
    BY <2>0, <2>8 DEF StartRadio, Return, parsing, Credentials, RadioHasConfig
  <2>9. ASSUME NEW t \in Caller, JoinRequest(t)
        PROVE  Credentials'
    BY <2>0, <2>9 DEF JoinRequest, parsing, Credentials, RadioHasConfig
  <2>10. ASSUME NEW t \in Caller, Wake(t)
         PROVE  Credentials'
    BY <2>0, <2>10 DEF Wake, Return, parsing, joining, Credentials, RadioHasConfig
  <2>11. ASSUME NEW t \in Caller, NEW ok \in BOOLEAN, JoinAnswer(t, ok)
         PROVE  Credentials'
    BY <2>0, <2>11 DEF JoinAnswer, Return, parsing, Credentials, RadioHasConfig
  <2>12. CASE UNCHANGED lorawanVars
    BY <2>12 DEF lorawanVars, parsing, joining, Credentials, FilledWell, ListCovers, ConfigFilled,
             RadioHasConfig, NobodyParses, Parses, Needed
  <2>13. CASE LorawanRestart
    BY <2>13 DEF LorawanRestart, Credentials, FilledWell, ListCovers, ConfigFilled,
             RadioHasConfig, NobodyParses, Caller
  <2>14. QED
    BY <2>1, <2>2, <2>3, <2>4, <2>5, <2>6, <2>7, <2>8, <2>9, <2>10, <2>11, <2>12, <2>13
    DEF LorawanNext, LorawanStep, Caller, SettingsStep, nodeVars
<1>3. QED
  BY <1>1, <1>2, SettingsTypes, LorawanTypes, ReadsSettingsOnly, PTL DEF LorawanSpec

\* A join request goes out with a complete configuration only (ztacx_lorawan_start,
\* parse_hex_setting).
THEOREM RequestsAreComplete == LorawanSpec => []JoinsComplete
<1>1. Credentials => JoinsComplete
  BY NeededAreKeys DEF Credentials, FilledWell, ConfigFilled, RadioHasConfig, JoinsComplete
<1>2. QED
  BY <1>1, ConfigsAreFilled, PTL

\* Once there is a configuration its bytes stay, unless it was kept in the middle of
\* the other thread's parsing (ztacx_lorawan_start, the static join_cfg).
THEOREM ConfigIsKept == LorawanSpec => ConfigStays
<1> DEFINE Stays == join_cfg # NULL /\ restarts' = restarts /\ ~crossed => UNCHANGED <<join_cfg, cred>>
<1>1. SettingsTypeOK /\ Credentials /\ [LorawanNext]_nodeVars => [Stays]_nodeVars
  <2> SUFFICES ASSUME SettingsTypeOK, Credentials, [LorawanNext]_nodeVars,
                      join_cfg # NULL, restarts' = restarts, ~crossed
               PROVE  UNCHANGED <<join_cfg, cred>>
    BY DEF nodeVars
  <2>1. \A t \in Caller : at[t] # "parse"
    BY DEF Credentials, NobodyParses
  <2>2. CASE LorawanRestart
    <3>1. restarts \in Nat /\ restarts' = restarts + 1
      BY <2>2, SettingsAssumption DEF SettingsTypeOK, LorawanRestart, Restart
    <3>2. QED
      BY <3>1
  <2>3. ASSUME NEW t \in Caller, LorawanStep(t)
        PROVE  UNCHANGED <<join_cfg, cred>>
    BY <2>1, <2>3 DEF LorawanStep, Disabled, UseConfig, Choose, ParseKey, Keep, StartRadio,
                      JoinRequest, Wake, JoinAnswer
  <2>4. CASE BootStart \/ ShellStart \/ SettingsStep \/ UNCHANGED nodeVars
    BY <2>4 DEF BootStart, ShellStart, SettingsStep, lorawanVars, nodeVars
  <2>5. QED
    BY <2>2, <2>3, <2>4 DEF LorawanNext, Caller
<1>2. QED
  BY <1>1, SettingsTypes, ReadsSettingsOnly, ConfigsAreFilled, PTL DEF LorawanSpec, ConfigStays

\* Credentials saved before the restart are used after it (ztacx_lorawan_start reading
\* what ztacx_settings_start has loaded): a start that gives up although the settings
\* are loaded and untouched had an incomplete flash.
THEOREM SavedConfigsAreUsed == LorawanSpec => SavedConfigIsUsed
<1> DEFINE Kept == [s \in Setting |-> IF Fits(s) THEN flash[s] ELSE Default[s]]
           Used == \A t \in Caller : TurnedDown(t) /\ Loaded /\ touched = {} => ~Complete(Kept)
<1>1. SettingsTypeOK /\ AcrossRestart /\ LorawanTypeOK /\ Credentials /\ [LorawanNext]_nodeVars
        => [Used]_nodeVars
  <2> SUFFICES ASSUME SettingsTypeOK, AcrossRestart, LorawanTypeOK, Credentials, [LorawanNext]_nodeVars,
                      NEW t \in Caller, TurnedDown(t), Loaded, touched = {}
               PROVE  ~Complete(Kept)
    OBVIOUS
  <2>1. ram = Kept
    BY DEF AcrossRestart, SettingsTypeOK
  <2> SUFFICES ~Complete(ram)
    BY <2>1
  <2> HIDE DEF Kept
  <2>2. at[t] \in {"start", "parse"} /\ at'[t] = "returned" /\ rc'[t] = "invalid"
    BY DEF TurnedDown
  <2>3. CASE Choose(t)
    <3>1. Wanted(ram) = NULL
      BY <2>2, <2>3 DEF Choose, ChooseAgain, LorawanTypeOK
    <3>2. QED
      BY <3>1 DEF Complete
  <2>4. CASE ParseKey(t)
    <3>1. ~Parses(ram, Head(keys[t])) /\ at[t] = "parse" /\ keys[t] # << >>
      BY <2>2, <2>4 DEF ParseKey
    <3>2. mode[t] = Wanted(ram) /\ mode[t] \in Mode
      BY <3>1 DEF TurnedDown, Credentials, ListCovers
    <3>3. Head(keys[t]) \in Needed(mode[t])
      BY <3>1 DEF Credentials, ListCovers, LorawanTypeOK
    <3>4. QED
      BY <3>1, <3>2, <3>3 DEF Complete
  <2>5. CASE Disabled(t)
    BY <2>2, <2>5 DEF Disabled, Return, LorawanTypeOK
  <2>6. CASE LorawanRestart
    BY <2>2, <2>6 DEF LorawanRestart
  <2>7. ASSUME NEW u \in Caller \ {t}, LorawanStep(u)
        PROVE  at'[t] = at[t]
    BY <2>7 DEF LorawanStep, Disabled, UseConfig, Choose, ChooseAgain, ParseKey, Keep, StartRadio,
                JoinRequest, Wake, JoinAnswer, Return, LorawanTypeOK
  <2>8. CASE UseConfig(t) \/ Keep(t)
    BY <2>2, <2>8 DEF UseConfig, Keep, Return, LorawanTypeOK
  <2>9. CASE BootStart \/ ShellStart \/ SettingsStep \/ UNCHANGED nodeVars
    BY <2>2, <2>9 DEF BootStart, ShellStart, SettingsStep, lorawanVars, nodeVars, LorawanTypeOK
  <2>10. ~(StartRadio(t) \/ JoinRequest(t) \/ Wake(t) \/ \E ok \in BOOLEAN : JoinAnswer(t, ok))
    BY <2>2 DEF StartRadio, JoinRequest, Wake, JoinAnswer
  <2>11. QED
    BY <2>2, <2>3, <2>4, <2>5, <2>6, <2>7, <2>8, <2>9, <2>10 DEF LorawanNext, LorawanStep, Caller
<1>2. QED
  BY <1>1, SettingsTypes, SettingsComeBack, LorawanTypes, ConfigsAreFilled, ReadsSettingsOnly, PTL
  DEF LorawanSpec, SavedConfigIsUsed

=============================================================================
