# A formal model of ztacx

ztacx is a framework of ready-made device modules ("leaves") for the Zephyr
real-time operating system: LEDs, keypads, sensors, Bluetooth, LoRaWAN, GPS and
more, each with settings, published values and a shell command.  This directory
holds TLA+ modules that model its core, the TLC configurations that check them on
small instances, and TLAPS proofs of what holds for every instance.

Source paths below are relative to the repository; `ztacx.c` is
`src/src/ztacx.c`, `ztacx.h` is `src/include/ztacx.h`, the leaves are
`src/src/ztacx_<leaf>.c`, the applications `src/samples/<name>/<name>.c`.

Run a model with `tlc -config led.cfg MCZtacxLed`, a proof with
`tlapm ZtacxVariables_proofs.tla`.

## 1. Inventory

### How the parts interact

All parts share four threads of control:

- the **main thread** runs `SYS_INIT` functions by priority (`ztacx_init` 90,
  every leaf's init 92, the applications' `app_init` 94, every leaf's start 96, `app_start` 98),
  then the application's `main`;
- the **system work queue** (one cooperative thread) runs all work items: sensor
  readers, blink handlers, keypad scans, on_change observers, `advertise`;
- the **shell thread** runs the commands a user types; it has the lowest priority and
  can be preempted between any two steps;
- **callbacks** of the Bluetooth stack, and interrupts (button, UART).

There are hardly any locks.  Parts communicate through the variables of the
framework (a set runs the observer's work item), through the leaf registry
(handlers look their leaf up by what is in its context), and through work items that
re-schedule themselves or one another.  This is what the model is about.

| component | state | operations | hard behaviour | correct means |
|---|---|---|---|---|
| leaf registry and lifecycle (`ztacx.c`, `ztacx.h`, `ztacx_power.c`) | `ztacx_leaves` list, per leaf `ready`, `running`; dynamic command table | init, start, stop, boot, status, pre-sleep walk, power off, lookup | boot order chosen by the linker, init and start callbacks that sleep and let the shell in, commands that register again | the registry is what the registrations make of it and its walks end; everyone sleeps before power off |
| variables (`ztacx.c`) | value and on_change hook of each variable | set, increment, get, set_onchange, register | set from any thread, observer running meanwhile, coalesced submissions | the observer ends up with the last value |
| LED (`ztacx_led.c`) | two delayable work items, pin, duty, blink | commands, handlers, start, stop, pre-sleep | cancelling a chain that re-schedules itself | the chain lives while started, dies when stopped; the LED settles as its settings say |
| Bluetooth: advertising, connections (`ztacx_bt_peripheral.c`) | OK, ADVERTISING, CONNECTED, advertising data and size | register data, advertise, stop, ready and connection callbacks, commands | registration against readiness and against another registration, two contexts inside `advertise`, starts that fail | what is on the air is what is registered, and flagged; registered data is advertised in the end |
| Bluetooth: services, attributes (`ztacx_bt_peripheral.c`) | service table, attribute values, pending notifications | register, read, write, notify | registration against readiness, calls that fail; partial writes by width, beside the program's own stores | what is read is what whole writes and stores leave; what the stack knows of a service is whole and given once |
| keypad (`ztacx_kp.c`, `bt_keypad.c`) | scan work item, PINS, event word | scan, commands, the application's wait | a scan blocks for the bus while commands cancel it; events overwrite one another | the scan never forgets to go on; the application's picture is the keypad's |
| inertial sensor and shock alert (`ztacx_ims.c`, `bt_sensor.c`) | levels, peaks, alert, LED duty | reader, by work item and by command, two observers that set one another's variables, clear by command | order of readers, observers and clear | a shock alerts; an alert means a shock; the LED shows it |
| settings (`ztacx_settings.c`) | value in RAM and in flash | load, set, save, export | failed save or allocation, load or restart between the two | what nothing has changed since its save is what a restart brings |
| periodic sensors (`ztacx_battery.c`, `_temp.c`, `_lux.c`, `_lidar.c`) | a self-scheduling reader, one or two values | read by work item and by command | a failed read, VALUE_OK cleared, two readings at once, thresholds that are set, readings that do not fit | only a failed read or a cleared VALUE_OK silences a sensor; what is published is close to what was read, and its two values belong together |
| tone and PWM outputs (`ztacx_spkr.c`, `_pwmled.c`) | PWM level, volume, duty, one item that ends it | tone, light, adjust, pre-sleep | all callers share the item that ends the tone | what is switched on has an end |
| LED strip (`ztacx_led_strip.c`) | pixels, cursor, colour, refresh item | refresh, commands, two observers, start | sending blocks and may fail, so a command's picture and a refresh's overlap and a cancellation falls into a refresh; two variables make one drawing | the strip shows the picture; a colour lands under its cursor |
| LoRaWAN (`ztacx_lorawan.c`) | configuration kept, credential buffers | start: parse credentials, join with retries | two starts at once, credentials set or loaded meanwhile, boot blocked by the join | as many attempts as asked, with complete and stable credentials |
| GPS (`ztacx_gps.c`) | receive buffer, position | receive interrupt, `gps_loop`, parser | the interrupt between any two statements of the loop, a buffer nearly full | strings end in the buffer; positions told are positions sent |
| button (`ztacx_button.c`) | table of buttons | interrupt | - | - |
| power (`ztacx_power.c`) | - | power off, sleep | work that goes on after pre-sleep | outputs are off when the system is |
| Bluetooth UART, DAC, I2C, LoRa modem, small samples | little or none | pass-through, scans, stubs | - | - |

## 2. Modules

| module | models | composed with |
|---|---|---|
| `SysWorkQ` | the kernel's work queue as its users see it: submit (once while pending), withdraw | used by most below |
| `SysSlist` | the kernel's linked list with its pointers, so that appending twice does what it does | instanced by `ZtacxLeaves` |
| `ChangeNotification` | abstract: what a variable promises its observer | implemented by `ZtacxVariables` |
| `ZtacxVariables` | values, hooks, setters in any context, the work queue | `Promise == INSTANCE ChangeNotification WITH hooked <- ...` |
| `ZtacxLeaves` | registry, boot, lifecycle commands, power off | `S == INSTANCE SysSlist` |
| `ZtacxLed` | the blink chain and everything that touches it | `SysWorkQ` |
| `ZtacxBtPeripheral` | advertising and connections with the stack as environment | `SysWorkQ` |
| `ZtacxBtServices` | tables of attributes, built by the application beside `bt_ready` | - |
| `ZtacxBtGatt` | reads and writes of a characteristic's variable, beside the services | extends `ZtacxBtServices` |
| `ZtacxKeypad` | scan item with the kernel's flags, and the application | - |
| `ShockAlert` | reader, observers and clear of the sensor application | `SysWorkQ` |
| `ZtacxSettings` | settings in memory and in flash, failing saves, restarts | - |
| `ZtacxLorawan` | the LoRaWAN leaf, whose credentials are settings | extends `ZtacxSettings` |
| `ZtacxSensors` | the four periodic sensors as one, on one work queue, beside the shell | `SysWorkQ` |
| `ZtacxPwm` | tones and lights, and the items that end them | `SysWorkQ` |
| `ZtacxLedStrip` | the strip | extends `ZtacxPwm`: one work queue |
| `ZtacxGps` | receive interrupt, buffer, loop and parser | - |
| `Common_proofs` | lemmas on the work queue and on counting | extended by the proofs below |
| `ZtacxVariables_proofs`, `ZtacxLeaves_proofs`, `ZtacxLed_proofs`, `ZtacxLedStrip_proofs`, `ZtacxBtPeripheral_proofs`, `ZtacxSensors_proofs`, `ZtacxInputs_proofs` | theorems and proofs: of variables, settings and LoRaWAN; of leaves; of the LED; of strip and tones; of advertising, services and writes; of sensors and the shock alert; of keypad and GPS | extend the modules they are about |
| `MC...` | the constants the configurations give model values to | |

How state and actions correspond to the code:

- A struct field or static variable is a TLA+ variable of the same name where there is one
  (`ready`, `running`, `on_change`, `join_cfg`), the work queue is a sequence without
  repetitions (`k_work_submit` of a pending item does nothing), a delayable item is
  in `delayed` until its delay expires.  Time is not counted: a delay expires some
  time later.
- **Granularity.**  A step of the shell or of the main thread ends wherever another thread
  can come between and matter: a setter is *store* then *submit*
  (`ValueSet`/`SubmitOnChange`), an increment *get* then *store* (`IncRead`/`IncStore`), a leaf's callback *call* then *return*,
  a LED stop three steps, a setting's set *memory* then *flash* (`SetRam`/`SaveOne`), a start of LoRaWAN one
  step per credential and three per attempt, a reading of a sensor one per value published, a reading of the
  inertial sensor by the shell one per access, `advertise` and `ztacx_bt_adv_register` one step per
  read, write or stack call (`pc`).  A GATT write is *fetch and overwrite*, then *store*, for each case of the
  switch it falls into, then *answer*.  `gps_loop` is one step per statement, the interrupt one step.
  A handler of the work queue that does not block is one step (the
  queue's thread is cooperative), one that blocks is split there (`ScanBegins`/`ScanEnds`,
  `Refresh`/`Refreshed`, the sensors' device reads).
  `ZtacxVariables` interleaves handlers at every step too: more behaviours
  than the priorities allow, so its safety results hold a fortiori.
- **Failing calls.**  Every callback and device call whose result the code looks at can
  fail at any time: init, start, stop, pre_sleep callbacks (`\E rc`, `\E err`), sensor and I2C
  reads, updates of the strip, saves to flash, joins, `bt_enable`, `bt_le_adv_start`, `bt_set_name`, registration and
  withdrawal of services, and the allocations of strings, credentials and attribute tables.  Taken to succeed are `bt_le_adv_stop`
  (whose error is only logged, 591-595) and the submissions, but for the refusals of the kernel below.
- **Crash and restart.**  `ZtacxSettings!Restart` may come at any moment: memory goes back to
  what it is linked with, flash stays.  `ZtacxLorawan` restarts with it.
- **Auxiliary variables** (marked so) record history for the properties and are read by
  no action's guard.  The exceptions are the bounds (`writes`, `commands`, `clears`, `sets`, `count`
  and the like, and `order`'s length against `MaxAppends`) and `one` in `ZtacxKeypad`, which limits
  the environment.  They are of two kinds.  Some say what was asked for or has happened: `order`, `asked`, `slept`, `sent`, `last`,
  `margin`, `possible`, `seen`, `view`, `typed`, `refused`, `failed`, `cleared`, `unsaved`, `touched`, `twice`, `unsent`, `latest`.  The others mark the
  overlaps in which the code does go wrong, so that a property can state exactly what holds outside
  them: `crossed`, `torn`, `stale`, `adrift`, `behind`, `early`, `missed`, `clash`, `keptUp`; section 3 says what happens inside.
- "Broken variants" beside a definition are plausible mistakes in that code; substituting
  one for the definition makes TLC report the property it is meant for.  They show
  that the properties are sensitive to the code and are used by no action.

External code, modelled from its use: `k_work_*` (`SysWorkQ`, and the flags
`delayed queued running canceling` in `ZtacxKeypad`: `k_work_schedule` does nothing unless the item
is idle or running; cancelling a running item leaves it `canceling` until its
handler returns, and until then submissions are refused; `canceling` of the strip's refresh in
`ZtacxLedStrip` is the same flag), `sys_slist_*`,
`k_event_*` (a waiter is woken with the first word set, a wait with reset forgets
earlier ones), the settings subsystem (loads and saves exclude one another, an entry is written
whole or not at all, a save of no bytes deletes it), the LoRaWAN stack (a join succeeds or fails some
time after it was asked), the UART (the interrupt delivers any number of characters), the Bluetooth stack (one connection; starting fails while
advertising, connected or not enabled, and may fail otherwise; it may resume advertising after a disconnection; it gives
handles to the attributes a service has when it is registered).

## 3. Runs

| run | result | question |
|---|---|---|
| `variables` | holds | `NoLostChange` and `Notifies` (it implements `ChangeNotification`, liveness included) with setters and increments on the shell and in handlers, hooks set at any time, readers submitted by timers |
| `leaves` | holds | any link order, failing callbacks, all commands from the first sleeping init callback on, leaves registered again: `RegistryIsList`, `WalksEnd`, `AllSleptBeforeOff`, `PowerOffCompletes` |
| `led` | holds | every command and write at any point of the blink chain: `ChainAlive`, `FollowsDuty` |
| `bt` | holds | one registration (every sample makes one) or two against readiness, commands, connections, refused starts and names, failed connections: `FlagFollowsRadio`, `AirIsRegistered`, `AdvertisesEventually` |
| `gatt` | holds | services and characteristics registered at every moment of the stack's start, with calls that fail, in builds that fold literals and in builds that do not: `StackKnowsService`; centrals that read, and write parts of values of every kind but bool, beside the program's own stores: `WritesAreWhole`, `ObserverCatchesUp` |
| `keypad` | holds | all commands during scans, failing reads, keys at will or one at a time, the registry emptied meanwhile: `EndsOnlyByCancel`, `StopStops`, `ViewFollowsPins` |
| `keypad_scan` | **violated** `ScanAlive` | `scan` typed during a scan cancels it, and both re-submissions are refused: scanning is over, although the command says "Doing immediate scan" (`ztacx_kp.c:230`) |
| `shock_alert` | holds | readings by the work item and by command, observers, clears, a reader that stops, hooks set after it has begun: `AlertShown`, `PeakAlerts` |
| `lorawan` | holds | a flash left by another version, sets, saves and allocations that fail, fall into a load or are cut off by a restart: `MemoryIsFlash`, `AcrossRestart`; starts by the boot, before or after the settings', and by command: `JoinsComplete`, `ConfigStays`, `SavedConfigIsUsed`, `BootGoesOn` |
| `sensors` | holds | two sensors on one work queue or one whose threshold is set, each read by its item and by its command, started again, VALUE_OK cleared, failing at any time: `OnlyFailureSilences`, `NeverSilent`, `PublishedIsClose`, `PairsAgree` |
| `outputs` | holds | tones and lights begun again and again by two threads: `OnHasAnEnd`; a strip drawn by commands, by variables and by its refresh, switched, stopped and started meanwhile, with updates that fail: `ShowsPicture`, `DrawnIsSent`, `ColorLands` |
| `gps` | holds | the interrupt anywhere in the loop, a loop that falls behind, a buffer that is emptied, lines too long for the copy: `BufferEnds`, `ToldWasSent` |

Behaviour met while modelling, in the models' actions but without a run of
its own, which the properties therefore leave out:

- **Variables.**  The command `ims` increments a counter in the shell beside the work item:
  `ztacx_variable_value_inc_int64` (`ztacx.c:742-746`) is a get and a set, so one increment is lost (`Incrementer` has both).
  Nothing is promised about counters.
- **Registry.**  `ztacx init` on a listed leaf appends it again (`ztacx.c:151`): it goes to the end and the leaves between vanish,
  and if it was the last one it becomes its own successor, which makes every walk that does not find what it looks
  for endless (`WalksEnd` says exactly when).  An init callback that sleeps (`ztacx_led_strip.c:172`) lets the shell start leaves that are not set up, and
  the start callback is called whether or not its leaf is ready.  `ztacx boot` empties the registry; only a boot that is still going on
  fills it again.  `ztacx stop` on a leaf whose class
  has no stop callback (the keypad's, `ztacx_kp.h:45`)
  clears `running` while the work goes on (`ShellStop`).  A lookup that fails gives a NULL pointer that the lifecycle commands
  use (`GetFails`).
- **LED.**  When `ledoff` runs between the two cancellations of `ztacx_led_stop` it schedules `ledon` again,
  and the LED goes on blinking.
- **Advertising.**  `bt_cb_connected` logs a failed connection and sets CONNECTED all the same
  (`ConnectFailed`), so CONNECTED does not say whether there is a central.
  With the `advertise` command beside the work queue's `advertise`, data can be on the air
  with the flag false; so it can when a second registration's `stop_advertise` runs beside it:
  `FlagFollowsRadio` leaves both out.  A refused name ends `bt_advertise_name` before it submits `advertise` (631-637), and `bt_ready` does not
  look at its result; a refused start ends `advertise` (616-619).  After either only a disconnection, a command or another registration
  tries again (`refused`).  Between the four stores of a second registration `advertise` may start with fields of both; the
  submission that follows the stores replaces it.
- **Services.**  `bt_ready` may hand over a default service that is not declared or not finished yet
  (`ztacx_bt_peripheral.c:651-658`), which is then registered a second time (`early`).  A service of the
  application's own declared before OK is registered by nobody, and so is the default one when it is declared
  between `bt_ready`'s look and OK, and one whose registration failed.  Nothing is promised of what is offered, only of what the stack has.
  A characteristic that cannot be appended (461-464) leaves the
  service withdrawn.  A failed reallocation leaves the service without its table but with the count of it (`ruined`).
  Whether a service is registered again after characteristics were added depends on
  the compiler folding equal literals (478).  A default presentation format is not counted (465-466), so
  that what follows overwrites it.  Characteristics of `ztacx_bt_characteristic_register` hand over the variable where the address of a pointer to
  it is expected (414), so that reading one is undefined: the attribute modelled is one of a service
  defined at compile time.
- **Attributes.**  `int16` and `int32` writes fall through to the next cases and answer an error although the
  value has changed; an `int32` goes through a 16-bit temporary (284), which loses its upper bytes (bytes written past the
  temporary are undefined, and not modelled); an `int64` write changes the variable
  for a moment and then stores the old value back (298-300).  A store of the program that falls into a write is
  written over, or is itself the value.
- **Keypad.**  With keys changing at will `ViewFollowsPins` fails: only one event of a scan is received, and
  none while the application is busy.  A scan that begins when the leaf is no longer listed returns without scheduling the next (302-306):
  after `ztacx boot` scanning is over.
- **Shock alert.**  A level above the threshold stored between a clear and its observer is no new peak, or is
  wiped out, and never alerts; nor does a peak stored before `app_start` sets its hooks (`missed`).
  Clearing sets the peak to `INT32_MAX` through the setter, whose hook may raise the alert again.  The reader returns without
  scheduling itself when there is no device, VALUE_OK is false or a channel cannot be got (127-130, 139-143): nothing brings it back.
- **Settings.**  A set that another write of the same setting falls into (a load, a leaf's own command) saves
  that other value and answers success; if the string was reallocated meanwhile, what is saved is read from freed memory
  (`freed`).  When the string's new memory cannot be had (`ztacx.c:604-607`) the error is dropped at 660: the set saves the
  old string and answers success.  `settings save` writes entries without `app/`, which no load finds.
- **LoRaWAN.**  A start by command that is overtaken in its parsing by the boot's own start goes on when the
  boot waits for the network: it writes the credential buffers the radio is using and replaces the configuration,
  possibly by one of the other mode, or by none when there is no memory for it (185-188, 209-213) (`crossed`; without that exception `ConfigStays` is violated).
- **Sensors.**  A failed reading of temperature, light or distance is the last one: they return before they
  schedule the next (`ztacx_temp.c:111-118`).  So is, of all four, one with VALUE_OK false (`ztacx_battery.c:134-136` and the others), which
  `ztacx value set` may bring about.  When command and item read at once, the published value may be
  further from the last reading than the threshold, and the two values of a pair may come from
  different readings, until the sensor is read alone.  Readings are published in 16 bits (`ztacx_lux.c:110`, `ztacx_temp.c:157`, `ztacx_battery.c:169`): one
  that does not fit is published as another, and is compared as what it was.  `ztacx start` on a leaf whose item the kernel holds initialises that item in
  the kernel's list, which is undefined (`halted`).  The battery's percentage wraps below 2800 mV
  (`ztacx_battery.c:177`), the light sensor's threshold is its interval (`ztacx_lux.c:17-18`), what it publishes when its channel cannot be got is whatever
  the stack held (any reading), and the lidar's source does not compile as it stands (`ztacx_lidar.c:62,75`).
- **Outputs.**  `pwmled_adjust_duty` may find the LED on and set its duty just after it was switched off: it stays
  lit, and nothing ends it (`adrift`).  A refresh that `off` or `stop` cancels at work may end after the strip was put out, or put out with a failing
  update: the old picture stays and no refresh follows (`torn`); an `on` typed before it has returned is refused, and nothing is refreshed
  (`ztacx_led_strip.c:273, 312`).  A colour written while an earlier one is still to be drawn
  may land at the wrong place (`crossed`).  The boot's test pattern reads one colour before the table
  (`ztacx_led_strip.c:165-173`).  The volume is saved under a name that is never loaded.
- **GPS.**  `memmove` brings no NUL (`ztacx_gps.c:527`): with a second complete line in the buffer, old text follows the rest and
  is read again.  Characters received between `strlen` and the store of the length (526-528) are
  overwritten.  A buffer that is emptied in the middle of the loop gets a NUL in its new text.  A
  sentence that is cut may leave a new latitude beside an old longitude (218-220, 264-266).  None of this happens
  while the loop keeps up (`keptUp`).  A line of 100 bytes or more is copied without its NUL (523-525).  By the formula of line 81 the latitudes hardly count: a movement due
  north or south is told to nobody, whatever the comment at 111 says.  A sentence with no complete time returns
  before the movement is looked at (301-305), and its position is told with the next one.

### Bounds, and why they are enough

- `variables`: two observed variables and a counter, two observers, one reader, the
  shell and the work queue, both of which count, two values, `MaxWrites = 3` setter calls: a setter,
  one that overtakes it and one from inside the handler.  The proofs of section 5 remove the bounds
  for the properties they cover, here and below.
- `leaves`: three leaves are what it takes for a list to have a head, a middle and a tail;
  `MaxAppends = 3` lets a command register a leaf again while the boot has others to come, whose registrations
  follow, and while it fills a registry that `ztacx boot` has emptied.  With 4, which adds commands that register after the boot, the run holds
  as well, in some minutes; the two invariants of the registry are proved for any number.
- `led`: duty 0, 100 and one between are all the code tells apart; `MaxCommands = 4`
  puts a command, one that undoes it and two more anywhere in the chain.  Commands stop in the end,
  which is what the "settles" properties are about.
- `bt`: two data sets, so that one can replace the other, `MaxCommands = 2`; connections, failures and disconnections are
  unbounded.
- `gatt`: the default service and one of the application's, two arrays of two characteristics, one each
  that cannot be found or appended.  Bytes are 0 or 1; `MaxWrites = 1` and `MaxStores = 2` put two stores anywhere in a
  write, or one before it.  A write is whole for a byte and partial for the others, at both offsets, or too far for the byte.
- `keypad`: three keys (the first, a middle and the last of a change), `MaxCommands = 4`;
  key changes, scans and failed reads are unbounded.
- `shock_alert`: levels 0 to 3 around a threshold of 1 with a change threshold of 1;
  readings are unbounded, `MaxClears = 3`.
- `lorawan`: all the leaf's settings; `FirstFlash` holds an OTAA configuration that lacks the device's own name, an ABP one with keys
  missing and an entry of the wrong size, or a leaf that is switched off.  `MaxSets = 2` sets, which complete the first, change it or delete a credential again, with allocations failing
  for that one string (`Starved`); one restart, one start by
  command beside the boot's; a retry setting of 0 (still one attempt) and of 2.  Loads are unbounded.
- `sensors`: the battery, which retries, and the temperature, which does not, on one work queue; the lidar (published only when its second value
  changes) and the light alone, each with a threshold that is set meanwhile, the light's to 0.  Published values have two bits, and of each of the three kinds of
  reading one does not fit.  Readings, commands and failures are unbounded.
- `outputs`: the speaker and the dimmable LED with two callers, or the strip with one pixel and the position after it (the safety properties were checked with two
  pixels as well, outside the listed runs); calls, writes and commands are unbounded.
- `gps`: a buffer of 16 fields that holds two sentences and a part of a third, lines of at most 8, so that two sentences read as
  one are too long; three sentences, so that the loop can be
  behind by one or more and the buffer be emptied; two places that differ in both coordinates, one sent with no complete time.

`CHECK_DEADLOCK FALSE` appears where the system may really come to rest (`leaves`, `sensors`: switched off, or stopped by a fault; `led`: a LED
that is stopped; `bt`: a peripheral nobody connects to; `keypad`: a keypad that is stopped; `lorawan`: a boot that is over; `gps`: a
receiver that falls silent) or where the bounds end it (`gatt`).

### Fairness, and why the code justifies it

Liveness is checked under weak fairness of: the work queue taking its items and a handler's
steps (the queue's thread has a priority above every application thread, its handlers do not
loop), the expiry of a started delay (a kernel timer), and the next step of a thread that
is inside a call (no thread runs for ever, so that the shell is scheduled).  Nothing the environment
does is fair: no command, key, connection or level ever has to come.  Module by module:

- `ZtacxVariables`, `ZtacxLed`, `ZtacxLedStrip`: as above.  `ZtacxBtPeripheral`: the work queue, the contexts inside `advertise` or a registration, and the
  application, which does register.
- `ZtacxLeaves`: the main thread goes through its levels while it is not in a callback, and a pre_sleep callback returns.  An init or start
  callback need not return.
- `ShockAlert`: handlers and the shell's next step only.  Neither the reader's timer nor `app_start` is fair: the reader may stop
  for good (`ztacx_ims.c:127-130, 139-143`), and `PeakAlerts` must not need another reading.
- `ZtacxLorawan`: the main thread boots, a load goes on, the radio answers or times out, a sleep ends.  The
  settings lock is given to the main thread if it is free again and again (`SF`): the main thread
  has the higher priority, so that it gets the lock when the shell releases it.
- `ZtacxSensors`: an interval passes, the queue goes on, a device answers or fails.
- `ZtacxKeypad`, `ZtacxBtGatt` and `ZtacxGps` have no fairness: nothing in the repository calls `gps_loop`, so nothing can be said of what
  it does in the end.

## 4. What the properties are about

The hazards they cover are listed in `PROJECT.json` with the line of code where each bites.

- `NoLostChange`: whenever a hooked variable differs from what its observer read last, a
  notification is on its way.  It relates the value, the queue, the running
  handler's unread variables and all setters in progress; it fails as soon as the
  submission is skipped for an observer that is running.
- `RegistryIsList`, `WalksEnd`: the pointers against the registrations (`order`), with leaves registered again by anybody and at any time; from
  the registrations alone one can tell what is listed and whether a walk ends.
- `AllSleptBeforeOff`, `PowerOffCompletes`: the walk of the registry reaches everyone past failing
  callbacks and past registrations of the boot meanwhile, and ends.
- `ChainAlive`, `FollowsDuty`: the last link is never lost, whatever is written between a handler's read of
  the duty and the expiry of the delay it chose; the LED comes to rest dark (duty 0) or lit (100), or blinks for ever.
- `AirIsRegistered`: four stores with an `advertise` between any two of them, while another set is on the air: no pointer of one set stays there
  with the size of another, and no old set stays there at all.
- `AdvertisesEventually`: registration and readiness in either order, one of the two starts the
  advertising; a disconnection starts it again.  Only what the stack refuses, or the shell stops, stays off.
- `StackKnowsService`: a service's table is built by several calls while another thread hands it
  over, and any of them may fail; what the stack has is whole, and given once, except where said.
- `WritesAreWhole`, `ObserverCatchesUp`: a byte-wise reference (`Left`, `possible`), which knows neither temporaries nor cases, against the
  handler's temporaries and its fall-through through up to three cases, with stores of the program, an observer and a reader beside them.
- `EndsOnlyByCancel`, `StopStops`: the scan's re-scheduling against a cancellation in its
  middle, and against a registry that is emptied.
- `PeakAlerts`, `AlertShown`: two observers that set one another's variables come to rest with
  the alert, its LED and the peak in agreement.
- `MemoryIsFlash`, `AcrossRestart`: what nothing has changed in memory since it was saved or loaded is in flash, and in memory after
  a boot, past failed saves and allocations, loads in between, restarts anywhere, and entries that no longer fit.
- `JoinsComplete`, `ConfigStays`: the buffers the radio points to are complete when they are used, and
  are not written again, although two starts share them.
- `SavedConfigIsUsed`, `BootGoesOn`: the order of two leaves in the boot,
  and a boot that waits for the network for a bounded number of attempts only.
- `OnlyFailureSilences`, `NeverSilent`: a chain that schedules itself, with early returns of which one depends on a flag that the shell writes.
- `PublishedIsClose`, `PairsAgree`: a decision by a value read earlier, with a threshold that changes and values that do not fit, and two stores that are not one.
- `OnHasAnEnd`: one item ends what any number of callers begin.
- `ShowsPicture`, `DrawnIsSent`: two sendings of two pictures overlap, either ends last, and a cancellation falls into one of them.
- `ColorLands`: two observers in one queue make one drawing.
- `BufferEnds`, `ToldWasSent`: a buffer shared with an interrupt; a position of two parts, kept across a sentence that gives up half way.

## 5. Proofs

TLAPS checks that every safety property of the runs holds for every value of the constants, under the
assumptions each module names (`VariablesAssumption`, `SettingsAssumption`, `LorawanAssumption`,
`LeavesAssumption`, `LedAssumption`, `PwmAssumption`, `StripAssumption`, `BtAssumption`, `ServicesAssumption`,
`GattAssumption`, `KeypadAssumption`, `GpsAssumption`, `SensorsAssumption`, `ShockAssumption`): any number of
variables, threads, work items, leaves, settings, sensors, services, pixels and commands, any values, any bound.
What they assume: NULL and the other markers are no object; sets are disjoint where the program's objects are;
there are finitely many leaves and sensors; bounds, widths and thresholds are numbers; a keypad has eight pins;
a buffer is larger than its spare room, a line holds a sentence without its end and a strip has a pixel; a sensor without a flag starts at the value that
means "nothing read"; a key of LoRaWAN is a string setting with a length; an array of characteristics is not empty.
No theorem has a hypothesis beyond these, and none uses a specification's fairness.

Each module has a theorem of its types, which the others rest on (`TypeCorrect`, `SettingsTypes`, `LorawanTypes`,
`SensorsTypes`, `GattTypes`, `KeypadTypes`, `StripTypes`; for the GPS the lemma `StaysInBuffer`).  The invariants below are
what had to be added to a property to make it inductive.

`Common_proofs` holds what several proofs rest on.

- The work queue: `SubmitQueued` (a submission queues the item, keeps every other one and the type), `TailQueued`,
  `WithdrawQueue`, and, for properties about the order of two items, `OrderKept` and `OrderEnds` with `Before(q, x, y)`.
- Counting: `Least` (a set of numbers has a least one), `Induction` (a set that has 0 and with each number the next
  has them all) and `Iterated` (a function can be iterated).  Induction is stated about a set and not about a
  predicate, so that the provers can use it, with the set of numbers of which the statement holds.

`ZtacxVariables_proofs`:

- `NoChangeIsLost`.  `NoLostChange` is inductive together with the types.  The
  argument is the lemma `OwedKept`: once a notification of `v` is owed, every step but the
  observer's own read of `v` keeps it owed.  A setter's step moves it from "about to submit" to
  "queued", `WorkStart` from "queued" to "about to be read", and any other step leaves it where it is.
  `ChangeOwes` shows that a step which makes `value[v]` differ from `seen[v]` is a setter's, which owes
  one.
- `ImplementsPromise`: every step of `ZtacxVariables` is a step of `ChangeNotification` or
  leaves its variables unchanged (with `hooked` mapped to the variables whose pointer is set),
  and initial states are initial states.
- The settings: `MemoryStaysFlash` adds `InStep`, that a setting which nothing has changed agrees with its entry or waits for it
  in the boot's load; `SettingsComeBack` adds `LoadHolds` (a setting nobody else has written is right already, or is as it was linked
  and on the list of what the boot still loads).
- LoRaWAN: `ReadsSettingsOnly` shows that every step of the leaf is a step of the settings or leaves them alone, which makes
  all the settings' theorems hold of it.  `Credentials` says that a buffer that is filled has a credential of the right
  length, that what a thread has not parsed yet is on its list, and that who uses the radio has a
  configuration (`ConfigsAreFilled`).  From it `RequestsAreComplete`; `ConfigIsKept` and `SavedConfigsAreUsed` are action
  properties.

`ZtacxLeaves_proofs`:

- `RegistryStaysList`.  `RegistryIsList` is inductive; the argument is the lemma
  `AppendSpells`, that `sys_slist_append` of any leaf, listed already or not, and whatever its next pointer was, makes of the pointers that spell
  a sequence of registrations the pointers that spell it with the leaf appended.
- `WalksComeToAnEnd`, from what the pointers spell.  `TwiceIsEndless`: a leaf registered twice in a row is the tail and its own successor.
  `OtherwiseItEnds`: each leaf's successor was registered next after it was registered last, so that along a walk the place of the last registration (`LastPlace`)
  grows, by induction over the steps of the walk (`Traversed`, `Met`).
- `AllAreAsleep`, for a registry of any shape: `Walk` says that the leaves asleep are closed
  under the next pointers of the registry as it was when power off was asked for (`Unlisted`: what the boot registers meanwhile comes from
  outside of it), up to the one the walk looks at; when it looks at none they are closed, and a closed set
  that has the head has every listed leaf (`ClosedHasAll`, by induction).

`ZtacxLed_proofs`: `ChainNeverDies`.  `ChainAlive` is inductive: a handler that takes an item off the
queue leaves the one it schedules pending (`SchedulePends`), and a stop makes the
antecedent false before it takes anything away.

`ZtacxLedStrip_proofs` (the lemmas `QueueMoves`, `QueuedStays` and `PendingStays` say what any step does to the queue):

- `SoundsEnd`: `Ending` adds that an output that is on without its end pending has a thread about to schedule it.
- `PictureIsShown`: `PictureGoes` says where a picture that is not shown is: about to be refreshed, about to be sent, being sent, or lost with a
  sending that failed or was overtaken; and which of the two sendings began last.
- `ColorsLand`: `CursorFollows` (the cursor follows its variable unless a start was overtaken) and `ColorFollows`, which needs the order of
  the queue: the cursor's change is handled before the colour's.

`ZtacxBtPeripheral_proofs`:

- Advertising: the types need `DataInv` (whoever is about to start the advertising has seen data, and
  data is never taken away).  `FlagIsTrue`:
  `FlagInv` says where in `advertise` and in a registration the radio is silent, and that what is on the air is
  flagged or about to be.  `RegisteredIsOnAir`: `AirInv` says that what is on the air and flagged is what is registered, or that a registration is at work which will
  submit `advertise`, or that `advertise` is queued or about to stop it (`Replacing`).
- Services: `ServicesAreHanded` adds `Handed` (a service is handed over when its attributes are complete,
  only `bt_ready` may be early, and none is given twice but those).
- Writes: `WriteInOrder` says what a handler holds at each stage; `ObserverHasCaughtUp` adds `Observed`.  `WritesStayWhole` adds `Going`:
  what the cases that are left will make of the value (`Rest`) is one of the outcomes; `LeftTwice` says that doing a write again changes nothing, which is why
  the fall-through does it as if once.

`ZtacxSensors_proofs`:

- `OnlyFailuresSilence`: inductive with the types, which say what a thread holds at each place of a read function (`Holds`), and with `NotOkIsCleared`: a sensor
  whose VALUE_OK is false has had it cleared.
- `PublishedStaysClose` and `PairsStayTogether` follow from `ReadingsHold`: a sensor's values may be off only while its reading is
  being stored or after two readings overlapped (`Alone`, `Midway`); `Close` and `Agree` compare with the reading kept in 16 bits (`NarrowTyped`).
- `AlertIsShown`: `AlertShown` speaks of states at rest; what is kept in between is
  `LedFollows`: an alert is lit at once, and a LED that is lit without an alert is about to be put out (`PutOutDue`), by a
  clear between its store and its submission or by the queued observer.

`ZtacxInputs_proofs`:

- Keypad: `StopIsFinal` needs `StopIsCancel`, that after a stop the item is idle or its
  running handler is being cancelled, which is what keeps that handler from scheduling the
  next scan.  `ScanGoesOn` is an action property proved from the types.  `ViewIsTrue`: `Reports` says that a report still to be made is of a
  key that has changed since the application was last told.
- GPS, the buffer: `BufferStaysEnded`.  `StringEnds` shows that a string which starts
  in a buffer with a final NUL ends in it, with the least NUL after its start as witness;
  `NewLineInside`, that a newline `strchr` finds is followed by a byte of the buffer.
  `InBuffer` adds where the locals of `gps_loop` point between its statements.
- GPS, the positions: `OnlySentIsTold`.  `KeepsUp` says what the buffer holds at each statement of `gps_loop` (`InStep`): a
  whole sentence at the head and then a line or a part of one (`Rest`), or the part of the sentence being received, perhaps with what
  an earlier `memmove` left behind it but with no newline before its NUL (`NoLine`).  What the interrupt stores continues
  that part (`Received`, `RestGrows`, `StoredGrows`), cutting, copying, measuring and moving keep it (`CutOff`, `CopiedIs`, `RestLength`,
  `MovesDown`), and a sentence sets both coordinates or neither (`ParsedIsSent`).

TLC checked these invariants on the runs' instances, and those of the strip with two pixels, as invariants of
the same specifications (the quantifier over `Nat` in `Handed` cut to 1..9).

Only model-checked: liveness (the fairness part of `Notifies`, `FollowsDuty`, `AdvertisesEventually`, `PeakAlerts`, `BootGoesOn`,
`NeverSilent`, `DrawnIsSent`, `PowerOffCompletes`), since the prover has
neither fairness nor `ENABLED`.

## 6. What could come next

- An abstract durable register that `ZtacxSettings` implements, and a sampled source that `ZtacxSensors` does, with
  the refinements proved.
- The storage of string values (`ztacx.c:614`), which settings and attributes share: a reader in the middle of a
  replacement.
- `ZtacxLeaves` and `ZtacxLed` composed: the LED relit between its pre-sleep and the power going off.
- The command table's bound (`ztacx.c:212`) and the growth of `name_setting` (113).

## 7. Not modelled

- Not state: formatting and logging, printing commands, the DAC, the I2C scan,
  characteristic presentation tables, `scripts/`, the prebuilt boot loader.
- The button (`ztacx_button.c`): its interrupt posts an event and submits the application's item, neither of which a sample waits
  for; its value is set by nothing.  The Bluetooth UART: a pass-through.  `power_sleep`: it suspends the
  console and waits, and tells no leaf.
- Left out of modelled components: transmit power and address of the peripheral;
  the class list (only appended to, read by nothing); the axes of the inertial sensor (they
  drive no handler); setting VALUE_OK of a sensor, or starting one, whose
  device is missing; starting a LED or a keypad, or setting up a speaker, whose items the
  kernel still holds, which the kernel leaves undefined; settings added at run time
  (`ztacx_settings_add`, called by nothing); string values of characteristics; conversions of the sensors'
  units; the strip's rotating test pattern (a build option); times and dates of the GPS (its date sentence is
  compared with a name no receiver sends, `ztacx_gps.c:448`).
- Source that is not there: `bt_central` (a header only), `ztacx_lora_modem.c` (a stub that is
  not built).
