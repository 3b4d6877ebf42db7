----------------------------- MODULE ZtacxSensors -----------------------------
(***************************************************************************)
(* The periodic sensors: battery, temperature, light, lidar                *)
(* (src/src/ztacx_battery.c, _temp.c, _lux.c, _lidar.c).  Each has one     *)
(* delayable work item whose handler reads the device, publishes what it   *)
(* has read when it differs enough from what was published last, and       *)
(* schedules itself again.  The sensor's command runs the same function    *)
(* in the shell thread.  All items share the system work queue.            *)
(*                                                                         *)
(* Reading the device blocks, the shell thread is preempted anywhere, and  *)
(* nothing is locked: two readings of one sensor may overlap.              *)
(*                                                                         *)
(* The four differ in three ways, which are constants here: what tells a   *)
(* first reading, whether a failed reading is followed by another, and     *)
(* what is published beside the reading (percent of charge, detection).    *)
(***************************************************************************)
EXTENDS SysWorkQ, Integers, FiniteSets

CONSTANTS
  Sensor,     \* the leaves
  Retrying,   \* those that schedule the next reading after a failed one too
  Flagged,    \* those with a flag for the first reading
  Marker,     \* sensor not in Flagged -> published value that stands for none
  Paired,     \* those that publish a second value
  Derived,    \* sensor in Paired -> reading -> the second value
  Unless,     \* those that publish it only when it differs
  Reading,    \* sensor -> what its device may return
  Signed,     \* those whose published reading is an int16, not a uint16
  Half,       \* half the values of a published reading, 2^15
  Preset,     \* sensor -> the setting of the difference worth publishing, as it is linked
  Thresholds, \* sensor -> what it may be set to
  Working,    \* the sets of leaves whose init callbacks may have succeeded
  Boot,       \* sensor -> published value at boot
  NULL        \* no sensor, no reading

Difference(a, b) == IF a < b THEN b - a ELSE a - b

\* The int that was read, kept in 16 bits.
Narrow(s, r) == IF s \in Signed THEN ((r + Half) % (2 * Half)) - Half ELSE r % (2 * Half)

ASSUME SensorsAssumption ==
  /\ IsFiniteSet(Sensor) /\ NULL \notin Sensor
  /\ \A s \in Sensor : Reading[s] \subseteq Int /\ NULL \notin Reading[s]
  /\ Retrying \subseteq Sensor /\ Flagged \subseteq Sensor
  /\ Marker \in [Sensor \ Flagged -> Int]
  /\ Half \in Nat \ {0}
  /\ Preset \in [Sensor -> Int] /\ \A s \in Sensor : Thresholds[s] \subseteq Int
  /\ Working \subseteq SUBSET Sensor
  /\ Boot \in [Sensor -> Int]
  /\ \A s \in Sensor \ Flagged : Boot[s] = Marker[s]
  /\ Paired \subseteq Sensor /\ Unless \subseteq Paired
  /\ DOMAIN Derived = Paired /\ \A s \in Paired : DOMAIN Derived[s] = Reading[s]

\* The threads that read sensors.
Reader == {"queue", "shell"}
Readings  == UNION {Reading[s] : s \in Sensor}
Beside(s) == {Derived[s][r] : r \in Reading[s]}

VARIABLES
  working,   \* the leaves whose init callbacks succeeded
  ok,        \* the sensors whose VALUE_OK is true
  threshold, \* sensor -> its setting of the difference worth publishing
  delayed,   \* the items waiting for their interval to pass
  submitted, \* the items waiting for the system work queue
  at,        \* thread -> "idle", or the next thing it does in a read function
  sensor,    \* thread -> the sensor it reads, or NULL
  val,       \* thread -> what it has read, or NULL
  value,     \* sensor -> the reading published
  beside,    \* sensor in Paired -> what is published beside it
  first,     \* sensors whose flag first_reading is set
  halted,    \* a fault has stopped the firmware
  solo,      \* threads whose reading no other one has overlapped (auxiliary)
  failed,    \* those not in Retrying whose last reading by the item failed (auxiliary)
  cleared,   \* sensors whose VALUE_OK was cleared since they were started (auxiliary)
  last,      \* sensor -> the last reading that was compared (auxiliary)
  margin,    \* sensor -> the threshold it was compared with (auxiliary)
  torn,      \* those in Paired whose values were published by overlapping readings (auxiliary)
  stale      \* the same, and not read by one alone since (auxiliary)

settings  == <<working, ok, threshold, cleared>>
work      == <<delayed, submitted, halted>>
published == <<value, beside>>
compared  == <<first, last, margin>>
reader    == <<at, sensor, val, solo>>
mixed     == <<torn, stale>>
sensorsVars == <<settings, work, published, compared, reader, mixed, failed>>

SensorsTypeOK ==
  /\ working \subseteq Sensor /\ ok \subseteq working
  /\ threshold \in [Sensor -> Int] /\ margin \in [Sensor -> Int]
  /\ halted  \in BOOLEAN
  /\ delayed \subseteq Sensor
  /\ submitted \in Seq(Sensor)
  /\ at      \in [Reader -> {"idle", "fetch", "store", "beside", "schedule"}]
  /\ sensor  \in [Reader -> Sensor \cup {NULL}]
  /\ val     \in [Reader -> Readings \cup {NULL}]
  /\ value   \in [Sensor -> Int]
  /\ DOMAIN beside = Paired /\ \A s \in Paired : beside[s] \in Beside(s) \cup {NULL}
  /\ first   \subseteq Flagged
  /\ solo    \subseteq Reader
  /\ failed  \subseteq Sensor /\ cleared \subseteq Sensor
  /\ last    \in [Sensor -> Readings \cup {NULL}]
  /\ torn    \subseteq Paired
  /\ stale   \subseteq Sensor

\* The values and settings as they are linked, with nothing published.
LinkedValues ==
  /\ value = Boot /\ beside = [s \in Paired |-> NULL]
  /\ first = Flagged
  /\ threshold = Preset /\ margin = threshold

\* An init callback sets VALUE_OK when it finds its device.
InitLeaves == working \in Working /\ ok = working /\ cleared = {}

\* The leaves that are ready were started, which schedules their items at once, in
\* the linker's order.
SensorsInit ==
  /\ LinkedValues /\ InitLeaves
  /\ delayed = ok /\ submitted = << >> /\ halted = FALSE
  /\ at = [t \in Reader |-> "idle"]
  /\ sensor = [t \in Reader |-> NULL] /\ val = sensor
  /\ solo = {} /\ failed = {} /\ last = [s \in Sensor |-> NULL] /\ torn = {} /\ stale = {}

Reads(t, s) == sensor[t] = s
Pending(s)  == s \in delayed \/ Queued(submitted, s)

-----------------------------------------------------------------------------
(* Settings and values that the shell's commands write.                    *)

\* (One whose device is missing sets nothing that is ever read.)
SetThreshold(s) ==
  /\ ~halted /\ s \in working /\ at["shell"] = "idle"
  /\ \E h \in Thresholds[s] : threshold' = [threshold EXCEPT ![s] = h]
  /\ UNCHANGED <<working, ok, cleared, work, published, compared, reader, mixed, failed>>

\* "ztacx value set" on VALUE_OK, which is a value like any other.
ClearOk(s) ==
  /\ ~halted /\ s \in ok /\ at["shell"] = "idle"
  /\ ok' = ok \ {s} /\ cleared' = cleared \cup {s}
  /\ UNCHANGED <<working, threshold, work, published, compared, reader, mixed, failed>>

SetOk(s) ==
  /\ ~halted /\ s \in working /\ at["shell"] = "idle"
  /\ ok' = ok \cup {s}
  /\ UNCHANGED <<working, threshold, cleared, work, published, compared, reader, mixed, failed>>

-----------------------------------------------------------------------------
(* The read functions, step by step, in thread t.                          *)

Overlaps(t, s) == \E u \in Reader \ {t} : Reads(u, s)

\* Entering the function: what two threads publish at once may come out mixed.
Enter(t, s) ==
  /\ at'     = [at EXCEPT ![t] = "fetch"]
  /\ sensor' = [sensor EXCEPT ![t] = s]
  /\ IF Overlaps(t, s)
     THEN solo' = {} /\ torn' = torn \cup ({s} \cap Paired) /\ stale' = stale \cup {s}
     ELSE solo' = solo \cup {t} /\ UNCHANGED mixed
  /\ UNCHANGED <<settings, val, published, compared, failed, halted>>

IntervalPasses(s) ==
  /\ ~halted /\ s \in delayed
  /\ delayed' = delayed \ {s}
  /\ submitted' = Submit(submitted, s)
  /\ UNCHANGED <<settings, halted, published, compared, reader, mixed, failed>>

\* The work queue's thread takes the next item ...
WorkStart ==
  /\ ~halted /\ at["queue"] = "idle"
  /\ submitted # << >> /\ Head(submitted) \in ok
  /\ submitted' = Tail(submitted) /\ UNCHANGED delayed
  /\ Enter("queue", Head(submitted))

\* ... whose handler returns at once, without scheduling it again, when VALUE_OK is
\* false.
WorkReturns ==
  /\ ~halted /\ at["queue"] = "idle"
  /\ submitted # << >> /\ Head(submitted) \notin ok
  /\ submitted' = Tail(submitted)
  /\ UNCHANGED <<settings, delayed, halted, published, compared, reader, mixed, failed>>

\* "battery", "temp", "lux", "lidar".
Command(s) ==
  /\ ~halted /\ s \in ok
  /\ at["shell"] = "idle"
  /\ Enter("shell", s)
  /\ UNCHANGED <<delayed, submitted>>

Leave(t) ==
  /\ at'     = [at EXCEPT ![t] = "idle"]
  /\ sensor' = [sensor EXCEPT ![t] = NULL]
  /\ val'    = [val EXCEPT ![t] = NULL]
  /\ solo'   = solo \ {t}

\* A failed reading: the battery goes on to schedule the next one, the others
\* return at once.  Broken variant: the battery returns too.
GivesUp(t) ==
  /\ at[t] = "fetch"
  /\ Leave(t)
  /\ failed' = IF t = "queue" THEN failed \cup {sensor[t]} ELSE failed
  /\ UNCHANGED <<settings, work, published, compared, mixed>>

FetchFailed(t) ==
  /\ at[t] = "fetch"
  /\ IF sensor[t] \in Retrying
     THEN at' = [at EXCEPT ![t] = "schedule"] /\ UNCHANGED <<sensor, val, solo, failed>>
     ELSE Leave(t) /\ failed' = IF t = "queue" THEN failed \cup {sensor[t]} ELSE failed
  /\ UNCHANGED <<settings, work, published, compared, mixed>>

IsFirst(s) == IF s \in Flagged THEN s \in first ELSE value[s] = Marker[s]

\* Worth publishing: the first, or far enough from what was published.  Broken
\* variant: far means farther than the threshold.
FarFrom(s, r)         == Difference(r, value[s]) > threshold[s]
WorthPublishing(s, r) == Difference(r, value[s]) >= threshold[s]

\* A reading that succeeds is compared at once.
Fetched(t) ==
  LET s == sensor[t]
  IN  /\ at[t] = "fetch"
      /\ \E r \in Reading[s] :
           /\ val' = [val EXCEPT ![t] = r]
           /\ at'  = [at EXCEPT ![t] = IF IsFirst(s) \/ WorthPublishing(s, r) THEN "store" ELSE "schedule"]
           /\ last' = [last EXCEPT ![s] = r]
      /\ margin' = [margin EXCEPT ![s] = threshold[s]]
      /\ first' = first \ {s}
      /\ stale' = IF t \in solo THEN stale \ {s} ELSE stale
      /\ UNCHANGED <<settings, work, published, sensor, solo, failed, torn>>

Store(t) ==
  /\ at[t] = "store"
  /\ value' = [value EXCEPT ![sensor[t]] = Narrow(sensor[t], val[t])]
  /\ at'    = [at EXCEPT ![t] = IF sensor[t] \in Paired THEN "beside" ELSE "schedule"]
  /\ UNCHANGED <<settings, work, beside, compared, sensor, val, solo, mixed, failed>>

\* The percentage is stored with every reading published, the detection when it
\* has changed.  Broken variant: the percentage belongs to the reading before.
BesideOld(t) ==
  LET s == sensor[t]
  IN  /\ at[t] = "beside"
      /\ beside' = [beside EXCEPT ![s] = IF @ = NULL THEN Derived[s][val[t]] ELSE @]
      /\ torn'   = IF t \in solo THEN torn \ {s} ELSE torn
      /\ at'     = [at EXCEPT ![t] = "schedule"]
      /\ UNCHANGED <<settings, work, value, compared, sensor, val, solo, failed, stale>>

StoreBeside(t) ==
  LET s == sensor[t]
  IN  /\ at[t] = "beside"
      /\ beside' = IF s \in Unless /\ beside[s] = Derived[s][val[t]] THEN beside
                   ELSE [beside EXCEPT ![s] = Derived[s][val[t]]]
      /\ torn'   = IF t \in solo THEN torn \ {s} ELSE torn
      /\ at'     = [at EXCEPT ![t] = "schedule"]
      /\ UNCHANGED <<settings, work, value, compared, sensor, val, solo, failed, stale>>

\* Only the work item, which is passed to its handler, is scheduled again.
Schedule(t) ==
  /\ at[t] = "schedule"
  /\ Leave(t)
  /\ IF t = "queue"
     THEN delayed' = delayed \cup {sensor[t]}
     ELSE UNCHANGED delayed
  /\ failed' = IF t = "queue" THEN failed \ {sensor[t]} ELSE failed
  /\ UNCHANGED <<settings, submitted, halted, published, compared, mixed>>

\* "ztacx start" sets the item up afresh and submits it.  If the kernel holds it in
\* one of its lists, that is undefined: here a fault, or as if it had not been there.
StartAgain(s) ==
  /\ ~halted /\ s \in working
  /\ at["shell"] = "idle"
  /\ halted' \in IF Pending(s) THEN BOOLEAN ELSE {FALSE}
  /\ delayed' = delayed \ {s} /\ submitted' = Submit(submitted, s)
  /\ failed' = failed \ {s} /\ cleared' = IF s \in ok THEN cleared \ {s} ELSE cleared
  /\ UNCHANGED <<working, ok, threshold, published, compared, reader, mixed>>

-----------------------------------------------------------------------------
ReadStep(t) ==
  /\ ~halted
  /\ Fetched(t) \/ FetchFailed(t) \/ Store(t) \/ StoreBeside(t) \/ Schedule(t)

SensorsNext ==
  \/ WorkStart \/ WorkReturns
  \/ \E t \in Reader : ReadStep(t)
  \/ \E s \in Sensor :
       \/ IntervalPasses(s) \/ Command(s) \/ StartAgain(s)
       \/ SetThreshold(s) \/ ClearOk(s) \/ SetOk(s)

SensorsSpec == SensorsInit /\ [][SensorsNext]_sensorsVars

\* Intervals pass, the work queue serves its items, a device answers or fails.
SensorsFairSpec ==
  /\ SensorsSpec
  /\ \A s \in Sensor : WF_sensorsVars(IntervalPasses(s))
  /\ WF_sensorsVars(WorkStart \/ WorkReturns) /\ \A t \in Reader : WF_sensorsVars(ReadStep(t))

-----------------------------------------------------------------------------
(* Properties.                                                             *)

\* A sensor falls silent only after a failed reading, and only one that does not
\* schedule the next reading then, or when its VALUE_OK has been cleared since it was
\* started: in every other case its item is pending or at work.
OnlyFailureSilences ==
  \A s \in working :
    ~Pending(s) /\ ~Reads("queue", s) => s \in failed \ Retrying \/ s \in cleared

Unread(s) == \A t \in Reader : ~Reads(t, s)

\* When nobody is reading, what is published is what was read last, kept in 16 bits, or
\* within the threshold of it, as the setting was when it was compared: unless two
\* readings overlapped, and nobody has read alone since.
PublishedIsClose ==
  \A s \in Sensor :
    last[s] # NULL /\ s \notin stale /\ Unread(s)
      => value[s] = Narrow(s, last[s]) \/ Difference(last[s], value[s]) < margin[s]

\* The percentage, or the detection, belongs to the reading it is published beside,
\* unless the values of two readings that overlapped were published.
PairsAgree ==
  \A s \in Paired :
    last[s] # NULL /\ s \notin torn /\ Unread(s)
      => \E r \in Reading[s] : value[s] = Narrow(s, r) /\ beside[s] = Derived[s][r]

\* A sensor that schedules the next reading after a failed one is read again and
\* again, however often it or the others fail, whatever commands are typed: unless its
\* VALUE_OK is cleared, or the firmware faults.
NeverSilent ==
  \A s \in Retrying : []<>(halted \/ s \in cleared \/ s \notin working \/ Reads("queue", s))

=============================================================================
