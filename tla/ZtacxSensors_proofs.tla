------------------------ MODULE ZtacxSensors_proofs -------------------------
(***************************************************************************)
(* Proofs about the sensors, for any levels, readings and thresholds.      *)
(*                                                                         *)
(* ZtacxSensors: type correctness; that only a failed reading, or a        *)
(* cleared VALUE_OK, silences a sensor; that what is published is close to *)
(* what was read last, or that in 16 bits, and the second value belongs to *)
(* it, unless two readings overlapped.                                     *)
(*                                                                         *)
(* ShockAlert: type correctness; that the LED shows the alert whenever     *)
(* nothing is in progress.                                                 *)
(***************************************************************************)
EXTENDS ZtacxSensors, ShockAlert, Common_proofs

-----------------------------------------------------------------------------
(* The periodic sensors.                                                   *)

\* What a thread holds at each place of a read function.
Holds(t) ==
  /\ sensor[t] = NULL <=> at[t] = "idle"
  /\ val[t] # NULL => val[t] \in Reading[sensor[t]]
  /\ at[t] \in {"idle", "fetch"} => val[t] = NULL
  /\ at[t] \in {"store", "beside"} => val[t] # NULL
  /\ at[t] = "beside" => sensor[t] \in Paired

SensorsTyped == SensorsTypeOK /\ \A t \in Reader : Holds(t)

\* The int kept in 16 bits is one.
LEMMA NarrowTyped ==
  ASSUME NEW s \in Sensor, NEW r \in Int
  PROVE  Narrow(s, r) \in Int
<1>1. Half \in Nat \ {0}
  BY SensorsAssumption
<1> DEFINE m == 2 * Half
<1>2. m \in Nat \ {0}
  BY <1>1
<1>3. r % m \in Int /\ (r + Half) % m \in Int
  <2> HIDE DEF m
  <2>1. \A i \in Int : i % m \in Int
    BY <1>2
  <2>2. r + Half \in Int
    BY <1>1
  <2>3. QED
    BY <2>1, <2>2
<1>4. QED
  BY <1>1, <1>3 DEF Narrow

\* Every variable of the sensors keeps its type, and whoever stores a reading has one
\* of the sensor it reads.
THEOREM SensorsTypes == SensorsSpec => []SensorsTyped
<1>1. SensorsInit => SensorsTyped
  <2> SUFFICES ASSUME SensorsInit
               PROVE  SensorsTyped
    OBVIOUS
  <2>1. working \subseteq Sensor /\ ok = working /\ delayed = ok /\ cleared = {}
    BY SensorsAssumption DEF SensorsInit, InitLeaves
  <2>2. SensorsTypeOK
    <3>1. submitted \in Seq(Sensor) /\ solo \subseteq Reader /\ failed = {} /\ torn = {} /\ stale = {}
      BY DEF SensorsInit
    <3>2. value \in [Sensor -> Int] /\ threshold \in [Sensor -> Int] /\ margin = threshold /\ first = Flagged
      BY SensorsAssumption DEF SensorsInit, LinkedValues
    <3>3. beside = [s \in Paired |-> NULL]
      BY DEF SensorsInit, LinkedValues
    <3>4. at = [t \in Reader |-> "idle"] /\ sensor = [t \in Reader |-> NULL] /\ val = sensor
      BY DEF SensorsInit
    <3>5. halted = FALSE /\ last = [s \in Sensor |-> NULL]
      BY DEF SensorsInit
    <3>6. QED
      BY <2>1, <3>1, <3>2, <3>3, <3>4, <3>5 DEF SensorsTypeOK
  <2>3. QED
    BY <2>2 DEF SensorsInit, SensorsTyped, Holds
<1>2. SensorsTyped /\ [SensorsNext]_sensorsVars => SensorsTyped'
  <2> SUFFICES ASSUME SensorsTyped, [SensorsNext]_sensorsVars
               PROVE  SensorsTyped'
    OBVIOUS
  <2>0. /\ NULL \notin Sensor
        /\ \A s \in Sensor : Reading[s] \subseteq Int /\ NULL \notin Reading[s] /\ Reading[s] \subseteq Readings
        /\ \A s \in Paired : \A r \in Reading[s] : Derived[s][r] \in Beside(s)
        /\ Paired \subseteq Sensor
        /\ \A s \in Sensor : Thresholds[s] \subseteq Int
    BY SensorsAssumption DEF Readings, Beside
  <2> USE DEF SensorsTyped, SensorsTypeOK, Holds
  \* A step of thread t leaves what the other holds.
  <2>1. ASSUME NEW t \in Reader, NEW s \in Sensor, at[t] = "idle", Enter(t, s), submitted' \in Seq(Sensor), UNCHANGED delayed
        PROVE  SensorsTyped'
    <3>1. at' \in [Reader -> {"idle", "fetch", "store", "beside", "schedule"}]
          /\ sensor' \in [Reader -> Sensor \cup {NULL}]
      BY <2>1 DEF Enter
    <3>2. solo' \subseteq Reader /\ torn' \subseteq Paired /\ stale' \subseteq Sensor
      BY <2>1 DEF Enter, mixed
    <3>3. ASSUME NEW u \in Reader
          PROVE  Holds(u)'
      BY <2>0, <2>1 DEF Enter
    <3>4. QED
      BY <2>1, <3>1, <3>2, <3>3 DEF Enter, settings, published, compared
  <2>2. ASSUME NEW s \in Sensor, IntervalPasses(s)
        PROVE  SensorsTyped'
    BY <2>2, SubmitQueued DEF IntervalPasses, settings, published, compared, reader, mixed
  <2>3. CASE WorkStart
    <3>1. Head(submitted) \in Sensor /\ Tail(submitted) \in Seq(Sensor)
      BY <2>3 DEF WorkStart
    <3>2. QED
      BY <2>1, <2>3, <3>1 DEF WorkStart, Reader
  <2>4. ASSUME NEW s \in Sensor, Command(s)
        PROVE  SensorsTyped'
    BY <2>1, <2>4 DEF Command, Reader
  <2>5. ASSUME NEW t \in Reader, FetchFailed(t)
        PROVE  SensorsTyped'
    <3>1. failed' \subseteq Sensor /\ UNCHANGED <<settings, work, published, compared, mixed>>
      BY <2>5 DEF FetchFailed
    <3> USE DEF settings, work, published, compared, mixed
    <3>2. CASE sensor[t] \in Retrying
      BY <2>5, <3>1, <3>2 DEF FetchFailed
    <3>3. CASE sensor[t] \notin Retrying
      BY <2>5, <3>1, <3>3 DEF FetchFailed, Leave
    <3>4. QED
      BY <3>2, <3>3
  <2>6. ASSUME NEW t \in Reader, Fetched(t)
        PROVE  SensorsTyped'
    BY <2>0, <2>6 DEF Fetched, settings, work, published
  <2>7. ASSUME NEW t \in Reader, Store(t)
        PROVE  SensorsTyped'
    <3>1. Narrow(sensor[t], val[t]) \in Int
      BY <2>0, <2>7, NarrowTyped DEF Store
    <3>2. QED
      BY <2>0, <2>7, <3>1 DEF Store, settings, work, compared, mixed
  <2>8. ASSUME NEW t \in Reader, StoreBeside(t)
        PROVE  SensorsTyped'
    BY <2>0, <2>8 DEF StoreBeside, settings, work, compared
  <2>9. ASSUME NEW t \in Reader, Schedule(t)
        PROVE  SensorsTyped'
    BY <2>9 DEF Schedule, Leave, settings, published, compared, mixed
  <2>10. ASSUME NEW s \in Sensor, StartAgain(s)
         PROVE  SensorsTyped'
    <3>1. submitted' \in Seq(Sensor)
      BY <2>10, SubmitQueued DEF StartAgain
    <3>2. halted' \in BOOLEAN
      BY <2>10 DEF StartAgain
    <3>3. QED
      BY <2>10, <3>1, <3>2 DEF StartAgain, published, compared, reader, mixed
  <2>11. CASE WorkReturns
    BY <2>11 DEF WorkReturns, settings, published, compared, reader, mixed
  <2>12. ASSUME NEW s \in Sensor, SetThreshold(s)
         PROVE  SensorsTyped'
    BY <2>0, <2>12 DEF SetThreshold, work, published, compared, reader, mixed
  <2>13. ASSUME NEW s \in Sensor, ClearOk(s) \/ SetOk(s)
         PROVE  SensorsTyped'
    BY <2>13 DEF ClearOk, SetOk, work, published, compared, reader, mixed
  <2>14. CASE UNCHANGED sensorsVars
    BY <2>14 DEF sensorsVars, settings, work, published, compared, reader, mixed
  <2>15. QED
    BY <2>2, <2>3, <2>4, <2>5, <2>6, <2>7, <2>8, <2>9, <2>10, <2>11, <2>12, <2>13, <2>14
    DEF SensorsNext, ReadStep
<1>3. QED
  BY <1>1, <1>2, PTL DEF SensorsSpec

-----------------------------------------------------------------------------
\* Whose VALUE_OK is false has had it cleared since it was started.
NotOkIsCleared == working \ ok \subseteq cleared

\* A sensor falls silent only after a failed reading, and only one whose handler
\* returns then, or once its VALUE_OK is cleared (the handlers of battery, temp, lux and
\* lidar, and "ztacx start" and "ztacx value set").
THEOREM OnlyFailuresSilence == SensorsSpec => []OnlyFailureSilences
<1> DEFINE Inv == OnlyFailureSilences /\ NotOkIsCleared
<1>1. SensorsInit => Inv
  BY DEF SensorsInit, InitLeaves, OnlyFailureSilences, NotOkIsCleared, Pending
<1>2. SensorsTyped /\ Inv /\ [SensorsNext]_sensorsVars => Inv'
  <2> SUFFICES ASSUME SensorsTyped, Inv, [SensorsNext]_sensorsVars
               PROVE  Inv'
    OBVIOUS
  <2>0. /\ submitted \in Seq(Sensor) /\ ok \subseteq Sensor /\ working \subseteq Sensor
        /\ sensor \in [Reader -> Sensor \cup {NULL}]
    BY DEF SensorsTyped, SensorsTypeOK
  <2> USE DEF OnlyFailureSilences, NotOkIsCleared
  \* A step that keeps what is set, what is pending and what the work queue reads.
  <2>1. ASSUME UNCHANGED <<working, ok, cleared>>, failed \subseteq failed', sensor'["queue"] = sensor["queue"],
               delayed' = delayed, \A s \in Sensor : Queued(submitted, s) => Queued(submitted', s)
        PROVE  Inv'
    BY <2>0, <2>1 DEF Pending, Reads
  <2>2. ASSUME NEW s \in Sensor, IntervalPasses(s)
        PROVE  Inv'
    BY <2>0, <2>2, SubmitQueued DEF IntervalPasses, settings, reader, Pending, Reads
  \* The work queue's thread takes the next item.
  <2>3. ASSUME at["queue"] = "idle", submitted # << >>, submitted' = Tail(submitted),
               UNCHANGED <<working, ok, cleared, delayed, failed>>,
               sensor'["queue"] = Head(submitted) \/ (Head(submitted) \notin ok /\ sensor' = sensor)
        PROVE  Inv'
    <3>1. /\ Head(submitted) \in Sensor
          /\ \A s \in Sensor : Queued(submitted, s) => Queued(submitted', s) \/ s = Head(submitted)
      BY <2>0, <2>3, TailQueued
    <3>2. sensor["queue"] = NULL
      BY <2>3 DEF SensorsTyped, Holds, Reader
    <3>3. QED
      BY <2>0, <2>3, <3>1, <3>2, SensorsAssumption DEF Pending, Reads
  <2>4. CASE WorkStart
    <3>1. sensor'["queue"] = Head(submitted) /\ UNCHANGED <<settings, delayed, failed>>
      BY <2>0, <2>4 DEF WorkStart, Enter, Reader
    <3>2. QED
      BY <2>3, <2>4, <3>1 DEF WorkStart, settings
  <2>5. CASE WorkReturns
    BY <2>3, <2>5 DEF WorkReturns, settings, reader
  <2>6. ASSUME NEW s \in Sensor, Command(s)
        PROVE  Inv'
    BY <2>0, <2>1, <2>6 DEF Command, Enter, settings, Reader
  <2>7. ASSUME NEW t \in Reader, FetchFailed(t)
        PROVE  Inv'
    <3>1. CASE sensor[t] \in Retrying
      BY <2>0, <2>1, <2>7, <3>1 DEF FetchFailed, settings, work
    <3>2. CASE sensor[t] \notin Retrying
      <4>1. /\ UNCHANGED <<settings, work>> /\ sensor' = [sensor EXCEPT ![t] = NULL]
            /\ failed' = IF t = "queue" THEN failed \cup {sensor[t]} ELSE failed
        BY <2>7, <3>2 DEF FetchFailed, Leave
      <4>2. CASE t = "queue"
        BY <2>0, <3>2, <4>1, <4>2 DEF settings, work, Pending, Reads
      <4>3. CASE t # "queue"
        BY <2>0, <2>1, <4>1, <4>3 DEF settings, work
      <4>4. QED
        BY <4>2, <4>3
    <3>3. QED
      BY <3>1, <3>2
  <2>8. ASSUME NEW t \in Reader, Fetched(t) \/ Store(t) \/ StoreBeside(t)
        PROVE  Inv'
    BY <2>1, <2>8 DEF Fetched, Store, StoreBeside, settings, work
  <2>9. ASSUME NEW t \in Reader, Schedule(t)
        PROVE  Inv'
    <3>1. CASE t = "queue"
      <4>1. /\ delayed' = delayed \cup {sensor[t]} /\ UNCHANGED <<settings, submitted>>
            /\ failed \ {sensor[t]} \subseteq failed' /\ sensor' = [sensor EXCEPT ![t] = NULL]
        BY <2>9, <3>1 DEF Schedule, Leave
      <4>2. QED
        BY <2>0, <3>1, <4>1 DEF settings, Pending, Reads
    <3>2. CASE t # "queue"
      BY <2>0, <2>1, <2>9, <3>2 DEF Schedule, Leave, settings
    <3>3. QED
      BY <3>1, <3>2
  <2>10. ASSUME NEW s \in Sensor, StartAgain(s)
         PROVE  Inv'
    <3>1. /\ \A x \in Sensor : Queued(submitted, x) => Queued(submitted', x)
          /\ Queued(submitted', s)
      BY <2>0, <2>10, SubmitQueued DEF StartAgain
    <3>2. QED
      BY <2>0, <2>10, <3>1 DEF StartAgain, reader, Pending, Reads
  <2>11. ASSUME NEW s \in Sensor, SetThreshold(s) \/ ClearOk(s) \/ SetOk(s)
         PROVE  Inv'
    BY <2>0, <2>11 DEF SetThreshold, ClearOk, SetOk, work, reader, Pending, Reads
  <2>12. CASE UNCHANGED sensorsVars
    BY <2>12 DEF sensorsVars, settings, work, reader, Pending, Reads
  <2>13. QED
    BY <2>2, <2>4, <2>5, <2>6, <2>7, <2>8, <2>9, <2>10, <2>11, <2>12 DEF SensorsNext, ReadStep
<1>3. QED
  BY <1>1, <1>2, SensorsTypes, PTL DEF SensorsSpec

-----------------------------------------------------------------------------
(* Two readings of one sensor may overlap.                                 *)

\* A thread that reads alone is the only one at its sensor; one that does not has
\* made its sensor's values doubtful.
Alone ==
  /\ \A t \in solo : sensor[t] # NULL /\ \A u \in Reader \ {t} : sensor[u] # sensor[t]
  /\ \A t \in Reader \ solo : sensor[t] # NULL => sensor[t] \in stale /\ sensor[t] \in torn \cup (Sensor \ Paired)

\* What a thread on its way to publish relies on.
Midway(t) ==
  LET s == sensor[t]
  IN  /\ at[t] = "store"  => last[s] # NULL /\ (t \in solo => last[s] = val[t])
      /\ at[t] = "beside" => last[s] # NULL /\ (t \in solo => value[s] = Narrow(s, val[t]))

Close(s) ==
  last[s] # NULL => value[s] = Narrow(s, last[s]) \/ Difference(last[s], value[s]) < margin[s]
Agree(s) ==
  last[s] # NULL => \E r \in Reading[s] : value[s] = Narrow(s, r) /\ beside[s] = Derived[s][r]

\* A sensor's values may be off only while its reading is being stored, or after
\* two readings overlapped; before the first reading the next one is the first.
ReadingsHold ==
  /\ Alone
  /\ \A t \in Reader : Midway(t)
  /\ \A s \in Sensor : last[s] = NULL => IsFirst(s)
  /\ \A s \in Sensor \ stale :
       (\A t \in Reader : Reads(t, s) => at[t] # "store") => Close(s)
  /\ \A s \in Paired \ torn :
       (\A t \in Reader : Reads(t, s) => at[t] \notin {"store", "beside"}) => Agree(s)

\* It holds in every reachable state, whoever reads meanwhile (the read functions of
\* battery, temp, lux and lidar, by the work queue and by the shell).
THEOREM ReadingsAreHeld == SensorsSpec => []ReadingsHold
<1>1. SensorsInit => ReadingsHold
  BY SensorsAssumption DEF SensorsInit, LinkedValues, ReadingsHold, Alone, Midway, Close, Agree, IsFirst
<1>2. SensorsTyped /\ ReadingsHold /\ [SensorsNext]_sensorsVars => ReadingsHold'
  <2> SUFFICES ASSUME SensorsTyped, ReadingsHold, [SensorsNext]_sensorsVars
               PROVE  ReadingsHold'
    OBVIOUS
  <2>0. /\ NULL \notin Sensor /\ Paired \subseteq Sensor
        /\ \A s \in Sensor : Reading[s] \subseteq Int /\ NULL \notin Reading[s]
        /\ \A s \in Sensor : threshold[s] \in Int
    BY SensorsAssumption DEF SensorsTyped, SensorsTypeOK
  <2> USE DEF SensorsTyped, SensorsTypeOK, Holds
  <2>1. ASSUME NEW t \in Reader, NEW s \in Sensor, at[t] = "idle", Enter(t, s)
        PROVE  ReadingsHold'
    <3>1. /\ at' = [at EXCEPT ![t] = "fetch"] /\ sensor' = [sensor EXCEPT ![t] = s]
          /\ UNCHANGED <<val, value, beside, first, last, margin>>
          /\ stale \subseteq stale' /\ torn \subseteq torn'
      BY <2>1 DEF Enter, published, compared, mixed
    <3>2. sensor[t] = NULL
      BY <2>1
    <3>3. Alone'
      <4>1. sensor'[t] = s /\ \A u \in Reader \ {t} : sensor'[u] = sensor[u]
        BY <3>1
      <4>2. CASE Overlaps(t, s)
        <5>1. PICK u \in Reader \ {t} : sensor[u] = s
          BY <4>2 DEF Overlaps, Reads
        <5>2. \A v \in Reader : v = t \/ v = u
          BY DEF Reader
        <5>3. solo' = {} /\ s \in stale' /\ s \in torn' \cup (Sensor \ Paired)
          BY <2>1, <4>2 DEF Enter
        <5>4. QED
          BY <4>1, <5>1, <5>2, <5>3 DEF Alone
      <4>3. CASE ~Overlaps(t, s)
        <5>1. solo' = solo \cup {t} /\ UNCHANGED <<torn, stale>>
          BY <2>1, <4>3 DEF Enter, mixed
        <5>2. \A u \in Reader \ {t} : sensor[u] # s
          BY <4>3 DEF Overlaps, Reads
        <5>3. QED
          BY <2>0, <4>1, <5>1, <5>2, <3>2 DEF ReadingsHold, Alone
      <4>4. QED
        BY <4>2, <4>3
    <3>4. ASSUME NEW u \in Reader
          PROVE  Midway(u)'
      <4>1. CASE u = t
        BY <3>1, <4>1 DEF Midway
      <4>2. CASE u # t
        <5>1. at'[u] = at[u] /\ sensor'[u] = sensor[u] /\ (u \in solo' => u \in solo)
          BY <2>1, <3>1, <4>2 DEF Enter
        <5>2. QED
          BY <3>1, <5>1 DEF ReadingsHold, Midway
      <4>3. QED
        BY <4>1, <4>2
    <3>5. \A x \in Sensor : last'[x] = NULL => IsFirst(x)'
      BY <3>1 DEF ReadingsHold, IsFirst
    <3>6. ASSUME NEW x \in Sensor \ stale', \A u \in Reader : Reads(u, x)' => at'[u] # "store"
          PROVE  Close(x)'
      BY <2>0, <3>1, <3>2, <3>6 DEF ReadingsHold, Close, Reads
    <3>7. ASSUME NEW x \in Paired \ torn', \A u \in Reader : Reads(u, x)' => at'[u] \notin {"store", "beside"}
          PROVE  Agree(x)'
      <4>1. ASSUME NEW u \in Reader, Reads(u, x)
            PROVE  at[u] \notin {"store", "beside"}
        <5>1. u # t
          BY <2>0, <3>2, <4>1 DEF Reads
        <5>2. sensor'[u] = sensor[u] /\ at'[u] = at[u]
          BY <3>1, <5>1
        <5>3. QED
          BY <3>7, <4>1, <5>2 DEF Reads
      <4>2. Agree(x)
        BY <3>1, <3>7, <4>1 DEF ReadingsHold
      <4>3. QED
        BY <3>1, <4>2 DEF Agree
    <3>8. QED
      BY <3>3, <3>4, <3>5, <3>6, <3>7 DEF ReadingsHold, Reads
  \* Leaving the function, having stored all.
  <2>2. ASSUME NEW t \in Reader, at[t] \in {"fetch", "schedule"}, Leave(t),
               UNCHANGED <<value, beside, first, last, margin, torn, stale>>
        PROVE  ReadingsHold'
    <3>1. /\ at' = [at EXCEPT ![t] = "idle"] /\ sensor' = [sensor EXCEPT ![t] = NULL]
          /\ val' = [val EXCEPT ![t] = NULL] /\ solo' = solo \ {t}
      BY <2>2 DEF Leave
    <3>2. Alone'
      BY <2>0, <2>2, <3>1 DEF ReadingsHold, Alone
    <3>3. \A u \in Reader : Midway(u)'
      BY <2>2, <3>1 DEF ReadingsHold, Midway
    <3>4. \A x \in Sensor : last'[x] = NULL => IsFirst(x)'
      BY <2>2 DEF ReadingsHold, IsFirst
    <3>5. ASSUME NEW x \in Sensor \ stale', \A u \in Reader : Reads(u, x)' => at'[u] # "store"
          PROVE  Close(x)'
      BY <2>0, <2>2, <3>1, <3>5 DEF ReadingsHold, Close, Reads
    <3>6. ASSUME NEW x \in Paired \ torn', \A u \in Reader : Reads(u, x)' => at'[u] \notin {"store", "beside"}
          PROVE  Agree(x)'
      BY <2>0, <2>2, <3>1, <3>6 DEF ReadingsHold, Agree, Reads
    <3>7. QED
      BY <3>2, <3>3, <3>4, <3>5, <3>6 DEF ReadingsHold, Reads
  \* A step that none of this is about.
  <2>3. ASSUME UNCHANGED <<at, sensor, val, value, beside, first, solo, last, margin, torn, stale>>
        PROVE  ReadingsHold'
    BY <2>3 DEF ReadingsHold, Alone, Midway, IsFirst, Close, Agree, Reads
  <2>4. ASSUME NEW t \in Reader, FetchFailed(t)
        PROVE  ReadingsHold'
    <3>1. CASE sensor[t] \in Retrying
      <4>1. at[t] = "fetch" /\ at' = [at EXCEPT ![t] = "schedule"]
            /\ UNCHANGED <<sensor, val, value, beside, first, solo, last, margin, torn, stale>>
        BY <2>4, <3>1 DEF FetchFailed, published, compared, mixed
      <4>2. /\ \A u \in Reader : at'[u] = "store" <=> at[u] = "store"
            /\ \A u \in Reader : at'[u] = "beside" <=> at[u] = "beside"
        BY <4>1
      <4> HIDE DEF SensorsTyped
      <4>3. Alone' /\ (\A u \in Reader : Midway(u)') /\ (\A x \in Sensor : last'[x] = NULL => IsFirst(x)')
        BY <4>1, <4>2 DEF ReadingsHold, Alone, Midway, IsFirst
      <4>4. ASSUME NEW x \in Sensor \ stale', \A u \in Reader : Reads(u, x)' => at'[u] # "store"
            PROVE  Close(x)'
        BY <4>1, <4>2, <4>4 DEF ReadingsHold, Close, Reads
      <4>5. ASSUME NEW x \in Paired \ torn', \A u \in Reader : Reads(u, x)' => at'[u] \notin {"store", "beside"}
            PROVE  Agree(x)'
        BY <4>1, <4>2, <4>5 DEF ReadingsHold, Agree, Reads
      <4>6. QED
        BY <4>3, <4>4, <4>5 DEF ReadingsHold, Reads
    <3>2. CASE sensor[t] \notin Retrying
      BY <2>2, <2>4, <3>2 DEF FetchFailed, published, compared, mixed
    <3>3. QED
      BY <3>1, <3>2
  <2>5. ASSUME NEW t \in Reader, Fetched(t)
        PROVE  ReadingsHold'
    <3> DEFINE s == sensor[t]
    <3>1. s \in Sensor /\ at[t] = "fetch"
      BY <2>5 DEF Fetched
    <3>2. PICK r \in Reading[s] :
            /\ val' = [val EXCEPT ![t] = r]
            /\ at'  = [at EXCEPT ![t] = IF IsFirst(s) \/ WorthPublishing(s, r) THEN "store" ELSE "schedule"]
            /\ last' = [last EXCEPT ![s] = r]
      BY <2>5 DEF Fetched
    <3>3. /\ UNCHANGED <<sensor, value, beside, solo, torn>>
          /\ margin' = [margin EXCEPT ![s] = threshold[s]]
          /\ first' = first \ {s}
          /\ stale' = IF t \in solo THEN stale \ {s} ELSE stale
      BY <2>5 DEF Fetched, published
    <3>4. /\ at'[t] \in {"store", "schedule"} /\ val'[t] = r /\ last'[s] = r /\ r # NULL
          /\ \A u \in Reader \ {t} : at'[u] = at[u] /\ val'[u] = val[u]
          /\ \A x \in Sensor \ {s} : last'[x] = last[x]
      BY <2>0, <3>1, <3>2
    <3>5. Alone'
      BY <3>3 DEF ReadingsHold, Alone
    <3>6. ASSUME NEW u \in Reader
          PROVE  Midway(u)'
      <4>1. CASE u = t
        BY <3>3, <3>4, <4>1 DEF Midway
      <4>2. CASE u # t /\ u \in solo
        BY <3>1, <3>3, <3>4, <4>2 DEF ReadingsHold, Alone, Midway
      <4>3. CASE u # t /\ u \notin solo
        BY <3>1, <3>3, <3>4, <4>3 DEF ReadingsHold, Midway
      <4>4. QED
        BY <4>1, <4>2, <4>3
    <3>7. ASSUME NEW x \in Sensor, last'[x] = NULL
          PROVE  IsFirst(x)'
      BY <3>3, <3>4, <3>7 DEF ReadingsHold, IsFirst
    <3>8. ASSUME NEW x \in Sensor \ stale', \A u \in Reader : Reads(u, x)' => at'[u] # "store"
          PROVE  Close(x)'
      <4>1. CASE x = s
        <5>1. ~WorthPublishing(s, r)
          BY <3>1, <3>2, <3>3, <3>8, <4>1 DEF Reads
        <5>2. Difference(r, value[s]) \in Int /\ threshold[s] \in Int
          BY <2>0, <3>1, <3>2 DEF Difference
        <5>3. Difference(r, value[s]) < threshold[s]
          BY <5>1, <5>2 DEF WorthPublishing
        <5>4. margin'[s] = threshold[s] /\ value' = value
          BY <3>1, <3>3
        <5>5. QED
          BY <3>4, <4>1, <5>3, <5>4 DEF Close
      <4>2. CASE x # s
        <5>1. ASSUME NEW u \in Reader, Reads(u, x)
              PROVE  at[u] # "store"
          <6>1. u # t
            BY <4>2, <5>1 DEF Reads
          <6>2. sensor'[u] = sensor[u] /\ at'[u] = at[u]
            BY <3>3, <3>4, <6>1
          <6>3. QED
            BY <3>8, <5>1, <6>2 DEF Reads
        <5>2. x \notin stale /\ last'[x] = last[x] /\ margin'[x] = margin[x]
          BY <3>1, <3>3, <3>4, <3>8, <4>2
        <5>3. Close(x)
          BY <5>1, <5>2 DEF ReadingsHold
        <5>4. QED
          BY <3>3, <5>2, <5>3 DEF Close
      <4>3. QED
        BY <4>1, <4>2
    <3>9. ASSUME NEW x \in Paired \ torn', \A u \in Reader : Reads(u, x)' => at'[u] \notin {"store", "beside"}
          PROVE  Agree(x)'
      <4>1. CASE x = s
        <5>1. ~IsFirst(s)
          BY <3>1, <3>2, <3>3, <3>9, <4>1 DEF Reads
        <5>2. last[s] # NULL /\ s \notin torn
          BY <2>0, <3>3, <3>9, <4>1, <5>1 DEF ReadingsHold
        <5>3. ASSUME NEW u \in Reader, Reads(u, s)
              PROVE  at[u] \notin {"store", "beside"}
          BY <3>1, <3>3, <3>4, <3>9, <4>1, <5>3 DEF Reads
        <5>4. Agree(s)
          BY <3>9, <4>1, <5>2, <5>3 DEF ReadingsHold
        <5>5. QED
          BY <3>1, <3>3, <4>1, <5>2, <5>4 DEF Agree
      <4>2. CASE x # s
        <5>1. ASSUME NEW u \in Reader, Reads(u, x)
              PROVE  at[u] \notin {"store", "beside"}
          <6>1. u # t
            BY <4>2, <5>1 DEF Reads
          <6>2. sensor'[u] = sensor[u] /\ at'[u] = at[u]
            BY <3>3, <3>4, <6>1
          <6>3. QED
            BY <3>9, <5>1, <6>2 DEF Reads
        <5>2. Agree(x)
          BY <3>3, <3>9, <5>1 DEF ReadingsHold
        <5>3. last'[x] = last[x]
          BY <2>0, <3>4, <4>2
        <5>4. QED
          BY <3>3, <5>2, <5>3 DEF Agree
      <4>3. QED
        BY <4>1, <4>2
    <3>10. QED
      BY <3>5, <3>6, <3>7, <3>8, <3>9 DEF ReadingsHold, Reads
  <2>6. ASSUME NEW t \in Reader, Store(t)
        PROVE  ReadingsHold'
    <3> DEFINE s == sensor[t]
    <3>1. s \in Sensor /\ at[t] = "store" /\ val[t] \in Reading[s] /\ last[s] # NULL
      BY <2>6 DEF Store, ReadingsHold, Midway
    <3>2. /\ value' = [value EXCEPT ![s] = Narrow(s, val[t])]
          /\ at'    = [at EXCEPT ![t] = IF s \in Paired THEN "beside" ELSE "schedule"]
          /\ UNCHANGED <<sensor, val, beside, first, solo, last, margin, torn, stale>>
      BY <2>6 DEF Store, compared, mixed
    <3>3. /\ at'[t] = (IF s \in Paired THEN "beside" ELSE "schedule") /\ value'[s] = Narrow(s, val[t])
          /\ \A u \in Reader \ {t} : at'[u] = at[u]
          /\ \A x \in Sensor \ {s} : value'[x] = value[x]
      BY <3>1, <3>2
    <3>4. Alone'
      BY <3>2 DEF ReadingsHold, Alone
    <3>5. ASSUME NEW u \in Reader
          PROVE  Midway(u)'
      <4>1. CASE u = t
        BY <3>1, <3>2, <3>3, <4>1 DEF Midway
      <4>2. CASE u # t /\ u \in solo
        BY <3>1, <3>2, <3>3, <4>2 DEF ReadingsHold, Alone, Midway
      <4>3. CASE u # t /\ u \notin solo
        BY <3>1, <3>2, <3>3, <4>3 DEF ReadingsHold, Midway
      <4>4. QED
        BY <4>1, <4>2, <4>3
    <3>6. ASSUME NEW x \in Sensor, last'[x] = NULL
          PROVE  IsFirst(x)'
      BY <3>1, <3>2, <3>3, <3>6 DEF ReadingsHold, IsFirst
    <3>7. ASSUME NEW x \in Sensor \ stale', \A u \in Reader : Reads(u, x)' => at'[u] # "store"
          PROVE  Close(x)'
      <4>1. CASE x = s
        <5>1. t \in solo
          BY <3>1, <3>2, <3>7, <4>1, <2>0 DEF ReadingsHold, Alone
        <5>2. last[s] = val[t]
          BY <3>1, <5>1 DEF ReadingsHold, Midway
        <5>3. QED
          BY <3>2, <3>3, <4>1, <5>2 DEF Close
      <4>2. CASE x # s
        BY <3>2, <3>3, <3>7, <4>2 DEF ReadingsHold, Close, Reads
      <4>3. QED
        BY <4>1, <4>2
    <3>8. ASSUME NEW x \in Paired \ torn', \A u \in Reader : Reads(u, x)' => at'[u] \notin {"store", "beside"}
          PROVE  Agree(x)'
      <4>1. x # s
        BY <3>2, <3>3, <3>8 DEF Reads
      <4>2. \A u \in Reader : Reads(u, x) => at[u] \notin {"store", "beside"}
        BY <3>2, <3>3, <3>8, <4>1 DEF Reads
      <4>3. Agree(x)
        BY <3>2, <4>2, <3>8 DEF ReadingsHold
      <4>4. value'[x] = value[x]
        BY <2>0, <3>3, <4>1
      <4>5. QED
        BY <3>2, <4>3, <4>4 DEF Agree
    <3>9. QED
      BY <3>4, <3>5, <3>6, <3>7, <3>8 DEF ReadingsHold, Reads
  <2>7. ASSUME NEW t \in Reader, StoreBeside(t)
        PROVE  ReadingsHold'
    <3> DEFINE s == sensor[t]
    <3>1. s \in Paired /\ at[t] = "beside" /\ val[t] \in Reading[s]
      BY <2>7 DEF StoreBeside
    <3>2. /\ beside' = (IF s \in Unless /\ beside[s] = Derived[s][val[t]] THEN beside
                        ELSE [beside EXCEPT ![s] = Derived[s][val[t]]])
          /\ torn'   = (IF t \in solo THEN torn \ {s} ELSE torn)
          /\ at'     = [at EXCEPT ![t] = "schedule"]
          /\ UNCHANGED <<sensor, val, value, first, solo, last, margin, stale>>
      BY <2>7 DEF StoreBeside, compared
    <3>3. /\ at'[t] = "schedule" /\ beside'[s] = Derived[s][val[t]]
          /\ \A u \in Reader \ {t} : at'[u] = at[u]
          /\ \A x \in Paired \ {s} : beside'[x] = beside[x]
      BY <3>1, <3>2
    <3>4. Alone'
      BY <3>2 DEF ReadingsHold, Alone
    <3>5. ASSUME NEW u \in Reader
          PROVE  Midway(u)'
      <4>1. CASE u = t
        BY <3>3, <4>1 DEF Midway
      <4>2. CASE u # t
        BY <3>2, <3>3, <4>2 DEF ReadingsHold, Midway
      <4>3. QED
        BY <4>1, <4>2
    <3>6. ASSUME NEW x \in Sensor, last'[x] = NULL
          PROVE  IsFirst(x)'
      BY <3>2, <3>6 DEF ReadingsHold, IsFirst
    <3>7. ASSUME NEW x \in Sensor \ stale', \A u \in Reader : Reads(u, x)' => at'[u] # "store"
          PROVE  Close(x)'
      <4>1. \A u \in Reader : Reads(u, x) => at[u] # "store"
        BY <3>1, <3>2, <3>3, <3>7 DEF Reads
      <4>2. QED
        BY <3>2, <3>7, <4>1 DEF ReadingsHold, Close
    <3>8. ASSUME NEW x \in Paired \ torn', \A u \in Reader : Reads(u, x)' => at'[u] \notin {"store", "beside"}
          PROVE  Agree(x)'
      <4>1. CASE x = s
        <5>1. t \in solo
          BY <2>0, <3>1, <3>2, <3>8, <4>1 DEF ReadingsHold, Alone
        <5>2. value[s] = Narrow(s, val[t])
          BY <3>1, <5>1 DEF ReadingsHold, Midway
        <5>3. QED
          BY <3>1, <3>2, <3>3, <4>1, <5>2 DEF Agree
      <4>2. CASE x # s
        <5>1. \A u \in Reader : Reads(u, x) => at[u] \notin {"store", "beside"}
          BY <3>2, <3>3, <3>8, <4>2 DEF Reads
        <5>2. Agree(x)
          BY <3>2, <3>8, <4>2, <5>1 DEF ReadingsHold
        <5>3. QED
          BY <3>2, <3>3, <4>2, <5>2 DEF Agree
      <4>3. QED
        BY <4>1, <4>2
    <3>9. QED
      BY <3>4, <3>5, <3>6, <3>7, <3>8 DEF ReadingsHold, Reads
  <2>8. CASE WorkStart
    <3>1. at["queue"] = "idle" /\ Head(submitted) \in Sensor /\ Enter("queue", Head(submitted))
      BY <2>8 DEF WorkStart
    <3>2. QED
      BY <2>1, <3>1 DEF Reader
  <2>9. ASSUME NEW s \in Sensor, Command(s)
        PROVE  ReadingsHold'
    BY <2>1, <2>9 DEF Command, Reader
  <2>10. ASSUME NEW t \in Reader, Schedule(t)
         PROVE  ReadingsHold'
    BY <2>2, <2>10 DEF Schedule, published, compared, mixed
  <2>11. ASSUME NEW s \in Sensor, IntervalPasses(s) \/ StartAgain(s)
         PROVE  ReadingsHold'
    BY <2>3, <2>11 DEF IntervalPasses, StartAgain, published, compared, reader, mixed
  <2>12. CASE WorkReturns
    BY <2>3, <2>12 DEF WorkReturns, published, compared, reader, mixed
  <2>13. ASSUME NEW s \in Sensor, SetThreshold(s) \/ ClearOk(s) \/ SetOk(s)
         PROVE  ReadingsHold'
    BY <2>3, <2>13 DEF SetThreshold, ClearOk, SetOk, published, compared, reader, mixed
  <2>14. CASE UNCHANGED sensorsVars
    BY <2>3, <2>14 DEF sensorsVars, published, compared, reader, mixed
  <2>15. QED
    BY <2>4, <2>5, <2>6, <2>7, <2>8, <2>9, <2>10, <2>11, <2>12, <2>13, <2>14 DEF SensorsNext, ReadStep
<1>3. QED
  BY <1>1, <1>2, SensorsTypes, PTL DEF SensorsSpec

\* When nobody is reading, what is published is what was read last, kept in 16 bits, or
\* within the threshold of it, if no two readings overlapped since one was made alone
\* (what the four read functions store).
THEOREM PublishedStaysClose == SensorsSpec => []PublishedIsClose
<1>1. ReadingsHold => PublishedIsClose
  BY DEF ReadingsHold, PublishedIsClose, Unread, Close
<1>2. QED
  BY <1>1, ReadingsAreHeld, PTL

\* The percentage of charge, or the detection, belongs to the reading it is published
\* beside (battery_read, lidar_read).
THEOREM PairsStayTogether == SensorsSpec => []PairsAgree
<1>1. ReadingsHold => PairsAgree
  BY SensorsAssumption DEF ReadingsHold, PairsAgree, Unread, Agree
<1>2. QED
  BY <1>1, ReadingsAreHeld, PTL

-----------------------------------------------------------------------------
(* The shock alert.                                                        *)

Item == Hook \cup {"ims_work"}

\* The end of a setter keeps a queue of work items, and what was queued in it.
LEMMA TriggerQueue ==
  ASSUME NEW q \in Seq(Item), NEW w \in Item
  PROVE  /\ Trigger(q, w) \in Seq(Item)
         /\ \A x : Queued(q, x) => Queued(Trigger(q, w), x)
         /\ w \in hooked => Queued(Trigger(q, w), w)
BY SubmitQueued DEF Trigger

\* Every variable of the shock alert keeps its type, and the work queue holds
\* only the reader and the two observers.
THEOREM TypeCorrect == Spec => []TypeOK
<1>1. Init => TypeOK
  <2>1. << >> \in Seq(Item) /\ 0 \in 0..MaxClears
    BY ShockAssumption
  <2>2. QED
    BY <2>1 DEF Init, TypeOK, Item
<1>2. TypeOK /\ [Next]_vars => TypeOK'
  <2> SUFFICES ASSUME TypeOK, [Next]_vars
               PROVE  TypeOK'
    OBVIOUS
  <2> USE DEF TypeOK
  <2>0. /\ queue \in Seq(Item)
        /\ "ims_work" \in Item /\ "peak_change_work" \in Item /\ "alert_clear_work" \in Item
    BY DEF Item, Hook
  <2>1. ASSUME NEW w, Runs(w)
        PROVE  rest \in Seq(Item)
    BY <2>0, <2>1, TailQueued DEF Runs, rest
  <2>2. CASE AppStart
    BY <2>2 DEF AppStart, SetHook, Hook, source
  <2>3. CASE TimerFires
    BY <2>0, <2>3, SubmitQueued DEF TimerFires, Item, source
  <2>4. CASE ims_read \/ ims_read_stops
    <3>1. Runs("ims_work") /\ (queue' = rest \/ queue' = Trigger(rest, "peak_change_work"))
      BY <2>4 DEF ims_read, ims_read_stops
    <3>2. rest \in Seq(Item)
      BY <2>1, <3>1
    <3>3. queue' \in Seq(Item)
      BY <2>0, <3>1, <3>2, TriggerQueue
    <3>4. QED
      <4>1. level' \in Level \cup {InvalidLevel} /\ peak' \in Level \cup {InvalidLevel} /\ missed' \in BOOLEAN
        BY <2>4 DEF ims_read, ims_read_stops, Unheard
      <4>2. UNCHANGED <<alert, duty, hooked, ims_ok, ims_dev, shell, reading, clears>> /\ due' \in BOOLEAN
        BY <2>4 DEF ims_read, ims_read_stops, source
      <4>3. QED
        BY <3>3, <4>1, <4>2 DEF Item
  <2>5. CASE peak_change
    <3>1. Runs("peak_change_work") /\ (queue' = rest \/ queue' = Trigger(rest, "alert_clear_work"))
      BY <2>5 DEF peak_change
    <3>2. rest \in Seq(Item)
      BY <2>1, <3>1
    <3>3. queue' \in Seq(Item)
      BY <2>0, <3>1, <3>2, TriggerQueue
    <3>4. QED
      <4>1. alert' \in BOOLEAN /\ duty' \in {1, 50}
        BY <2>5 DEF peak_change
      <4>2. UNCHANGED <<level, peak, hooked, ims_ok, ims_dev, due, shell, reading, missed, clears>>
        BY <2>5 DEF peak_change, source
      <4>3. QED
        BY <3>3, <4>1, <4>2 DEF Item
  <2>6. CASE alert_clear
    <3>1. Runs("alert_clear_work") /\ (queue' = rest \/ queue' = Trigger(rest, "peak_change_work"))
      BY <2>6 DEF alert_clear
    <3>2. rest \in Seq(Item)
      BY <2>1, <3>1
    <3>3. queue' \in Seq(Item)
      BY <2>0, <3>1, <3>2, TriggerQueue
    <3>4. QED
      <4>1. duty' \in {1, 50} /\ peak' \in Level \cup {InvalidLevel} /\ missed' \in BOOLEAN
        BY <2>6 DEF alert_clear, Unheard
      <4>2. UNCHANGED <<level, alert, hooked, ims_ok, ims_dev, due, shell, reading, clears>>
        BY <2>6 DEF alert_clear, source
      <4>3. QED
        BY <3>3, <4>1, <4>2 DEF Item
  <2>7. CASE ClearAlert
    <3>1. clears' \in 0..MaxClears
      BY <2>7, ShockAssumption DEF ClearAlert
    <3>2. /\ alert' \in BOOLEAN /\ shell' = "clear"
          /\ UNCHANGED <<level, peak, duty, hooked, ims_ok, ims_dev, due, queue, reading, missed>>
      BY <2>7 DEF ClearAlert, source
    <3>3. QED
      BY <3>1, <3>2
  <2>8. CASE ClearSubmits
    <3>1. queue' \in Seq(Item)
      BY <2>0, <2>8, TriggerQueue DEF ClearSubmits
    <3>2. QED
      BY <2>8, <3>1 DEF ClearSubmits, Item, source
  <2>9. CASE ShellSubmits
    <3>1. queue' \in Seq(Item)
      BY <2>0, <2>9, TriggerQueue DEF ShellSubmits
    <3>2. QED
      BY <2>9, <3>1 DEF ShellSubmits, Item, source, Unheard
  <2>10. CASE SetImsOk \/ ShellLooksUp
    BY <2>10 DEF SetImsOk, ShellLooksUp
  <2>11. CASE ShellCompares \/ ShellStoresLevel \/ ShellLooks \/ ShellStoresPeak
    BY <2>11 DEF ShellCompares, ShellStoresLevel, ShellLooks, ShellStoresPeak, source, Unheard
  <2>12. CASE UNCHANGED vars
    BY <2>12 DEF vars, source
  <2>13. QED
    BY <2>2, <2>3, <2>4, <2>5, <2>6, <2>7, <2>8, <2>9, <2>10, <2>11, <2>12 DEF Next, Handler, ShellGoesOn
<1>3. QED
  BY <1>1, <1>2, PTL DEF Spec

-----------------------------------------------------------------------------
\* A lit LED on a cleared alert will be put out: the clear is between its store
\* and its submission, or the alert's observer is queued.
PutOutDue == Queued(queue, "alert_clear_work") \/ shell = "clear"

\* The alert is shown at once, and a cleared one is being put out.
LedFollows ==
  /\ alert => duty = 50
  /\ duty = 50 => alert \/ PutOutDue
  /\ shell = "clear" => hooked = Hook

\* When nothing is in progress, the LED is lit for an alert and only for one,
\* whatever readings, observers and clears came before.
THEOREM AlertIsShown == Spec => []AlertShown
<1>1. Init => LedFollows
  BY DEF Init, LedFollows
<1>2. TypeOK /\ LedFollows /\ [Next]_vars => LedFollows'
  <2> SUFFICES ASSUME TypeOK, LedFollows, [Next]_vars
               PROVE  LedFollows'
    OBVIOUS
  <2> USE DEF LedFollows, PutOutDue
  <2>0. /\ queue \in Seq(Item)
        /\ "ims_work" \in Item /\ "peak_change_work" \in Item /\ "alert_clear_work" \in Item
    BY DEF TypeOK, Item, Hook
  <2>1. ASSUME NEW w, Runs(w)
        PROVE  rest \in Seq(Item) /\ \A x : Queued(queue, x) => Queued(rest, x) \/ x = w
    BY <2>0, <2>1, TailQueued DEF Runs, rest
  <2>2. CASE AppStart
    BY <2>2 DEF AppStart, SetHook
  <2>3. CASE TimerFires
    BY <2>0, <2>3, SubmitQueued DEF TimerFires
  <2>4. CASE ims_read \/ ims_read_stops
    <3>1. Runs("ims_work") /\ (queue' = rest \/ queue' = Trigger(rest, "peak_change_work"))
      BY <2>4 DEF ims_read, ims_read_stops
    <3>2. rest \in Seq(Item)
      BY <2>1, <3>1
    <3>3. Queued(queue, "alert_clear_work") => Queued(rest, "alert_clear_work")
      BY <2>1, <3>1
    <3>4. Queued(rest, "alert_clear_work") => Queued(queue', "alert_clear_work")
      BY <2>0, <3>1, <3>2, TriggerQueue
    <3>5. QED
      BY <2>4, <3>3, <3>4 DEF ims_read, ims_read_stops
  <2>5. CASE peak_change
    <3>1. CASE ~alert /\ peak > ShockThreshold
      BY <2>5, <3>1 DEF peak_change
    <3>2. CASE ~(~alert /\ peak > ShockThreshold)
      <4>1. queue' = rest /\ UNCHANGED <<alert, duty, shell, hooked>>
        BY <2>5, <3>2 DEF peak_change
      <4>2. Queued(queue, "alert_clear_work") => Queued(queue', "alert_clear_work")
        BY <2>1, <2>5, <4>1 DEF peak_change
      <4>3. QED
        BY <4>1, <4>2
    <3>3. QED
      BY <3>1, <3>2
  <2>6. CASE alert_clear
    BY <2>6 DEF alert_clear
  <2>7. CASE ClearAlert
    BY <2>7 DEF ClearAlert
  <2>8. CASE ClearSubmits
    <3>1. Queued(queue', "alert_clear_work")
      BY <2>0, <2>8, TriggerQueue DEF ClearSubmits, Hook
    <3>2. QED
      BY <2>8, <3>1 DEF ClearSubmits
  <2>9. CASE ShellSubmits
    <3>1. Queued(queue, "alert_clear_work") => Queued(queue', "alert_clear_work")
      BY <2>0, <2>9, TriggerQueue DEF ShellSubmits
    <3>2. QED
      BY <2>9, <3>1 DEF ShellSubmits
  <2>10. CASE SetImsOk \/ ShellLooksUp
    BY <2>10 DEF SetImsOk, ShellLooksUp
  <2>11. CASE ShellCompares \/ ShellStoresLevel \/ ShellLooks \/ ShellStoresPeak
    BY <2>11 DEF ShellCompares, ShellStoresLevel, ShellLooks, ShellStoresPeak
  <2>12. CASE UNCHANGED vars
    BY <2>12 DEF vars
  <2>13. QED
    BY <2>2, <2>3, <2>4, <2>5, <2>6, <2>7, <2>8, <2>9, <2>10, <2>11, <2>12 DEF Next, Handler, ShellGoesOn
<1>3. LedFollows => AlertShown
  <2>1. ~Queued(<< >>, "alert_clear_work")
    BY DEF Queued, Range
  <2>2. QED
    BY <2>1 DEF LedFollows, PutOutDue, AlertShown, Settled
<1>4. QED
  BY <1>1, <1>2, <1>3, TypeCorrect, PTL DEF Spec

=============================================================================
