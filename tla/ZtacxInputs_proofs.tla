------------------------- MODULE ZtacxInputs_proofs -------------------------
(***************************************************************************)
(* Proofs about what comes in from outside, for any sizes and any input.   *)
(*                                                                         *)
(* ZtacxKeypad, for any set of keys and commands: type correctness; that a *)
(* stop is final and scanning ends only by being cancelled; that the       *)
(* application's view adds up to the keys' state.                          *)
(*                                                                         *)
(* ZtacxGps: for a buffer of any size, gps_loop and the interrupt that     *)
(* falls into it stay inside the buffer, and what on_movement is told was  *)
(* sent as long as gps_loop keeps up.                                      *)
(***************************************************************************)
EXTENDS ZtacxKeypad, ZtacxGps, Common_proofs

-----------------------------------------------------------------------------
(* The keypad.                                                             *)

\* The first of the keys that changed is a key.
LEMMA FirstIsKey ==
  ASSUME KeypadAssumption, NEW S \in SUBSET Key, S # {}
  PROVE  Min(S) \in Key
<1>1. \E x \in S : \A y \in S : x <= y
  <2>1. S \subseteq 0..7
    BY DEF KeypadAssumption
  <2>2. PICK e : e \in S
    OBVIOUS
  <2>3. QED
    BY <2>1, <2>2, SMTT(30)
<1>2. Min(S) \in S
  BY <1>1 DEF Min
<1>3. QED
  BY <1>2

\* Every variable of the keypad's model keeps its type.
THEOREM KeypadTypes == Spec => []TypeOK
<1>1. Init => TypeOK
  BY KeypadAssumption DEF Init, TypeOK, Flag
<1>2. TypeOK /\ [Next]_vars => TypeOK'
  <2> SUFFICES ASSUME TypeOK, [Next]_vars
               PROVE  TypeOK'
    OBVIOUS
  <2> USE DEF TypeOK
  <2>1. ASSUME NEW k \in Key, Touch(k)
        PROVE  TypeOK'
    BY <2>1 DEF Touch
  <2>2. CASE TimerFires
    BY <2>2 DEF TimerFires, Flag
  <2>3. CASE ScanBegins
    BY <2>3 DEF ScanBegins, Flag
  <2>4. CASE ScanEnds
    <3>1. main' \in Event \cup {Waiting} /\ pins' \subseteq Key
      <4>1. CASE UNCHANGED <<main, pins>>
        BY <4>1
      <4>2. CASE Receives(KeysDown) /\ pins' = KeysDown
        <5>1. CASE main = Waiting /\ (KeysDown \ pins) \cup (pins \ KeysDown) # {}
          <6> DEFINE first == Min((KeysDown \ pins) \cup (pins \ KeysDown))
          <6>1. first \in Key
            BY <5>1, FirstIsKey, KeypadAssumption DEF KeysDown
          <6>2. main' = [press |-> first \in KeysDown, key |-> first]
            BY <4>2, <5>1 DEF Receives
          <6>3. [press |-> first \in KeysDown, key |-> first] \in Event
            <7> HIDE DEF first
            <7>1. (first \in KeysDown) \in BOOLEAN
              OBVIOUS
            <7>2. QED
              BY <6>1, <7>1 DEF Event
          <6>4. QED
            BY <4>2, <6>2, <6>3 DEF KeysDown
        <5>2. CASE ~(main = Waiting /\ (KeysDown \ pins) \cup (pins \ KeysDown) # {})
          BY <4>2, <5>2 DEF Receives, KeysDown
        <5>3. QED
          BY <5>1, <5>2
      <4>3. QED
        BY <2>4, <4>1, <4>2 DEF ScanEnds
    <3>2. scan' \subseteq Flag
      BY <2>4 DEF ScanEnds, Returned, Schedule, Flag
    <3>3. QED
      BY <2>4, <3>1, <3>2 DEF ScanEnds
  <2>5. CASE MainReports
    BY <2>5, KeypadAssumption DEF MainReports, Event
  <2>6. CASE ScanNow \/ Stop \/ Start \/ Boot
    <3>1. commands' \in 0..MaxCommands
      BY <2>6, KeypadAssumption DEF ScanNow, Stop, Start, Boot, TypedKp, Typed
    <3>2. scan' \subseteq Flag /\ started' \in BOOLEAN /\ listed' \in BOOLEAN
      BY <2>6 DEF ScanNow, Stop, Start, Boot, TypedKp, SubmitNow, Cancel, Flag
    <3>3. QED
      BY <2>6, <3>1, <3>2 DEF ScanNow, Stop, Start, Boot, TypedKp, Typed
  <2>7. CASE UNCHANGED vars
    BY <2>7 DEF vars
  <2>8. QED
    BY <2>1, <2>2, <2>3, <2>4, <2>5, <2>6, <2>7 DEF Next
<1>3. QED
  BY <1>1, <1>2, PTL DEF Spec

-----------------------------------------------------------------------------
\* A scan that goes on after a stop is being cancelled, so that its handler
\* cannot schedule the next one: the fact StopStops rests on.
StopIsCancel == ~started => scan \in {{}, {"running", "canceling"}}

\* A stop is final, whatever scan it falls into (ztacx_kp_stop and the end of
\* kp_scan).
THEOREM StopIsFinal == Spec => []StopStops
<1>1. Init => StopIsCancel
  BY DEF Init, StopIsCancel
<1>2. TypeOK /\ StopIsCancel /\ [Next]_vars => StopIsCancel'
  <2> SUFFICES ASSUME TypeOK, StopIsCancel, [Next]_vars
               PROVE  StopIsCancel'
    OBVIOUS
  <2> USE DEF StopIsCancel
  <2>1. ASSUME NEW k \in Key, Touch(k)
        PROVE  StopIsCancel'
    BY <2>1 DEF Touch
  <2>2. CASE TimerFires \/ ScanBegins
    BY <2>2 DEF TimerFires, ScanBegins
  <2>3. CASE ScanEnds
    BY <2>3 DEF ScanEnds, Returned, Schedule
  <2>4. CASE MainReports
    BY <2>4 DEF MainReports
  <2>5. CASE ScanNow \/ Stop \/ Start \/ Boot
    BY <2>5 DEF ScanNow, Stop, Start, Boot, Cancel
  <2>6. CASE UNCHANGED vars
    BY <2>6 DEF vars
  <2>7. QED
    BY <2>1, <2>2, <2>3, <2>4, <2>5, <2>6 DEF Next
<1>3. StopIsCancel => StopStops
  BY DEF StopIsCancel, StopStops
<1>4. QED
  BY <1>1, <1>2, <1>3, KeypadTypes, PTL DEF Spec

\* Scanning ends only by being cancelled or with the keypad's place in the registry:
\* whatever a read returns, the handler of a listed keypad leaves the next scan behind
\* (kp_scan).
THEOREM ScanGoesOn == Spec => EndsOnlyByCancel
<1>1. TypeOK /\ [Next]_vars
      => (scan # {} /\ scan' = {} => ~started' \/ ~listed \/ "canceling" \in scan)
  <2> SUFFICES ASSUME TypeOK, [Next]_vars, scan # {}, scan' = {}
               PROVE  ~started' \/ ~listed \/ "canceling" \in scan
    OBVIOUS
  <2>1. CASE \E k \in Key : Touch(k)
    BY <2>1 DEF Touch
  <2>2. CASE TimerFires \/ ScanBegins
    BY <2>2 DEF TimerFires, ScanBegins
  <2>3. CASE ScanEnds
    BY <2>3 DEF ScanEnds, Returned, Schedule, TypeOK, Flag
  <2>4. CASE MainReports
    BY <2>4 DEF MainReports
  <2>5. CASE Stop \/ Start \/ Boot
    BY <2>5 DEF Stop, Start, Boot
  <2>6. CASE ScanNow
    <3>1. scan' = SubmitNow(Cancel(scan))
      BY <2>6 DEF ScanNow
    <3>2. SubmitNow(Cancel(scan)) # {}
      BY DEF SubmitNow, Cancel
    <3>3. QED
      BY <3>1, <3>2
  <2>7. CASE UNCHANGED vars
    BY <2>7 DEF vars
  <2>8. QED
    BY <2>1, <2>2, <2>3, <2>4, <2>5, <2>6, <2>7 DEF Next
<1>2. QED
  BY <1>1, KeypadTypes, PTL DEF Spec, EndsOnlyByCancel

\* The keys that have changed since the last successful scan.
Changed == (held \ pins) \cup (pins \ held)

\* A report that the application has still to make is of a key that has changed since
\* it was last told, and when the keys change one at a time there is no other.
Reports ==
  one =>
    IF main = Waiting
    THEN view = pins /\ \A j, k \in Changed : j = k
    ELSE /\ pins = held
         /\ main.press  => main.key \in pins    /\ view = pins \ {main.key}
         /\ ~main.press => main.key \notin pins /\ view = pins \cup {main.key}

\* What the application is told adds up to the keys' state (kp_scan, main).
THEOREM ViewIsTrue == Spec => []ViewFollowsPins
<1>1. Init => Reports
  BY DEF Init, Changed, Reports
<1>2. TypeOK /\ Reports /\ [Next]_vars => Reports'
  <2> SUFFICES ASSUME TypeOK, Reports, [Next]_vars, one'
               PROVE  Reports'
    BY DEF Reports
  <2>0. /\ one /\ held \subseteq Key /\ pins \subseteq Key /\ main \in Event \cup {Waiting}
        /\ Waiting \notin Event /\ view \subseteq Key
    BY KeypadAssumption DEF TypeOK, Event, Next, Touch, TimerFires, ScanBegins, ScanEnds,
       MainReports, ScanNow, Stop, Start, Boot, TypedKp, Typed, vars
  <2>1. ASSUME NEW k \in Key, Touch(k)
        PROVE  Reports'
    <3>1. pins = held /\ main = Waiting /\ view = pins /\ UNCHANGED <<pins, main, view>>
      BY <2>0, <2>1 DEF Touch, Reports
    <3>2. Changed' = {k}
      BY <2>0, <2>1, <3>1 DEF Touch, Changed
    <3>3. QED
      BY <3>1, <3>2 DEF Reports
  <2>2. CASE TimerFires \/ ScanBegins \/ ScanNow \/ Stop \/ Start \/ Boot \/ UNCHANGED vars
    <3>1. UNCHANGED <<one, held, pins, main, view>>
      BY <2>2 DEF TimerFires, ScanBegins, ScanNow, Stop, Start, Boot, TypedKp, Typed, vars
    <3>2. Changed' = Changed
      BY <3>1 DEF Changed
    <3>3. QED
      BY <3>1, <3>2 DEF Reports
  <2>3. CASE ScanEnds
    <3>1. CASE UNCHANGED <<main, pins>>
      BY <2>3, <3>1 DEF ScanEnds, Changed, Reports
    <3>2. CASE Receives(KeysDown) /\ pins' = KeysDown
      <4>1. UNCHANGED <<one, held, view>> /\ pins' = held
        BY <2>3, <3>2 DEF ScanEnds, KeysDown
      <4>2. CASE main = Waiting /\ Changed # {}
        <5>1. PICK k \in Key : Changed = {k}
          BY <2>0, <4>2 DEF Changed, Reports
        <5>2. Min({k}) = k
          <6>1. k \in 0..7
            BY KeypadAssumption
          <6>2. k <= k
            BY <6>1
          <6>3. QED
            BY <6>2 DEF Min
        <5>3. main' = [press |-> k \in held, key |-> k]
          BY <3>2, <4>2, <5>1, <5>2 DEF Receives, KeysDown, Changed
        <5>4. main' \in Event
          <6>1. (k \in held) \in BOOLEAN
            OBVIOUS
          <6>2. QED
            BY <5>3, <6>1 DEF Event
        <5>5. view = pins
          BY <2>0, <4>2 DEF Reports
        <5>6. main'.key = k /\ (main'.press <=> k \in held)
          BY <5>3
        <5>7. CASE k \in held
          <6>1. held \ {k} = pins
            BY <5>1, <5>7 DEF Changed
          <6>2. QED
            BY <2>0, <4>1, <5>4, <5>5, <5>6, <5>7, <6>1 DEF Reports
        <5>8. CASE k \notin held
          <6>1. held \cup {k} = pins
            BY <5>1, <5>8 DEF Changed
          <6>2. QED
            BY <2>0, <4>1, <5>4, <5>5, <5>6, <5>8, <6>1 DEF Reports
        <5>9. QED
          BY <5>7, <5>8
      <4>3. CASE ~(main = Waiting /\ Changed # {})
        <5>1. main' = main
          BY <3>2, <4>3 DEF Receives, KeysDown, Changed
        <5>2. pins = held
          BY <2>0, <4>3 DEF Changed, Reports
        <5>3. QED
          BY <4>1, <5>1, <5>2 DEF Changed, Reports
      <4>4. QED
        BY <4>2, <4>3
    <3>3. QED
      BY <2>3, <3>1, <3>2 DEF ScanEnds
  <2>4. CASE MainReports
    <3>1. main' = Waiting /\ UNCHANGED <<held, pins>> /\ main.key \in Key
      BY <2>0, <2>4 DEF MainReports, Event
    <3>2. view' = pins
      BY <2>0, <2>4 DEF MainReports, Reports
    <3>3. Changed' = {}
      BY <2>0, <2>4, <3>1 DEF MainReports, Changed, Reports
    <3>4. QED
      BY <3>1, <3>2, <3>3 DEF Reports
  <2>5. QED
    BY <2>1, <2>2, <2>3, <2>4 DEF Next
<1>3. Reports => ViewFollowsPins
  BY DEF Reports, ViewFollowsPins
<1>4. QED
  BY <1>1, <1>2, <1>3, KeypadTypes, PTL DEF Spec

-----------------------------------------------------------------------------
(* The GPS.                                                                *)

\* A string ends inside a buffer whose last byte is a NUL, and has no NUL in it
\* (strlen).
LEMMA StringEnds ==
  ASSUME NEW b, b[Size - 1] = NUL, NEW i \in 0..(Size - 1)
  PROVE  /\ StrLen(b, i) \in 0..(Size - 1 - i)
         /\ b[i + StrLen(b, i)] = NUL
         /\ \A h \in i..(i + StrLen(b, i) - 1) : b[h] # NUL
<1> DEFINE T == {n \in Nat : b[i + n] = NUL}
<1>0. Size \in Nat /\ i \in Nat /\ Size - 1 - i \in Nat
  BY GpsAssumption
<1>1. Size - 1 - i \in T
  BY <1>0
<1>2. PICK m \in T : \A n \in T : m <= n
  <2>1. T \in SUBSET Nat /\ T # {}
    BY <1>1
  <2> HIDE DEF T
  <2>2. QED
    BY <2>1, Least
<1>3. m \in 0..(Size - 1 - i)
  BY <1>0, <1>1, <1>2
<1>4. \A h \in i..(i + m - 1) : b[h] # NUL
  <2> SUFFICES ASSUME NEW h \in i..(i + m - 1), b[h] = NUL
               PROVE  FALSE
    OBVIOUS
  <2>1. h - i \in Nat /\ i + (h - i) = h /\ h - i < m
    BY <1>0, <1>3
  <2>2. h - i \in T
    BY <2>1
  <2>3. QED
    BY <1>2, <1>3, <2>1, <2>2
<1>5. \E n \in 0..(Size - 1 - i) : b[i + n] = NUL /\ \A h \in i..(i + n - 1) : b[h] # NUL
  BY <1>2, <1>3, <1>4
<1>6. QED
  BY <1>5 DEF StrLen

\* The newline that gps_loop finds is inside the string, so that the buffer has a
\* byte after it (strchr).
LEMMA NewLineInside ==
  ASSUME NEW b, b[Size - 1] = NUL, HasLine(b, 0)
  PROVE  FirstNewLine(b) \in 0..(Size - 2)
<1> DEFINE L == StrLen(b, 0)
           T == {n \in Nat : n < L /\ b[n] = NewLine}
<1>0. Size \in Nat /\ Size >= 1 /\ L \in 0..(Size - 1)
  <2>1. Size \in Nat /\ Size >= 1
    BY GpsAssumption
  <2>2. L \in 0..(Size - 1 - 0)
    BY <2>1, StringEnds
  <2>3. QED
    BY <2>1, <2>2
<1> HIDE DEF L
<1>1. PICK i \in 1..L : b[i - 1] = NewLine
  <2>1. StrAt(b, 0) = [h \in 1..L |-> b[0 + h - 1]]
    BY DEF StrAt, L
  <2>2. Len(StrAt(b, 0)) = L
    BY <1>0, <2>1
  <2>3. PICK i \in 1..L : StrAt(b, 0)[i] = NewLine
    BY <2>2 DEF HasLine, Contains
  <2>4. StrAt(b, 0)[i] = b[i - 1]
    BY <1>0, <2>1
  <2>5. QED
    BY <2>3, <2>4
<1>2. i - 1 \in T
  BY <1>0, <1>1
<1>3. PICK m \in T : \A n \in T : m <= n
  <2>1. T \in SUBSET Nat /\ T # {}
    BY <1>2
  <2> HIDE DEF T
  <2>2. QED
    BY <2>1, Least
<1>4. m \in 0..(L - 1) /\ b[m] = NewLine /\ \A h \in 0..(m - 1) : b[h] # NewLine
  <2>1. m \in 0..(L - 1) /\ b[m] = NewLine
    BY <1>0, <1>3
  <2>2. ASSUME NEW h \in 0..(m - 1), b[h] = NewLine
        PROVE  FALSE
    <3>1. h \in T /\ h < m
      BY <1>0, <2>1, <2>2
    <3>2. QED
      BY <1>3, <3>1
  <2>3. QED
    BY <2>1, <2>2
<1>5. FirstNewLine(b) \in 0..(L - 1)
  BY <1>4 DEF FirstNewLine, L
<1>6. QED
  BY <1>0, <1>5

-----------------------------------------------------------------------------
\* Where gps_loop and the interrupt are in the buffer, at every step of either.
InBuffer ==
  /\ buf[Size - 1] = NUL
  /\ DOMAIN buf = 0..(Size - 1)
  /\ len \in 0..(Size - 1)
  /\ pc \in {"cut", "copy", "measure", "move", "length"} => nl \in 0..(Size - 2)
  /\ pc \in {"move", "length"} => remain \in 0..(Size - 2 - nl)

\* The buffer's last byte stays a NUL because the interrupt stores at most what leaves
\* room for one, and gps_loop moves and measures only what is before it.
LEMMA StaysInBuffer == GpsSpec => []InBuffer
<1>0. Size \in Nat /\ Spare \in Nat /\ Size > Spare /\ Spare >= 1
  BY GpsAssumption
<1>1. GpsInit => InBuffer
  BY <1>0 DEF GpsInit, InBuffer
<1>2. InBuffer /\ [GpsNext]_gpsVars => InBuffer'
  <2> SUFFICES ASSUME InBuffer, [GpsNext]_gpsVars
               PROVE  InBuffer'
    OBVIOUS
  <2> USE <1>0 DEF InBuffer
  <2>1. CASE Begins
    BY <2>1 DEF Begins, position
  <2>2. CASE gps_rx_isr
    <3> DEFINE at == StoresAt
    <3>1. at \in 0..(Size - 1)
      BY DEF StoresAt
    <3> HIDE DEF at
    <3>2. PICK n \in 1..Len(coming) :
            /\ n <= Size - at - 1
            /\ buf' = [i \in 0..(Size - 1) |->
                         IF i \in at..(at + n - 1) THEN coming[i - at + 1]
                         ELSE IF i = at + n THEN NUL ELSE buf[i]]
            /\ len' = at + n
            /\ UNCHANGED <<pc, nl, remain>>
      BY <2>2 DEF gps_rx_isr, Room, at
    <3>3. n \in Nat /\ n >= 1
      BY <3>2
    <3>4. len' \in 0..(Size - 1)
      BY <3>1, <3>2, <3>3
    <3>5. buf'[Size - 1] = NUL /\ DOMAIN buf' = 0..(Size - 1)
      <4>1. ~(Size - 1 \in at..(at + n - 1)) /\ Size - 1 \in 0..(Size - 1)
        BY <3>1, <3>2, <3>3
      <4>2. QED
        BY <3>2, <4>1
    <3>6. QED
      BY <3>2, <3>4, <3>5
  <2>3. CASE Find
    <3>1. FirstNewLine(buf) \in 0..(Size - 2)
      BY <2>3, NewLineInside DEF Find
    <3>2. QED
      BY <2>3, <3>1 DEF Find
  <2>4. CASE Cut
    BY <2>4 DEF Cut
  <2>5. CASE Copy
    BY <2>5 DEF Copy
  <2>6. CASE Measure
    <3>1. nl + 1 \in 0..(Size - 1)
      BY <2>6 DEF Measure
    <3>2. StrLen(buf, nl + 1) \in 0..(Size - 1 - (nl + 1))
      BY <3>1, StringEnds
    <3>3. remain' \in 0..(Size - 2 - nl)
      BY <2>6, <3>1, <3>2 DEF Measure
    <3>4. QED
      BY <2>6, <3>3 DEF Measure
  <2>7. CASE Move
    <3>1. ~(Size - 1 < remain) /\ Size - 1 \in 0..(Size - 1)
      BY <2>7 DEF Move
    <3>2. buf' = [i \in 0..(Size - 1) |-> IF i < remain THEN buf[nl + 1 + i] ELSE buf[i]]
      BY <2>7 DEF Move, Moved
    <3>3. buf'[Size - 1] = NUL /\ DOMAIN buf' = 0..(Size - 1)
      BY <3>1, <3>2
    <3>4. QED
      BY <2>7, <3>3 DEF Move
  <2>8. CASE SetLength
    BY <2>8 DEF SetLength
  <2>9. CASE gps_line
    BY <2>9 DEF gps_line
  <2>10. CASE UNCHANGED gpsVars
    BY <2>10 DEF gpsVars
  <2>11. QED
    BY <2>1, <2>2, <2>3, <2>4, <2>5, <2>6, <2>7, <2>8, <2>9, <2>10 DEF GpsNext, gps_loop
<1>3. QED
  BY <1>1, <1>2, PTL DEF GpsSpec

\* For a buffer of any size, and wherever the interrupt falls in gps_loop, the
\* buffer's last byte stays a NUL, so that every search in it ends inside it.
THEOREM BufferStaysEnded == GpsSpec => []BufferEnds
<1>1. InBuffer => BufferEnds
  BY DEF InBuffer, BufferEnds
<1>2. QED
  BY <1>1, StaysInBuffer, PTL

-----------------------------------------------------------------------------
\* What the receiver says of fix n, or of having none.
Words(n) == IF n = 0 THEN NoLock ELSE Sentence(n)
Heard == {0} \cup {sent[i] : i \in DOMAIN sent}

\* What is coming is the end of the sentence, of which so many characters are stored.
Begun == IF coming = <<>> THEN 0 ELSE Len(Words(fix)) - Len(coming)
Sending ==
  /\ coming \in Seq(Tokens) /\ fix \in Fixes \cup {0} /\ sent \in Seq(Fixes)
  /\ Len(coming) <= Len(Words(fix))
  /\ \A j \in 1..Len(coming) : coming[j] = Words(fix)[Len(Words(fix)) - Len(coming) + j]

\* The buffer reads as the first characters of w from a up to e, holds a whole
\* sentence up to e, or the sentence being received between a and e.
Reads(a, e, w) == \A j \in 1..(e - a) : buf[a + j - 1] = w[j]
Whole(e) == \E n \in Heard : e = Len(Words(n)) /\ Reads(0, e, Words(n))
Partial(a, e) == e = a + Begun /\ Reads(a, e, Words(fix))

\* What follows the line that ends before a: a line, which puts gps_loop behind, or
\* a part of one.
Rest(a) ==
  /\ a <= len /\ buf[len] = NUL
  /\ \A h \in a..(len - 1) : buf[h] # NUL
  /\ (\E h \in a..(len - 1) : buf[h] = NewLine) \/ Partial(a, len)

\* The buffer's string ends at e without a line in it, although its length may be less.
NoLine(e) == buf[e] = NUL /\ \A h \in 0..(e - 1) : buf[h] # NewLine
Stored ==
  \/ Partial(0, len) /\ \E e \in len..(Size - 1) : NoLine(e)
  \/ \E e \in 1..len : Whole(e) /\ Rest(e)

\* The line that was cut off is a sentence without its end.
LineIs == \E n \in Heard :
            /\ line \in Seq(Tokens) /\ Len(line) = Len(Words(n)) - 1
            /\ \A j \in 1..Len(line) : line[j] = Words(n)[j]

\* The buffer at each place of gps_loop.
InStep ==
  /\ pc \in {"idle", "parse"} => Stored
  /\ pc = "cut" => Whole(nl + 1) /\ Rest(nl + 1)
  /\ pc = "copy" => /\ \E n \in Heard : nl + 1 = Len(Words(n)) /\ Reads(0, nl, Words(n))
                    /\ buf[nl] = NUL /\ Rest(nl + 1)
  /\ pc \in {"measure", "move", "length", "parse"} => LineIs
  /\ pc = "measure" => (\A h \in 0..nl : buf[h] # NewLine) /\ Rest(nl + 1)
  /\ pc = "move" => Partial(nl + 1, len) /\ NoLine(len) /\ remain = len - nl - 1
  /\ pc = "length" => Partial(0, remain) /\ NoLine(len) /\ remain <= len

\* A position that the receiver sent, or the one that the program starts with.
Sent(p) == p = <<0, 0>> \/ \E i \in DOMAIN sent : p = Place(sent[i])
KeepsUp == Sending /\ (keptUp => InStep /\ Sent(<<lat, lon>>) /\ Sent(was))

\* A sentence has at least a character before its end, which is its only newline, and
\* no NUL.
LEMMA WordsAre ==
  ASSUME NEW n \in Fixes \cup {0}
  PROVE  /\ Words(n) \in Seq(Tokens) /\ Len(Words(n)) \in 2..7
         /\ Words(n)[Len(Words(n))] = NewLine
         /\ \A j \in 1..Len(Words(n)) : Words(n)[j] \in Tokens \ {NUL}
         /\ \A j \in 1..(Len(Words(n)) - 1) : Words(n)[j] # NewLine
<1>0. NUL # NewLine /\ NewLine \in Tokens
      /\ {Header, TimeOnly, Nothing, Time, NoTime} \subseteq Tokens \ {NUL, NewLine}
  <2>1. /\ NUL.kind = "nul" /\ NewLine.kind = "newline" /\ Header.kind = "$GPGLL"
        /\ TimeOnly.kind = ",,,,time" /\ Nothing.kind = ",,,,V"
        /\ Time.kind = "time" /\ NoTime.kind = "short"
    BY DEF NUL, NewLine, Header, TimeOnly, Nothing, Time, NoTime, Token
  <2>2. \A t \in {Header, TimeOnly, Nothing, Time, NoTime} : t # NUL /\ t # NewLine
    BY <2>1
  <2>3. NUL # NewLine
    BY <2>1
  <2>4. {NewLine, Header, TimeOnly, Nothing, Time, NoTime} \subseteq Tokens
    BY DEF Tokens
  <2>5. QED
    BY <2>2, <2>3, <2>4
<1>1. CASE n = 0
  <2>1. PICK t \in {TimeOnly, Nothing} : Words(n) = <<Header, t, NewLine>>
    BY <1>1 DEF Words, NoLock
  <2>2. QED
    BY <1>0, <2>1
<1>2. CASE n # 0
  <2>1. PICK t \in {Time, NoTime}, d \in {South(n)}, e \in {West(n)} :
          Words(n) = <<Header, Degrees(d), Sign(d), Degrees(e), Sign(e), t, NewLine>>
    BY <1>2 DEF Words, Sentence
  <2>2. \A c : Degrees(c) \notin {NUL, NewLine} /\ Sign(c) \notin {NUL, NewLine}
    BY DEF NUL, NewLine, Degrees, Sign, Token
  <2>3. {Degrees(d), Sign(d), Degrees(e), Sign(e)} \subseteq Tokens
    BY <1>2, <2>1 DEF Tokens
  <2> DEFINE w == <<Header, Degrees(d), Sign(d), Degrees(e), Sign(e), t, NewLine>>
  <2>4. w \in Seq(Tokens) /\ Len(w) = 7
    BY <1>0, <2>1, <2>3
  <2>5. /\ w[1] = Header /\ w[2] = Degrees(d) /\ w[3] = Sign(d) /\ w[4] = Degrees(e)
        /\ w[5] = Sign(e) /\ w[6] = t /\ w[7] = NewLine
    OBVIOUS
  <2>6. \A j \in 1..6 : w[j] \in Tokens \ {NUL, NewLine}
    <3> HIDE DEF w
    <3>1. 1..6 = {1, 2, 3, 4, 5, 6}
      OBVIOUS
    <3>2. QED
      BY <1>0, <2>1, <2>2, <2>3, <2>5, <3>1
  <2>7. \A j \in 1..7 : j \in 1..6 \/ j = 7
    OBVIOUS
  <2> HIDE DEF w
  <2>8. QED
    BY <1>0, <2>1, <2>4, <2>5, <2>6, <2>7 DEF w
<1>3. QED
  BY <1>1, <1>2

\* Where a search for a newline ends in a string whose end is known (strchr).
LEMMA HasLineIs ==
  ASSUME NEW b, b[Size - 1] = NUL, NEW i \in 0..(Size - 1)
  PROVE  HasLine(b, i) <=> \E h \in i..(i + StrLen(b, i) - 1) : b[h] = NewLine
<1> DEFINE L == StrLen(b, i)
<1>0. Size \in Nat /\ i \in Nat /\ L \in Nat
  BY GpsAssumption, StringEnds
<1> HIDE DEF L
<1>1. StrAt(b, i) = [h \in 1..L |-> b[i + h - 1]] /\ Len(StrAt(b, i)) = L
  <2>1. StrAt(b, i) = [h \in 1..L |-> b[i + h - 1]]
    BY DEF StrAt, L
  <2>2. QED
    BY <1>0, <2>1
<1>2. HasLine(b, i) <=> \E h \in 1..L : b[i + h - 1] = NewLine
  BY <1>1 DEF HasLine, Contains
<1>3. ASSUME NEW h \in 1..L, b[i + h - 1] = NewLine
      PROVE  \E g \in i..(i + L - 1) : b[g] = NewLine
  BY <1>0, <1>3
<1>4. ASSUME NEW g \in i..(i + L - 1), b[g] = NewLine
      PROVE  \E h \in 1..L : b[i + h - 1] = NewLine
  <2>1. g - i + 1 \in 1..L /\ i + (g - i + 1) - 1 = g
    BY <1>0
  <2>2. QED
    BY <1>4, <2>1
<1>5. QED
  BY <1>2, <1>3, <1>4 DEF L

\* What follows the line is as long as what was received after it (strlen).
LEMMA RestLength ==
  ASSUME InBuffer, NEW a \in 0..(Size - 1), Rest(a)
  PROVE  /\ StrLen(buf, a) = len - a
         /\ HasLine(buf, a) <=> \E h \in a..(len - 1) : buf[h] = NewLine
<1> DEFINE L == StrLen(buf, a)
<1>0. Size \in Nat /\ a \in Nat /\ len \in Nat /\ len <= Size - 1 /\ a <= len /\ buf[len] = NUL
  BY GpsAssumption DEF InBuffer, Rest
<1>1. L \in 0..(Size - 1 - a) /\ buf[a + L] = NUL /\ \A h \in a..(a + L - 1) : buf[h] # NUL
  BY StringEnds DEF InBuffer
<1> HIDE DEF L
<1>2. ~(L < len - a)
  <2>1. \A h \in a..(len - 1) : buf[h] # NUL
    BY DEF Rest
  <2>2. L < len - a => a + L \in a..(len - 1)
    BY <1>0, <1>1
  <2>3. QED
    BY <1>1, <2>1, <2>2
<1>3. ~(L > len - a)
  <2>1. L > len - a => len \in a..(a + L - 1)
    BY <1>0, <1>1
  <2>2. QED
    BY <1>0, <1>1, <2>1
<1>4. L = len - a /\ a + L - 1 = len - 1
  BY <1>0, <1>1, <1>2, <1>3
<1>5. HasLine(buf, a) <=> \E h \in a..(a + L - 1) : buf[h] = NewLine
  BY HasLineIs DEF InBuffer, L
<1>6. QED
  BY <1>4, <1>5 DEF L

\* A string without a line before its end has none (strchr).
LEMMA NoneFound ==
  ASSUME InBuffer, NEW e \in 0..(Size - 1), NoLine(e)
  PROVE  ~HasLine(buf, 0)
<1> DEFINE L == StrLen(buf, 0)
<1>0. Size \in Nat /\ 0 \in 0..(Size - 1)
  BY GpsAssumption
<1>1. L \in Nat /\ \A h \in 0..(L - 1) : buf[h] # NUL
  <2>1. L \in 0..(Size - 1 - 0) /\ \A h \in 0..(0 + L - 1) : buf[h] # NUL
    BY <1>0, StringEnds DEF InBuffer
  <2> HIDE DEF L
  <2>2. QED
    BY <1>0, <2>1
<1>2. HasLine(buf, 0) => \E h \in 0..(L - 1) : buf[h] = NewLine
  <2>1. HasLine(buf, 0) <=> \E h \in 0..(0 + L - 1) : buf[h] = NewLine
    BY <1>0, HasLineIs DEF InBuffer
  <2> HIDE DEF L
  <2>2. 0 + L - 1 = L - 1
    BY <1>1
  <2>3. QED
    BY <2>1, <2>2
<1> HIDE DEF L
<1>3. ~(e < L)
  BY <1>1 DEF NoLine
<1>4. QED
  BY <1>1, <1>2, <1>3 DEF NoLine

\* The first newline is the end of the line at the head (strchr).
LEMMA LineFound ==
  ASSUME InBuffer, Sending, NEW e \in 1..len, Whole(e)
  PROVE  FirstNewLine(buf) = e - 1
<1> DEFINE L == StrLen(buf, 0)
<1>0. Size \in Nat /\ len \in Nat /\ len <= Size - 1 /\ 0 \in 0..(Size - 1) /\ e \in Nat /\ e >= 1 /\ e <= len
  BY GpsAssumption DEF InBuffer
<1>1. L \in 0..(Size - 1) /\ buf[L] = NUL
  <2>1. L \in 0..(Size - 1 - 0) /\ buf[0 + L] = NUL
    BY <1>0, StringEnds DEF InBuffer
  <2> HIDE DEF L
  <2>2. QED
    BY <1>0, <2>1
<1> HIDE DEF L
<1>2. /\ buf[e - 1] = NewLine
      /\ \A h \in 0..(e - 1) : buf[h] # NUL
      /\ \A h \in 0..(e - 2) : buf[h] # NewLine
  <2>1. PICK n \in Fixes \cup {0} : e = Len(Words(n)) /\ Reads(0, e, Words(n))
    BY DEF Whole, Heard, Sending
  <2>2. ASSUME NEW h \in 0..(e - 1)
        PROVE  h + 1 \in 1..e /\ buf[h] = Words(n)[h + 1]
    <3>1. h + 1 \in 1..(e - 0) /\ 0 + (h + 1) - 1 = h
      BY <1>0
    <3>2. QED
      BY <1>0, <2>1, <3>1 DEF Reads
  <2>3. buf[e - 1] = NewLine
    <3>1. e - 1 \in 0..(e - 1) /\ (e - 1) + 1 = e
      BY <1>0
    <3>2. QED
      BY <2>1, <2>2, <3>1, WordsAre
  <2>4. ASSUME NEW h \in 0..(e - 1)
        PROVE  buf[h] # NUL
    BY <2>1, <2>2, WordsAre
  <2>5. ASSUME NEW h \in 0..(e - 2)
        PROVE  buf[h] # NewLine
    <3>1. h \in 0..(e - 1) /\ h + 1 \in 1..(e - 1)
      BY <1>0
    <3>2. QED
      BY <2>1, <2>2, <3>1, WordsAre
  <2>6. QED
    BY <2>3, <2>4, <2>5
<1>3. e - 1 \in 0..(L - 1)
  <2>1. ~(L \in 0..(e - 1))
    BY <1>1, <1>2
  <2>2. QED
    BY <1>0, <1>1, <2>1
<1>4. \A i \in 0..(L - 1) : buf[i] = NewLine /\ (\A h \in 0..(i - 1) : buf[h] # NewLine) => i = e - 1
  <2> SUFFICES ASSUME NEW i \in 0..(L - 1), buf[i] = NewLine, \A h \in 0..(i - 1) : buf[h] # NewLine
               PROVE  i = e - 1
    OBVIOUS
  <2>1. ~(i < e - 1)
    BY <1>0, <1>1, <1>2
  <2>2. ~(i > e - 1)
    BY <1>0, <1>1, <1>2
  <2>3. QED
    BY <1>0, <1>1, <2>1, <2>2
<1>5. \A h \in 0..((e - 1) - 1) : buf[h] # NewLine
  BY <1>0, <1>2
<1>6. QED
  BY <1>2, <1>3, <1>4, <1>5 DEF FirstNewLine, L

-----------------------------------------------------------------------------
\* The interrupt and the receiver leave what is coming the end of the sentence.
LEMMA SendingStays == Sending /\ [GpsNext]_gpsVars => Sending'
<1> SUFFICES ASSUME Sending, [GpsNext]_gpsVars
             PROVE  Sending'
  OBVIOUS
<1>1. CASE Begins
  <2>1. fix' \in Fixes \cup {0} /\ coming' = Words(fix') /\ sent' = sent
    BY <1>1 DEF Begins, Words
  <2>2. Words(fix') \in Seq(Tokens) /\ Len(Words(fix')) \in Nat
    BY <2>1, WordsAre
  <2>3. QED
    BY <2>1, <2>2 DEF Sending
<1>2. CASE gps_rx_isr
  <2> DEFINE total == Len(Words(fix))
  <2>1. PICK n \in 1..Len(coming) :
          /\ coming' = SubSeq(coming, n + 1, Len(coming)) /\ fix' = fix
          /\ sent' = IF n = Len(coming) /\ fix # 0 THEN Append(sent, fix) ELSE sent
    BY <1>2 DEF gps_rx_isr
  <2>2. coming \in Seq(Tokens) /\ Len(coming) \in Nat /\ total \in Nat /\ Len(coming) <= total
        /\ \A j \in 1..Len(coming) : coming[j] = Words(fix)[total - Len(coming) + j]
    BY WordsAre DEF Sending
  <2>3. sent' \in Seq(Fixes)
    BY <2>1 DEF Sending
  <2> HIDE DEF total
  <2>4. coming' \in Seq(Tokens) /\ Len(coming') = Len(coming) - n
        /\ \A j \in 1..(Len(coming) - n) : coming'[j] = coming[n + j]
    BY <2>1, <2>2
  <2>5. ASSUME NEW j \in 1..Len(coming')
        PROVE  coming'[j] = Words(fix)[total - Len(coming') + j]
    <3>1. j \in 1..(Len(coming) - n) /\ n \in Nat /\ j \in Nat
      BY <2>1, <2>2, <2>4
    <3>2. n + j \in 1..Len(coming)
      BY <2>1, <2>2, <3>1
    <3>3. total - Len(coming) + (n + j) = total - Len(coming') + j
      BY <2>2, <2>4, <3>1
    <3>4. QED
      BY <2>2, <2>4, <3>1, <3>2, <3>3
  <2>6. Len(coming') <= total
    BY <2>1, <2>2, <2>4
  <2>7. QED
    BY <2>1, <2>3, <2>4, <2>5, <2>6 DEF Sending, total
<1>3. CASE gps_loop
  BY <1>3 DEF gps_loop, Find, Cut, Copy, Measure, Move, SetLength, gps_line, Sending
<1>4. CASE UNCHANGED gpsVars
  BY <1>4 DEF gpsVars, Sending
<1>5. QED
  BY <1>1, <1>2, <1>3, <1>4 DEF GpsNext

\* What the interrupt stores, when gps_loop copes with it, follows what was stored
\* before, up to the end of the sentence or a part of it (gps_rx_isr).
Stores(m) ==
  /\ len' = m /\ m > len /\ m <= Size - 1 /\ buf'[m] = NUL
  /\ \A h \in 0..(len - 1) : buf'[h] = buf[h]
  /\ \A h \in len..(m - 1) : /\ buf'[h] = Words(fix)[Begun + (h - len) + 1]
                             /\ buf'[h] # NUL
  /\ fix' = fix /\ Begun \in Nat
  /\ \/ coming' # <<>> /\ Begun' = Begun + (m - len) /\ Heard' = Heard
     \/ /\ coming' = <<>> /\ Begun + (m - len) = Len(Words(fix))
        /\ buf'[m - 1] = NewLine /\ Heard' = Heard \cup {fix}

LEMMA Received ==
  ASSUME InBuffer, Sending, gps_rx_isr, CopesNow
  PROVE  \E m \in Nat : Stores(m)
<1> DEFINE W == Words(fix)
<1>0. Size \in Nat /\ len \in 0..(Size - 1)
  BY GpsAssumption DEF InBuffer
<1>1. PICK n \in 1..Len(coming) :
        /\ n <= Size - len - 1
        /\ buf' = [i \in 0..(Size - 1) |->
                     IF i \in len..(len + n - 1) THEN coming[i - len + 1]
                     ELSE IF i = len + n THEN NUL ELSE buf[i]]
        /\ len' = len + n
        /\ coming' = SubSeq(coming, n + 1, Len(coming))
        /\ sent' = IF n = Len(coming) /\ fix # 0 THEN Append(sent, fix) ELSE sent
        /\ fix' = fix
  BY DEF gps_rx_isr, Room, CopesNow, StoresAt
<1>2. coming \in Seq(Tokens) /\ Len(coming) \in Nat /\ Len(W) \in Nat /\ Len(coming) <= Len(W)
      /\ \A j \in 1..Len(coming) : coming[j] = W[Len(W) - Len(coming) + j]
  BY WordsAre DEF Sending
<1>3. n \in Nat /\ n >= 1 /\ n <= Len(coming) /\ Len(coming) > 0
  BY <1>1, <1>2
<1> DEFINE m == len + n
<1>4. coming # <<>> /\ Begun = Len(W) - Len(coming)
  BY <1>2, <1>3 DEF Begun
<1>5. coming' \in Seq(Tokens) /\ Len(coming') = Len(coming) - n
  BY <1>1, <1>2, <1>3
<1>6. W[Len(W)] = NewLine /\ \A j \in 1..Len(W) : W[j] # NUL
  BY WordsAre DEF Sending
<1> HIDE DEF W
<1>7. m \in Nat /\ m <= Size - 1 /\ m > len /\ len' = m
  BY <1>0, <1>1, <1>3
<1>8. buf'[m] = NUL /\ \A h \in 0..(len - 1) : buf'[h] = buf[h]
  <2>1. ~(len + n \in len..(len + n - 1)) /\ len + n \in 0..(Size - 1)
    BY <1>0, <1>1, <1>3
  <2>2. ASSUME NEW h \in 0..(len - 1)
        PROVE  ~(h \in len..(len + n - 1)) /\ h # len + n /\ h \in 0..(Size - 1)
    BY <1>0, <1>3
  <2>3. QED
    BY <1>1, <2>1, <2>2
<1>9. ASSUME NEW h \in len..(m - 1)
      PROVE  /\ Begun + (h - len) + 1 \in 1..Len(W)
             /\ buf'[h] = W[Begun + (h - len) + 1]
  <2>1. h \in len..(len + n - 1) /\ h \in 0..(Size - 1) /\ h - len + 1 \in 1..Len(coming)
    BY <1>0, <1>1, <1>3, <1>7
  <2>2. buf'[h] = coming[h - len + 1]
    BY <1>1, <2>1
  <2>3. Len(W) - Len(coming) + (h - len + 1) = Begun + (h - len) + 1
        /\ Begun + (h - len) + 1 \in 1..Len(W)
    BY <1>0, <1>2, <1>4, <2>1
  <2>4. QED
    BY <1>2, <2>1, <2>2, <2>3
<1>10. /\ fix' = fix /\ len' = m
       /\ \A h \in len..(m - 1) : buf'[h] = W[Begun + (h - len) + 1] /\ buf'[h] # NUL
  BY <1>1, <1>6, <1>7, <1>9
<1> HIDE DEF m
<1>11. CASE coming' # <<>>
  <2>1. n # Len(coming)
    BY <1>5, <1>11
  <2>2. Begun' = Len(W) - Len(coming')
    BY <1>1, <1>11 DEF Begun, W
  <2>3. Begun' = Begun + (m - len) /\ Begun \in Nat
    BY <1>0, <1>1, <1>2, <1>3, <1>4, <1>5, <2>2 DEF m
  <2>4. Heard' = Heard
    BY <1>1, <2>1 DEF Heard
  <2>5. QED
    BY <1>7, <1>8, <1>10, <1>11, <2>3, <2>4 DEF W, Stores
<1>12. CASE coming' = <<>>
  <2>1. n = Len(coming)
    BY <1>2, <1>3, <1>5, <1>12
  <2>2. Begun + (m - len) = Len(W) /\ Begun \in Nat
    BY <1>0, <1>1, <1>2, <1>3, <1>4, <2>1 DEF m
  <2>3. buf'[m - 1] = NewLine
    <3>1. len \in Nat
      BY <1>0
    <3>2. m - 1 \in len..(m - 1)
      BY <1>3, <3>1 DEF m
    <3>3. Begun + ((m - 1) - len) + 1 = Len(W)
      BY <1>7, <2>2, <3>1
    <3>4. QED
      BY <1>6, <1>9, <3>2, <3>3
  <2>4. Heard' = Heard \cup {fix}
    <3>1. sent' = IF fix # 0 THEN Append(sent, fix) ELSE sent
      BY <1>1, <2>1
    <3>2. sent \in Seq(Fixes) /\ fix \in Fixes \cup {0}
      BY DEF Sending
    <3>3. CASE fix = 0
      BY <3>1, <3>3 DEF Heard
    <3>4. CASE fix # 0
      <4>1. sent' = Append(sent, fix) /\ fix \in Fixes
        BY <3>1, <3>2, <3>4
      <4>2. DOMAIN sent' = 1..(Len(sent) + 1) /\ sent'[Len(sent) + 1] = fix
            /\ DOMAIN sent = 1..Len(sent) /\ Len(sent) \in Nat
            /\ \A i \in 1..Len(sent) : sent'[i] = sent[i]
        BY <3>2, <4>1
      <4>3. QED
        BY <4>2 DEF Heard
    <3>5. QED
      BY <3>3, <3>4
  <2>5. QED
    BY <1>7, <1>8, <1>10, <1>12, <2>2, <2>3, <2>4 DEF W, Stores
<1>13. coming' = <<>> \/ coming' # <<>>
  OBVIOUS
<1>14. QED
  BY <1>7, <1>11, <1>12, <1>13

\* The part of a sentence that is in the buffer grows by what is received.
LEMMA ReadsGrow ==
  ASSUME InBuffer, NEW m \in Nat, Stores(m), NEW a \in Nat, a <= len, Partial(a, len)
  PROVE  \A j \in 1..(m - a) : buf'[a + j - 1] = Words(fix)[j]
<1>0. len \in Nat /\ m > len /\ Begun \in Nat /\ len = a + Begun
  BY GpsAssumption DEF InBuffer, Partial, Stores
<1> TAKE j \in 1..(m - a)
<1>1. CASE j <= len - a
  <2>1. j \in 1..(len - a) /\ a + j - 1 \in 0..(len - 1)
    BY <1>0, <1>1
  <2>2. QED
    BY <2>1 DEF Partial, Reads, Stores
<1>2. CASE ~(j <= len - a)
  <2>1. a + j - 1 \in len..(m - 1)
    BY <1>0, <1>2
  <2>2. Begun + ((a + j - 1) - len) + 1 = j
    BY <1>0, <1>2
  <2>3. QED
    BY <2>1, <2>2 DEF Stores
<1>3. QED
  BY <1>1, <1>2

LEMMA PartGrows ==
  ASSUME InBuffer, NEW m \in Nat, Stores(m), NEW a \in Nat, Partial(a, len), coming' # <<>>
  PROVE  Partial(a, len)'
<1>0. len \in Nat /\ m > len /\ Begun \in Nat /\ len = a + Begun /\ Begun' = Begun + (m - len)
  BY GpsAssumption DEF InBuffer, Partial, Stores
<1>1. m = a + Begun' /\ a <= len
  BY <1>0
<1>2. \A j \in 1..(m - a) : buf'[a + j - 1] = Words(fix)[j]
  BY <1>1, ReadsGrow
<1>3. len' = m /\ fix' = fix
  BY DEF Stores
<1>4. QED
  BY <1>1, <1>2, <1>3 DEF Partial, Reads

\* What is received does not touch the line at the head.
LEMMA WholeStays ==
  ASSUME InBuffer, NEW m \in Nat, Stores(m), NEW e \in 1..len, Whole(e)
  PROVE  Whole(e)'
<1>0. len \in Nat
  BY GpsAssumption DEF InBuffer
<1>1. PICK n \in Heard : e = Len(Words(n)) /\ Reads(0, e, Words(n))
  BY DEF Whole
<1>2. n \in Heard'
  BY DEF Stores
<1>3. ASSUME NEW j \in 1..(e - 0)
      PROVE  buf'[0 + j - 1] = Words(n)[j]
  <2>1. 0 + j - 1 \in 0..(len - 1)
    BY <1>0
  <2>2. QED
    BY <1>1, <2>1 DEF Reads, Stores
<1>4. QED
  BY <1>1, <1>2, <1>3 DEF Whole, Reads

\* What is received leaves a line at the head whole, and after it a line or a part of one.
LEMMA RestGrows ==
  ASSUME InBuffer, NEW m \in Nat, Stores(m), NEW a \in Nat, Rest(a)
  PROVE  Rest(a)'
<1>0. len \in Nat /\ m > len /\ a <= len
  BY GpsAssumption DEF InBuffer, Rest, Stores
<1>1. buf'[m] = NUL /\ a <= m /\ len' = m
  BY <1>0 DEF Stores
<1>2. ASSUME NEW h \in a..(m - 1)
      PROVE  buf'[h] # NUL
  <2>1. CASE h < len
    <3>1. h \in 0..(len - 1) /\ h \in a..(len - 1)
      BY <1>0, <2>1
    <3>2. QED
      BY <3>1 DEF Rest, Stores
  <2>2. CASE ~(h < len)
    <3>1. h \in len..(m - 1)
      BY <1>0, <2>2
    <3>2. QED
      BY <3>1 DEF Stores
  <2>3. QED
    BY <2>1, <2>2
<1>3. (\E h \in a..(m - 1) : buf'[h] = NewLine) \/ Partial(a, len)'
  <2>1. CASE \E h \in a..(len - 1) : buf[h] = NewLine
    <3>1. PICK h \in a..(len - 1) : buf[h] = NewLine
      BY <2>1
    <3>2. h \in 0..(len - 1) /\ h \in a..(m - 1)
      BY <1>0
    <3>3. QED
      BY <3>1, <3>2 DEF Stores
  <2>2. CASE coming' = <<>>
    <3>1. m - 1 \in a..(m - 1)
      BY <1>0
    <3>2. QED
      BY <2>2, <3>1 DEF Stores
  <2>3. CASE Partial(a, len) /\ coming' # <<>>
    BY <2>3, PartGrows
  <2>4. QED
    BY <2>1, <2>2, <2>3 DEF Rest
<1>4. QED
  BY <1>1, <1>2, <1>3 DEF Rest

\* The same of the string that gps_loop is to look at next.
LEMMA StoredGrows ==
  ASSUME InBuffer, Sending, Sending', NEW m \in Nat, Stores(m), Stored
  PROVE  Stored'
<1>0. Size \in Nat /\ len \in Nat /\ m > len /\ m \in 0..(Size - 1) /\ len' = m
      /\ buf'[m] = NUL /\ fix' = fix
  BY GpsAssumption DEF InBuffer, Stores
<1>1. ASSUME NEW e \in 1..len, Whole(e), Rest(e)
      PROVE  Stored'
  <2>1. e \in Nat /\ e \in 1..m
    BY <1>0
  <2>2. Rest(e)'
    BY <1>1, <2>1, RestGrows
  <2>3. Whole(e)'
    BY <1>1, WholeStays
  <2>4. QED
    BY <1>0, <2>1, <2>2, <2>3 DEF Stored
<1>2. CASE Partial(0, len) /\ coming' # <<>>
  <2>1. Partial(0, len)'
    BY <1>2, PartGrows
  <2>2. m = 0 + Begun' /\ \A j \in 1..(m - 0) : buf'[0 + j - 1] = Words(fix)[j]
    BY <1>0, <2>1 DEF Partial, Reads
  <2>3. m < Len(Words(fix)) /\ Len(Words(fix)) \in Nat
    <3>1. coming' \in Seq(Tokens) /\ coming' # <<>>
      BY <1>2 DEF Sending
    <3>2. PICK l \in Nat : l = Len(coming') /\ l >= 1
      BY <3>1
    <3>3. Begun' = Len(Words(fix)) - l
      BY <1>0, <3>1, <3>2 DEF Begun
    <3>4. Len(Words(fix)) \in Nat
      BY WordsAre DEF Sending
    <3>5. QED
      BY <2>2, <3>2, <3>3, <3>4
  <2>4. ASSUME NEW h \in 0..(m - 1)
        PROVE  buf'[h] # NewLine
    <3>1. h + 1 \in 1..(m - 0) /\ 0 + (h + 1) - 1 = h /\ h + 1 \in 1..(Len(Words(fix)) - 1)
      BY <2>3
    <3>2. buf'[0 + (h + 1) - 1] = Words(fix)[h + 1]
      BY <2>2, <3>1
    <3>3. Words(fix)[h + 1] # NewLine
      BY <3>1, WordsAre DEF Sending
    <3>4. QED
      BY <3>1, <3>2, <3>3
  <2>5. NoLine(m)'
    BY <1>0, <2>4 DEF NoLine
  <2>6. m \in len'..(Size - 1)
    BY <1>0
  <2>7. QED
    BY <2>1, <2>5, <2>6 DEF Stored
<1>3. CASE Partial(0, len) /\ coming' = <<>>
  <2>1. Begun + (m - len) = Len(Words(fix)) /\ Begun \in Nat /\ fix \in Heard'
    BY <1>3 DEF Stores
  <2>2. len = 0 + Begun /\ 0 <= len
    BY <1>0, <1>3 DEF Partial
  <2>3. m = Len(Words(fix))
    BY <1>0, <2>1, <2>2
  <2>4. \A j \in 1..(m - 0) : buf'[0 + j - 1] = Words(fix)[j]
    BY <1>3, <2>2, ReadsGrow
  <2>5. Whole(m)'
    BY <2>1, <2>3, <2>4 DEF Whole, Reads
  <2>6. m..(m - 1) = {} /\ 1..(m - m) = {} /\ m = m + 0 /\ m <= m /\ m \in 1..m
    BY <1>0
  <2>7. Partial(m, len)'
    <3>1. Begun' = 0
      BY <1>3 DEF Begun
    <3>2. QED
      BY <1>0, <2>6, <3>1 DEF Partial, Reads
  <2>8. Rest(m)'
    BY <1>0, <2>6, <2>7 DEF Rest
  <2>9. QED
    BY <1>0, <2>5, <2>6, <2>8 DEF Stored
<1>4. QED
  BY <1>1, <1>2, <1>3 DEF Stored

\* The receiver begins a sentence where the last one ended.
LEMMA BeginsThere ==
  ASSUME InBuffer, Begins
  PROVE  /\ \A a \in 0..(Size - 1), e \in 0..(Size - 1) : Partial(a, e) => Partial(a, e)'
         /\ \A a \in 0..(Size - 1) : Rest(a) => Rest(a)'
         /\ \A e \in 0..(Size - 1) : NoLine(e) => NoLine(e)'
         /\ \A e \in 0..Size : Whole(e) => Whole(e)'
         /\ Stored => Stored'
<1>0. Size \in Nat /\ len \in 0..(Size - 1)
  BY GpsAssumption DEF InBuffer
<1>1. /\ Begun = 0 /\ Begun' = 0 /\ Heard' = Heard
      /\ UNCHANGED <<buf, len>>
  <2>1. Begun = 0 /\ UNCHANGED <<buf, len, sent>>
    BY DEF Begins, Begun
  <2>2. coming' = Words(fix') /\ fix' \in Fixes \cup {0}
    BY DEF Begins, Words
  <2>3. Begun' = 0
    BY <2>2, WordsAre DEF Begun
  <2>4. QED
    BY <2>1, <2>3 DEF Heard
<1>2. ASSUME NEW a \in 0..(Size - 1), NEW e \in 0..(Size - 1), Partial(a, e)
      PROVE  Partial(a, e)'
  <2>1. e = a
    BY <1>0, <1>1, <1>2 DEF Partial
  <2>2. 1..(e - a) = {} /\ e = a + 0
    BY <1>0, <2>1
  <2>3. QED
    BY <1>1, <2>2 DEF Partial, Reads
<1>3. ASSUME NEW a \in 0..(Size - 1), Rest(a)
      PROVE  Rest(a)'
  <2>1. Partial(a, len) => Partial(a, len)'
    <3>1. PICK l \in 0..(Size - 1) : l = len
      BY <1>0
    <3>2. Partial(a, l) => Partial(a, l)'
      BY <1>2
    <3>3. l' = len' /\ l' = l
      BY <1>1, <3>1
    <3>4. QED
      BY <3>1, <3>2, <3>3 DEF Partial, Reads
  <2>2. QED
    BY <1>1, <1>3, <2>1 DEF Rest
<1>4. ASSUME NEW e \in 0..(Size - 1), NoLine(e)
      PROVE  NoLine(e)'
  BY <1>1, <1>4 DEF NoLine
<1>5. ASSUME NEW e \in 0..Size, Whole(e)
      PROVE  Whole(e)'
  BY <1>1, <1>5 DEF Whole, Reads
<1>6. ASSUME Stored
      PROVE  Stored'
  <2>1. CASE Partial(0, len) /\ \E e \in len..(Size - 1) : NoLine(e)
    <3>1. PICK l \in 0..(Size - 1) : l = len
      BY <1>0
    <3>2. 0 \in 0..(Size - 1)
      BY <1>0
    <3>3. Partial(0, l)'
      BY <1>2, <2>1, <3>1, <3>2
    <3>4. Partial(0, len)'
      BY <1>1, <3>1, <3>3 DEF Partial, Reads
    <3>5. PICK e \in len..(Size - 1) : NoLine(e)
      BY <2>1
    <3>6. e \in 0..(Size - 1)
      BY <1>0
    <3>7. NoLine(e)'
      BY <1>4, <3>5, <3>6
    <3>8. QED
      BY <1>1, <3>4, <3>7 DEF Stored
  <2>2. ASSUME NEW e \in 1..len, Whole(e), Rest(e)
        PROVE  Stored'
    <3>1. e \in 0..(Size - 1) /\ e \in 0..Size
      BY <1>0
    <3>2. Whole(e)' /\ Rest(e)'
      BY <1>3, <1>5, <2>2, <3>1
    <3>3. QED
      BY <1>1, <3>2 DEF Stored
  <2>3. QED
    BY <1>6, <2>1, <2>2 DEF Stored
<1>7. QED
  BY <1>2, <1>3, <1>4, <1>5, <1>6

-----------------------------------------------------------------------------
\* The sentence being received moves with the rest to the buffer's head (memmove).
LEMMA MovesDown ==
  ASSUME InBuffer, Sending, Move, Partial(nl + 1, len), NoLine(len), remain = len - nl - 1
  PROVE  Partial(0, remain)' /\ NoLine(len)' /\ remain <= len
<1>0. Size \in Nat /\ nl \in Nat /\ len \in Nat /\ len <= Size - 1 /\ remain \in Nat
      /\ nl + 1 + remain = len /\ remain <= len
  BY GpsAssumption DEF InBuffer, Move
<1>1. /\ \A i \in 0..(Size - 1) : buf'[i] = IF i < remain THEN buf[nl + 1 + i] ELSE buf[i]
      /\ UNCHANGED <<len, nl, remain, coming, fix, sent>>
  BY DEF Move, Moved
<1>2. Begun' = Begun /\ remain = 0 + Begun
  <2>1. Begun' = Begun
    BY <1>1 DEF Begun
  <2>2. len = nl + 1 + Begun /\ Begun \in Nat
    BY WordsAre DEF Partial, Begun, Sending
  <2>3. QED
    BY <1>0, <2>1, <2>2
<1>3. ASSUME NEW j \in 1..(remain - 0)
      PROVE  buf'[0 + j - 1] = Words(fix)[j]
  <2>1. 0 + j - 1 \in 0..(Size - 1) /\ 0 + j - 1 < remain /\ j \in 1..(len - (nl + 1))
        /\ nl + 1 + (0 + j - 1) = (nl + 1) + j - 1
    BY <1>0
  <2>2. buf'[0 + j - 1] = buf[(nl + 1) + j - 1]
    BY <1>1, <2>1
  <2>3. QED
    BY <2>1, <2>2 DEF Partial, Reads
<1>4. Partial(0, remain)'
  BY <1>1, <1>2, <1>3 DEF Partial, Reads
<1>5. buf'[len] = NUL
  <2>1. len \in 0..(Size - 1) /\ ~(len < remain)
    BY <1>0
  <2>2. QED
    BY <1>1, <2>1 DEF NoLine
<1>6. ASSUME NEW h \in 0..(len - 1)
      PROVE  buf'[h] # NewLine
  <2>1. h \in 0..(Size - 1) /\ (h < remain => nl + 1 + h \in 0..(len - 1))
    BY <1>0
  <2>2. QED
    BY <1>1, <2>1 DEF NoLine
<1>7. NoLine(len)'
  BY <1>1, <1>5, <1>6 DEF NoLine
<1>8. QED
  BY <1>0, <1>4, <1>7

\* The line at the head becomes a string: its end is a NUL, what follows stays (gps_loop).
LEMMA CutOff ==
  ASSUME InBuffer, Sending, Cut, Whole(nl + 1), Rest(nl + 1)
  PROVE  /\ \E n \in Heard' : nl' + 1 = Len(Words(n)) /\ Reads(0, nl, Words(n))'
         /\ buf'[nl'] = NUL /\ Rest(nl + 1)'
<1>0. Size \in Nat /\ nl \in Nat /\ nl <= Size - 2 /\ len \in Nat /\ len <= Size - 1 /\ nl < len
  BY GpsAssumption DEF InBuffer, Cut, Rest
<1>1. /\ buf'[nl] = NUL /\ \A h \in 0..(Size - 1) : h # nl => buf'[h] = buf[h]
      /\ UNCHANGED <<len, nl, coming, fix, sent>>
  <2>1. nl \in 0..(Size - 1) /\ DOMAIN buf = 0..(Size - 1)
    BY <1>0 DEF InBuffer
  <2>2. buf' = [buf EXCEPT ![nl] = NUL]
    BY DEF Cut
  <2>3. QED
    BY <2>1, <2>2 DEF Cut
<1>2. Heard' = Heard /\ Begun' = Begun
  BY <1>1 DEF Heard, Begun
<1>3. PICK n \in Heard : nl + 1 = Len(Words(n)) /\ Reads(0, nl + 1, Words(n))
  BY DEF Whole
<1>4. ASSUME NEW j \in 1..(nl - 0)
      PROVE  buf'[0 + j - 1] = Words(n)[j]
  <2>1. j \in 1..(nl + 1 - 0) /\ 0 + j - 1 \in 0..(Size - 1) /\ 0 + j - 1 # nl
    BY <1>0
  <2>2. QED
    BY <1>1, <1>3, <2>1 DEF Reads
<1>5. Reads(0, nl, Words(n))'
  BY <1>1, <1>4 DEF Reads
<1>6. ASSUME NEW h \in (nl + 1)..len
      PROVE  buf'[h] = buf[h]
  <2>1. h \in 0..(Size - 1) /\ h # nl
    BY <1>0
  <2>2. QED
    BY <1>1, <2>1
<1>7. Partial(nl + 1, len) => Partial(nl + 1, len)'
  <2> SUFFICES ASSUME Partial(nl + 1, len)
               PROVE  Partial(nl + 1, len)'
    OBVIOUS
  <2>1. ASSUME NEW j \in 1..(len - (nl + 1))
        PROVE  buf'[(nl + 1) + j - 1] = Words(fix)[j]
    <3>1. (nl + 1) + j - 1 \in (nl + 1)..len
      BY <1>0
    <3>2. QED
      BY <1>6, <3>1 DEF Partial, Reads
  <2>2. QED
    BY <1>1, <1>2, <2>1 DEF Partial, Reads
<1>8. len \in (nl + 1)..len /\ \A h \in (nl + 1)..(len - 1) : h \in (nl + 1)..len
  BY <1>0
<1>9. Rest(nl + 1)'
  BY <1>0, <1>1, <1>6, <1>7, <1>8 DEF Rest
<1>10. QED
  BY <1>1, <1>2, <1>3, <1>5, <1>9

\* The line, a sentence without its end, is copied up to its NUL (strncpy).
LEMMA CopiedIs ==
  ASSUME InBuffer, Sending, Copy,
         \E n \in Heard : nl + 1 = Len(Words(n)) /\ Reads(0, nl, Words(n)), buf[nl] = NUL
  PROVE  LineIs' /\ \A h \in 0..nl : buf[h] # NewLine
<1>0. Size \in Nat /\ nl \in Nat /\ nl <= Size - 2 /\ 0 \in 0..(Size - 1)
  BY GpsAssumption DEF InBuffer, Copy
<1>1. PICK n \in Heard : nl + 1 = Len(Words(n)) /\ Reads(0, nl, Words(n))
  OBVIOUS
<1>2. n \in Fixes \cup {0}
  BY DEF Heard, Sending
<1>3. ASSUME NEW h \in 0..(nl - 1)
      PROVE  /\ buf[h] = Words(n)[h + 1] /\ buf[h] \in Tokens
             /\ buf[h] # NUL /\ buf[h] # NewLine
  <2>1. h + 1 \in 1..(nl - 0) /\ 0 + (h + 1) - 1 = h
    BY <1>0
  <2>2. buf[0 + (h + 1) - 1] = Words(n)[h + 1]
    BY <1>1, <2>1 DEF Reads
  <2>3. h + 1 \in 1..Len(Words(n)) /\ h + 1 \in 1..(Len(Words(n)) - 1)
    BY <1>0, <1>1
  <2>4. Words(n)[h + 1] \in Tokens \ {NUL} /\ Words(n)[h + 1] # NewLine
    BY <1>2, <2>3, WordsAre
  <2>5. QED
    BY <2>1, <2>2, <2>4
<1> DEFINE L == StrLen(buf, 0)
<1>4. L \in Nat /\ buf[L] = NUL /\ \A h \in 0..(L - 1) : buf[h] # NUL
  <2>1. L \in 0..(Size - 1 - 0) /\ buf[0 + L] = NUL /\ \A h \in 0..(0 + L - 1) : buf[h] # NUL
    BY <1>0, StringEnds DEF InBuffer
  <2> HIDE DEF L
  <2>2. L \in Nat /\ 0 + L = L /\ 0 + L - 1 = L - 1
    BY <1>0, <2>1
  <2>3. QED
    BY <2>1, <2>2
<1>5. line' \in Copies([h \in 1..L |-> buf[0 + h - 1]])
  BY DEF Copy, StrAt, L
<1> HIDE DEF L
<1>6. L = nl
  <2>1. ~(L < nl)
    <3>1. L < nl => L \in 0..(nl - 1)
      BY <1>0, <1>4
    <3>2. QED
      BY <1>3, <1>4, <3>1
  <2>2. ~(L > nl)
    <3>1. L > nl => nl \in 0..(L - 1)
      BY <1>0, <1>4
    <3>2. QED
      BY <1>4, <3>1
  <2>3. QED
    BY <1>0, <1>4, <2>1, <2>2
<1>61. line' = [h \in 1..nl |-> buf[0 + h - 1]]
  <2> DEFINE c == [h \in 1..nl |-> buf[0 + h - 1]]
  <2>1. Len(c) = nl
    BY <1>0
  <2>2. nl < LineSize
    <3>1. nl + 1 \in 2..7
      BY <1>1, <1>2, WordsAre
    <3>2. QED
      BY <1>0, <3>1, GpsAssumption
  <2> HIDE DEF c
  <2>3. Copies(c) = {c}
    BY <2>1, <2>2 DEF Copies
  <2>4. QED
    BY <1>5, <1>6, <2>3 DEF c
<1>7. ASSUME NEW h \in 1..nl
      PROVE  line'[h] = Words(n)[h] /\ line'[h] \in Tokens
  <2>1. 0 + h - 1 \in 0..(nl - 1) /\ (0 + h - 1) + 1 = h
    BY <1>0
  <2>2. line'[h] = buf[0 + h - 1]
    BY <1>61
  <2>3. buf[0 + h - 1] = Words(n)[(0 + h - 1) + 1] /\ buf[0 + h - 1] \in Tokens
    BY <1>3, <2>1
  <2>4. QED
    BY <2>1, <2>2, <2>3
<1>8. line' \in Seq(Tokens) /\ Len(line') = nl
  <2>1. line' \in [1..nl -> Tokens]
    BY <1>61, <1>7
  <2>2. QED
    BY <1>0, <2>1
<1>9. LineIs'
  <2>1. n \in Heard'
    BY DEF Copy, Heard
  <2>2. nl = Len(Words(n)) - 1
    BY <1>0, <1>1
  <2>3. QED
    BY <1>7, <1>8, <2>1, <2>2 DEF LineIs
<1>10. ASSUME NEW h \in 0..nl
       PROVE  buf[h] # NewLine
  <2>1. h = nl \/ h \in 0..(nl - 1)
    BY <1>0
  <2>2. NUL # NewLine
    BY DEF NUL, NewLine, Token
  <2>3. QED
    BY <1>3, <2>1, <2>2
<1>11. QED
  BY <1>9, <1>10

\* A sentence sets both coordinates to its fix, or none, and on_movement is told where
\* that is (gps_location_line).
LEMMA ParsedIsSent ==
  ASSUME Sending, LineIs, gps_line, Sent(<<lat, lon>>), Sent(was)
  PROVE  Sent(<<lat, lon>>)' /\ Sent(was)'
<1>1. PICK n \in Heard : /\ line \in Seq(Tokens) /\ Len(line) = Len(Words(n)) - 1
                         /\ \A j \in 1..Len(line) : line[j] = Words(n)[j]
  BY DEF LineIs
<1>2. Sent(<<lat', lon'>>) /\ Sent(was') => Sent(<<lat, lon>>)' /\ Sent(was)'
  BY DEF gps_line, Sent
<1>3. line # <<>> /\ Head(line) = Header /\ Tail(line) \in Seq(Tokens)
      /\ Len(Tail(line)) = Len(line) - 1
      /\ \A j \in 1..(Len(line) - 1) : Tail(line)[j] = Words(n)[j + 1]
  <2>1. Len(Words(n)) \in 2..7 /\ n \in Fixes \cup {0}
    <3>1. n \in Fixes \cup {0}
      BY DEF Heard, Sending
    <3>2. QED
      BY <3>1, WordsAre
  <2>2. Len(line) \in Nat /\ Len(line) >= 1
    BY <1>1, <2>1
  <2>3. line # <<>> /\ Head(line) = line[1] /\ Tail(line) \in Seq(Tokens)
        /\ Len(Tail(line)) = Len(line) - 1
        /\ \A j \in 1..(Len(line) - 1) : Tail(line)[j] = line[j + 1]
    BY <1>1, <2>2
  <2>4. line[1] = Words(n)[1]
    BY <1>1, <2>2
  <2>5. Words(n)[1] = Header
    BY DEF Words, NoLock, Sentence
  <2>6. ASSUME NEW j \in 1..(Len(line) - 1)
        PROVE  line[j + 1] = Words(n)[j + 1]
    <3>1. j + 1 \in 1..Len(line)
      BY <2>2
    <3>2. QED
      BY <1>1, <3>1
  <2>7. QED
    BY <2>3, <2>4, <2>5, <2>6
<1> DEFINE f == Tail(line)
<1>4. gps_location_line(f)
  BY <1>3 DEF gps_line
<1>5. CASE n = 0
  <2>1. PICK t \in {TimeOnly, Nothing} : Words(n) = <<Header, t, NewLine>>
    BY <1>5 DEF Words, NoLock
  <2>2. Len(line) = 2
    BY <1>1, <2>1
  <2>3. f \in Seq(Tokens) /\ Len(f) = 1 /\ f[1] = t
    <3>1. 1 \in 1..(Len(line) - 1) /\ Len(line) - 1 = 1 /\ Words(n)[1 + 1] = t
      BY <2>1, <2>2
    <3>2. Tail(line)[1] = Words(n)[1 + 1] /\ Tail(line) \in Seq(Tokens) /\ Len(Tail(line)) = 1
      BY <1>3, <3>1
    <3>3. QED
      BY <3>1, <3>2
  <2> HIDE DEF f
  <2>4. f # <<>>
    <3>1. Len(f) # 0
      BY <2>3
    <3>2. QED
      BY <3>1
  <2>5. lat' = lat /\ lon' = lon /\ (was' = <<lat, lon>> \/ was' = was)
    BY <1>4, <2>1, <2>3, <2>4 DEF gps_location_line
  <2>6. QED
    BY <1>2, <2>5
<1>6. CASE n # 0
  <2>1. PICK t \in {Time, NoTime}, d \in {South(n)}, e \in {West(n)} :
          Words(n) = <<Header, Degrees(d), Sign(d), Degrees(e), Sign(e), t, NewLine>>
    BY <1>6 DEF Words, Sentence
  <2>2. Len(line) = 6
    BY <1>1, <2>1
  <2>3. Len(f) = 5 /\ f[1] = Degrees(d) /\ f[2] = Sign(d) /\ f[3] = Degrees(e) /\ f[4] = Sign(e)
    <3>1. 1..(Len(line) - 1) = 1..5 /\ Len(line) - 1 = 5
          /\ Words(n)[1 + 1] = Degrees(d) /\ Words(n)[2 + 1] = Sign(d)
          /\ Words(n)[3 + 1] = Degrees(e) /\ Words(n)[4 + 1] = Sign(e)
      BY <2>1, <2>2
    <3>2. Len(Tail(line)) = 5
      BY <1>3, <3>1
    <3>3. \A j \in 1..5 : Tail(line)[j] = Words(n)[j + 1]
      BY <1>3, <3>1
    <3>4. 1 \in 1..5 /\ 2 \in 1..5 /\ 3 \in 1..5 /\ 4 \in 1..5
      OBVIOUS
    <3> HIDE DEF f
    <3>5. /\ f[1] = Words(n)[1 + 1] /\ f[2] = Words(n)[2 + 1]
          /\ f[3] = Words(n)[3 + 1] /\ f[4] = Words(n)[4 + 1]
      BY <3>3, <3>4 DEF f
    <3>6. QED
      BY <3>1, <3>2, <3>5 DEF f
  <2> HIDE DEF f
  <2>4. /\ f[1].kind = "degrees" /\ f[2].kind = "sign" /\ f[3].kind = "degrees"
        /\ f[4].kind = "sign" /\ f[1].val = d /\ f[3].val = e
        /\ f[1] \notin {TimeOnly, Nothing}
    <3>1. \A c : /\ Degrees(c).kind = "degrees" /\ Degrees(c).val = c /\ Sign(c).kind = "sign"
      BY DEF Degrees, Sign, Token
    <3>2. TimeOnly.kind = ",,,,time" /\ Nothing.kind = ",,,,V"
      BY DEF Token, TimeOnly, Nothing
    <3>3. Degrees(d) \notin {TimeOnly, Nothing}
      BY <3>1, <3>2
    <3>4. QED
      BY <2>3, <3>1, <3>3
  <2>5. IsDegrees(f, 1) /\ IsDegrees(f, 3) /\ IsSign(f, 1 + 1) /\ IsSign(f, 3 + 1)
    BY <2>3, <2>4 DEF IsDegrees, IsSign
  <2>6. Latitude(f) = -d /\ Longitude(f) = -e
    BY <2>4, <2>5 DEF Latitude, Longitude, Signed
  <2>7. lat' = -d /\ lon' = -e /\ (was' = <<lat', lon'>> \/ was' = was)
    BY <1>4, <2>4, <2>6 DEF gps_location_line
  <2>8. Sent(<<-d, -e>>)
    <3>1. \E i \in DOMAIN sent : sent[i] = n
      BY <1>6 DEF Heard
    <3>2. QED
      BY <2>1, <3>1 DEF Sent, Place
  <2>9. QED
    BY <1>2, <2>7, <2>8
<1>7. QED
  BY <1>5, <1>6

\* As long as gps_loop keeps up, on_movement is told only positions that the receiver
\* sent, both coordinates of one fix, for a buffer of any size, any fixes and sentences,
\* however the interrupt divides them and wherever it falls in gps_loop.
THEOREM OnlySentIsTold == GpsSpec => []ToldWasSent
<1>1. GpsInit => KeepsUp
  <2> SUFFICES ASSUME GpsInit
               PROVE  KeepsUp
    OBVIOUS
  <2> USE DEF GpsInit
  <2>0. Size \in Nat /\ Size >= 1
    BY GpsAssumption
  <2>1. Len(Words(fix)) \in Nat
    BY WordsAre
  <2>2. Sending
    BY <2>1 DEF Sending
  <2>3. Partial(0, len)
    BY DEF Partial, Begun, Reads
  <2>4. 0 \in len..(Size - 1) /\ NoLine(0)
    BY <2>0 DEF NoLine
  <2>5. InStep
    BY <2>3, <2>4 DEF InStep, Stored
  <2>6. Sent(<<lat, lon>>) /\ Sent(was)
    BY DEF Sent
  <2>7. QED
    BY <2>2, <2>5, <2>6 DEF KeepsUp
<1>2. InBuffer /\ InBuffer' /\ KeepsUp /\ [GpsNext]_gpsVars => KeepsUp'
  <2> SUFFICES ASSUME InBuffer, InBuffer', KeepsUp, [GpsNext]_gpsVars, keptUp'
               PROVE  InStep' /\ Sent(<<lat, lon>>)' /\ Sent(was)'
    BY SendingStays DEF KeepsUp
  <2>0. /\ keptUp /\ Sending /\ Sending' /\ InStep /\ Sent(<<lat, lon>>) /\ Sent(was)
        /\ Size \in Nat /\ Size >= 1
    <3>1. keptUp
      BY DEF GpsNext, gps_loop, Begins, gps_rx_isr, Find, Cut, Copy, Measure, Move, SetLength,
             gps_line, gpsVars
    <3>2. QED
      BY <3>1, SendingStays, GpsAssumption DEF KeepsUp
  <2>1. CASE Begins
    <3>1. UNCHANGED <<buf, len, pc, nl, line, remain, lat, lon, was, sent>>
      BY <2>1 DEF Begins, position
    <3>2. pc \in {"cut", "copy", "measure", "move", "length"} => nl + 1 \in 0..(Size - 1)
      BY <2>0 DEF InBuffer
    <3>3. LineIs => LineIs'
      BY <3>1 DEF LineIs, Heard
    <3>4. pc = "move" => Partial(nl + 1, len)' /\ NoLine(len)'
      <4> SUFFICES ASSUME pc = "move"
                   PROVE  Partial(nl + 1, len)' /\ NoLine(len)'
        OBVIOUS
      <4>1. PICK a \in 0..(Size - 1), e \in 0..(Size - 1) : a = nl + 1 /\ e = len
        BY <3>2 DEF InBuffer
      <4>2. Partial(a, e) /\ NoLine(e)
        BY <2>0, <4>1 DEF InStep
      <4>3. Partial(a, e)' /\ NoLine(e)'
        BY <2>1, <4>2, BeginsThere
      <4>4. QED
        BY <3>1, <4>1, <4>3 DEF Partial, Reads, NoLine
    <3>5. pc = "length" => Partial(0, remain)' /\ NoLine(len)'
      <4> SUFFICES ASSUME pc = "length"
                   PROVE  Partial(0, remain)' /\ NoLine(len)'
        OBVIOUS
      <4>1. PICK a \in 0..(Size - 1), r \in 0..(Size - 1), e \in 0..(Size - 1) :
              a = 0 /\ r = remain /\ e = len
        <5>1. 0 \in 0..(Size - 1) /\ remain \in 0..(Size - 1) /\ len \in 0..(Size - 1)
          BY <2>0 DEF InBuffer
        <5>2. QED
          BY <5>1
      <4>2. Partial(a, r) /\ NoLine(e)
        BY <2>0, <4>1 DEF InStep
      <4>3. Partial(a, r)' /\ NoLine(e)'
        BY <2>1, <4>2, BeginsThere
      <4>4. QED
        BY <3>1, <4>1, <4>3 DEF Partial, Reads, NoLine
    <3>6. pc \in {"cut", "copy", "measure"} /\ Rest(nl + 1) => Rest(nl + 1)'
      <4> SUFFICES ASSUME pc \in {"cut", "copy", "measure"}, Rest(nl + 1)
                   PROVE  Rest(nl + 1)'
        OBVIOUS
      <4>1. PICK a \in 0..(Size - 1) : a = nl + 1
        BY <3>2
      <4>2. Rest(a)'
        BY <2>1, <4>1, BeginsThere
      <4>3. QED
        BY <3>1, <4>1, <4>2 DEF Rest, Partial, Reads
    <3>7. pc = "cut" /\ Whole(nl + 1) => Whole(nl + 1)'
      BY <3>1 DEF Whole, Heard, Reads
    <3>8. ASSUME NEW n \in Heard, nl + 1 = Len(Words(n)) /\ Reads(0, nl, Words(n))
          PROVE  \E k \in Heard' : nl' + 1 = Len(Words(k)) /\ Reads(0, nl, Words(k))'
      BY <3>1, <3>8 DEF Heard, Reads
    <3>9. Stored => Stored'
      BY <2>1, BeginsThere
    <3>10. Sent(<<lat, lon>>)' /\ Sent(was)'
      BY <2>0, <3>1 DEF Sent
    <3>11. InStep'
      <4> USE <3>1
      <4>1. (pc \in {"idle", "parse"} => Stored)'
        BY <2>0, <3>9 DEF InStep
      <4>2. (pc = "cut" => Whole(nl + 1) /\ Rest(nl + 1))'
        BY <2>0, <3>6, <3>7 DEF InStep
      <4>3. (pc = "copy" => /\ \E n \in Heard : nl + 1 = Len(Words(n)) /\ Reads(0, nl, Words(n))
                            /\ buf[nl] = NUL /\ Rest(nl + 1))'
        BY <2>0, <3>6, <3>8 DEF InStep
      <4>4. (pc \in {"measure", "move", "length", "parse"} => LineIs)'
        BY <2>0, <3>3 DEF InStep
      <4>5. (pc = "measure" => (\A h \in 0..nl : buf[h] # NewLine) /\ Rest(nl + 1))'
        BY <2>0, <3>6 DEF InStep
      <4>6. (pc = "move" => Partial(nl + 1, len) /\ NoLine(len) /\ remain = len - nl - 1)'
        BY <2>0, <3>4 DEF InStep
      <4>7. (pc = "length" => Partial(0, remain) /\ NoLine(len) /\ remain <= len)'
        BY <2>0, <3>5 DEF InStep
      <4>8. QED
        BY <4>1, <4>2, <4>3, <4>4, <4>5, <4>6, <4>7 DEF InStep
    <3>12. QED
      BY <3>10, <3>11
  <2>2. CASE gps_rx_isr
    <3>1. CopesNow /\ UNCHANGED <<pc, nl, line, remain, lat, lon, was>>
      BY <2>2 DEF gps_rx_isr, position
    <3>2. PICK m \in Nat : Stores(m)
      BY <2>0, <2>2, <3>1, Received
    <3>3. \A n \in Heard : n \in Heard'
      BY <3>2 DEF Stores
    <3>4. LineIs => LineIs'
      BY <3>1, <3>3 DEF LineIs
    <3>5. Stored => Stored'
      BY <2>0, <3>2, StoredGrows
    <3>6. pc \in {"cut", "copy", "measure"} => nl + 1 \in Nat /\ nl \in Nat
      BY <2>0 DEF InBuffer
    <3>7. pc \in {"cut", "copy", "measure"} /\ Rest(nl + 1) => Rest(nl + 1)'
      <4> SUFFICES ASSUME pc \in {"cut", "copy", "measure"}, Rest(nl + 1)
                   PROVE  Rest(nl + 1)'
        OBVIOUS
      <4>1. PICK a \in Nat : a = nl + 1
        BY <3>6
      <4>2. Rest(a)'
        BY <3>2, <4>1, RestGrows
      <4>3. QED
        BY <3>1, <4>1, <4>2 DEF Rest, Partial, Reads
    <3>8. pc \in {"cut", "copy", "measure"} /\ Rest(nl + 1) => \A h \in 0..nl : buf'[h] = buf[h]
      <4> SUFFICES ASSUME pc \in {"cut", "copy", "measure"}, Rest(nl + 1), NEW h \in 0..nl
                   PROVE  buf'[h] = buf[h]
        OBVIOUS
      <4>1. nl + 1 <= len /\ len \in Nat
        BY <2>0 DEF Rest, InBuffer
      <4>2. h \in 0..(len - 1)
        BY <3>6, <4>1
      <4>3. QED
        BY <3>2, <4>2 DEF Stores
    <3>9. ASSUME pc = "cut", Whole(nl + 1), Rest(nl + 1)
          PROVE  Whole(nl + 1)'
      <4>1. PICK e \in 1..len : e = nl + 1
        BY <2>0, <3>6, <3>9 DEF Rest, InBuffer
      <4>2. Whole(e)'
        BY <3>2, <3>9, <4>1, WholeStays
      <4>3. QED
        BY <3>1, <4>1, <4>2 DEF Whole, Reads
    <3>10. ASSUME pc = "copy", NEW n \in Heard,
                  nl + 1 = Len(Words(n)) /\ Reads(0, nl, Words(n)), Rest(nl + 1)
           PROVE  \E k \in Heard' : nl' + 1 = Len(Words(k)) /\ Reads(0, nl, Words(k))'
      <4>1. ASSUME NEW j \in 1..(nl - 0)
            PROVE  buf'[0 + j - 1] = Words(n)[j]
        <5>1. 0 + j - 1 \in 0..nl
          BY <3>6, <3>10
        <5>2. QED
          BY <3>8, <3>10, <5>1 DEF Reads
      <4>2. QED
        BY <3>1, <3>3, <3>10, <4>1 DEF Reads
    <3>11. Sent(<<lat, lon>>)' /\ Sent(was)'
      <4>1. \A p : Sent(p) => Sent(p)'
        <5>1. \A i \in DOMAIN sent : sent[i] \in Heard /\ sent[i] # 0
          BY <2>0, GpsAssumption DEF Heard, Sending
        <5>2. \A n \in Heard' : n = 0 \/ \E i \in DOMAIN sent' : sent'[i] = n
          BY DEF Heard
        <5>3. ASSUME NEW i \in DOMAIN sent
              PROVE  \E k \in DOMAIN sent' : Place(sent[i]) = Place(sent'[k])
          BY <3>3, <5>1, <5>2
        <5>4. QED
          BY <5>3 DEF Sent
      <4>2. QED
        BY <2>0, <3>1, <4>1 DEF Sent
    <3>12. InStep'
      <4> USE <3>1
      <4>1. (pc \in {"idle", "parse"} => Stored)'
        BY <2>0, <3>5 DEF InStep
      <4>2. (pc = "cut" => Whole(nl + 1) /\ Rest(nl + 1))'
        BY <2>0, <3>7, <3>9 DEF InStep
      <4>3. (pc = "copy" => /\ \E n \in Heard : nl + 1 = Len(Words(n)) /\ Reads(0, nl, Words(n))
                            /\ buf[nl] = NUL /\ Rest(nl + 1))'
        <5>1. pc = "copy" => nl \in 0..nl
          BY <3>6
        <5>2. QED
          BY <2>0, <3>7, <3>8, <3>10, <5>1 DEF InStep
      <4>4. (pc \in {"measure", "move", "length", "parse"} => LineIs)'
        BY <2>0, <3>4 DEF InStep
      <4>5. (pc = "measure" => (\A h \in 0..nl : buf[h] # NewLine) /\ Rest(nl + 1))'
        BY <2>0, <3>7, <3>8 DEF InStep
      <4>6. pc \notin {"move", "length"}
        BY DEF CopesNow
      <4>7. QED
        BY <4>1, <4>2, <4>3, <4>4, <4>5, <4>6 DEF InStep
    <3>13. QED
      BY <3>11, <3>12
  <2>3. CASE gps_loop
    <3>1. UNCHANGED <<coming, fix, sent>>
      BY <2>3 DEF gps_loop, Find, Cut, Copy, Measure, Move, SetLength, gps_line
    <3>2. ~gps_line => UNCHANGED <<lat, lon, was>>
      BY <2>3 DEF gps_loop, Find, Cut, Copy, Measure, Move, SetLength, position
    <3>3. Sent(<<lat, lon>>)' /\ Sent(was)'
      <4>1. CASE gps_line
        <5>1. LineIs
          BY <2>0, <4>1 DEF InStep, gps_line
        <5>2. QED
          BY <2>0, <4>1, <5>1, ParsedIsSent
      <4>2. CASE ~gps_line
        BY <2>0, <3>1, <3>2, <4>2 DEF Sent
      <4>3. QED
        BY <4>1, <4>2
    <3>4. Heard' = Heard /\ Begun' = Begun
      BY <3>1 DEF Heard, Begun
    <3>5. CASE Find
      <4>1. pc = "idle" /\ Stored /\ HasLine(buf, 0)
        BY <2>0, <3>5 DEF Find, InStep
      <4>2. \A e \in len..(Size - 1) : ~NoLine(e)
        <5>1. \A e \in len..(Size - 1) : e \in 0..(Size - 1)
          BY <2>0 DEF InBuffer
        <5>2. QED
          BY <4>1, <5>1, NoneFound
      <4>3. PICK e \in 1..len : Whole(e) /\ Rest(e)
        BY <4>1, <4>2 DEF Stored
      <4>4. nl' = e - 1
        BY <2>0, <3>5, <4>3, LineFound DEF Find
      <4>5. nl' + 1 = e
        BY <2>0, <4>4 DEF InBuffer
      <4>6. UNCHANGED <<buf, len>> /\ pc' = "cut"
        BY <3>5 DEF Find
      <4>7. Whole(nl + 1)'
        BY <3>4, <4>3, <4>5, <4>6 DEF Whole, Reads
      <4>8. Rest(nl + 1)'
        BY <3>1, <3>4, <4>3, <4>5, <4>6 DEF Rest, Partial, Reads
      <4>9. QED
        BY <3>3, <4>6, <4>7, <4>8 DEF InStep
    <3>6. CASE Cut
      <4>1. Whole(nl + 1) /\ Rest(nl + 1) /\ pc' = "copy"
        BY <2>0, <3>6 DEF Cut, InStep
      <4>2. QED
        BY <2>0, <3>3, <3>6, <4>1, CutOff DEF InStep
    <3>7. CASE Copy
      <4>1. /\ \E n \in Heard : nl + 1 = Len(Words(n)) /\ Reads(0, nl, Words(n))
            /\ buf[nl] = NUL /\ Rest(nl + 1)
        BY <2>0, <3>7 DEF Copy, InStep
      <4>2. LineIs' /\ \A h \in 0..nl : buf[h] # NewLine
        BY <2>0, <3>7, <4>1, CopiedIs
      <4>3. UNCHANGED <<buf, len, nl>> /\ pc' = "measure"
        BY <3>7 DEF Copy
      <4>4. Rest(nl + 1)'
        BY <3>1, <3>4, <4>1, <4>3 DEF Rest, Partial, Reads
      <4>5. QED
        BY <3>3, <4>2, <4>3, <4>4 DEF InStep
    <3>8. CASE Measure
      <4>1. LineIs /\ (\A h \in 0..nl : buf[h] # NewLine) /\ Rest(nl + 1)
        BY <2>0, <3>8 DEF Measure, InStep
      <4>2. nl + 1 \in 0..(Size - 1) /\ nl \in Nat /\ len \in Nat
        BY <2>0, <3>8 DEF InBuffer, Measure
      <4>3. UNCHANGED <<buf, len, nl, line>> /\ pc' = "move" /\ ~HasLine(buf, nl + 1)
            /\ remain' = StrLen(buf, nl + 1)
        BY <3>8 DEF Measure
      <4>4. StrLen(buf, nl + 1) = len - (nl + 1) /\ \A h \in (nl + 1)..(len - 1) : buf[h] # NewLine
        BY <4>1, <4>2, <4>3, RestLength
      <4>5. remain' = len - nl - 1
        BY <4>2, <4>3, <4>4
      <4>6. Partial(nl + 1, len)
        BY <4>1, <4>4 DEF Rest
      <4>7. ASSUME NEW h \in 0..(len - 1)
            PROVE  buf[h] # NewLine
        <5>1. h \in 0..nl \/ h \in (nl + 1)..(len - 1)
          BY <4>2
        <5>2. QED
          BY <4>1, <4>4, <5>1
      <4>8. NoLine(len)
        BY <4>1, <4>7 DEF NoLine, Rest
      <4>9. Partial(nl + 1, len)' /\ NoLine(len)' /\ LineIs'
        BY <3>1, <3>4, <4>1, <4>3, <4>6, <4>8 DEF Partial, Reads, NoLine, LineIs
      <4>10. QED
        BY <3>3, <4>3, <4>5, <4>9 DEF InStep
    <3>9. CASE Move
      <4>1. LineIs /\ Partial(nl + 1, len) /\ NoLine(len) /\ remain = len - nl - 1
        BY <2>0, <3>9 DEF Move, InStep
      <4>2. Partial(0, remain)' /\ NoLine(len)' /\ remain <= len
        BY <2>0, <3>9, <4>1, MovesDown
      <4>3. UNCHANGED <<len, line, remain>> /\ pc' = "length"
        BY <3>9 DEF Move
      <4>4. LineIs'
        BY <3>4, <4>1, <4>3 DEF LineIs
      <4>5. QED
        BY <3>3, <4>2, <4>3, <4>4 DEF InStep
    <3>10. CASE SetLength
      <4>1. LineIs /\ Partial(0, remain) /\ NoLine(len) /\ remain <= len
        BY <2>0, <3>10 DEF SetLength, InStep
      <4>2. UNCHANGED <<buf, line>> /\ len' = remain /\ pc' = "parse"
        BY <3>10 DEF SetLength
      <4>3. LineIs' /\ Partial(0, len)'
        BY <3>1, <3>4, <4>1, <4>2 DEF LineIs, Partial, Reads
      <4>4. PICK e \in remain..(Size - 1) : e = len
        <5>1. len \in 0..(Size - 1) /\ remain \in Nat
          BY <2>0, <3>10 DEF InBuffer, SetLength
        <5>2. len \in remain..(Size - 1)
          BY <2>0, <4>1, <5>1
        <5>3. QED
          BY <5>2
      <4>5. NoLine(e)'
        BY <4>1, <4>2, <4>4 DEF NoLine
      <4>6. Stored'
        BY <4>2, <4>3, <4>5 DEF Stored
      <4>7. QED
        BY <3>3, <4>2, <4>3, <4>6 DEF InStep
    <3>11. CASE gps_line
      <4>1. Stored /\ pc' = "idle" /\ UNCHANGED <<buf, len>>
        BY <2>0, <3>11 DEF gps_line, InStep
      <4>2. Stored'
        BY <3>1, <3>4, <4>1 DEF Stored, Partial, Reads, NoLine, Whole, Rest
      <4>3. QED
        BY <3>3, <4>1, <4>2 DEF InStep
    <3>12. QED
      BY <2>3, <3>5, <3>6, <3>7, <3>8, <3>9, <3>10, <3>11 DEF gps_loop
  <2>4. CASE UNCHANGED gpsVars
    <3>1. UNCHANGED <<buf, len, pc, nl, line, remain, lat, lon, was, coming, fix, sent>>
      BY <2>4 DEF gpsVars
    <3>2. Heard' = Heard /\ Begun' = Begun
      BY <3>1 DEF Heard, Begun
    <3>3. InStep'
      BY <2>0, <3>1, <3>2 DEF InStep, Stored, Partial, Reads, NoLine, Whole, Rest, LineIs
    <3>4. QED
      BY <2>0, <3>1, <3>3 DEF Sent
  <2>5. QED
    BY <2>1, <2>2, <2>3, <2>4 DEF GpsNext
<1>3. KeepsUp => ToldWasSent
  BY DEF KeepsUp, Sent, ToldWasSent
<1>4. QED
  BY <1>1, <1>2, <1>3, StaysInBuffer, PTL DEF GpsSpec

=============================================================================
