------------------------------ MODULE ZtacxGps ------------------------------
(***************************************************************************)
(* The serial GPS (ztacx_gps.c): the receive interrupt appends what the    *)
(* receiver says to gps_buf, and the application's thread calls gps_loop,  *)
(* which cuts one line off the buffer's head and parses it.  The two share *)
(* the buffer and its length with no lock: the interrupt may fall between  *)
(* any two statements of gps_loop.                                         *)
(*                                                                         *)
(* A character of the model is a field of a sentence with its comma.  The  *)
(* receiver is in the south-west, so that both signs matter: fix n is sent *)
(* as $GPGLL,lat,S,lon,W,time.                                             *)
(***************************************************************************)
EXTENDS Integers, Sequences, SequencesExt

CONSTANTS Size,          \* sizeof(gps_buf)
          Spare,         \* the interrupt empties a buffer this close to full
          LineSize,      \* sizeof(gps_line_buf)
          Fixes,         \* the positions the receiver may report, as numbers
          Where,         \* how far south and west each of them is
          Timeless,      \* those, and 0 for none, that come with no complete time
          Threshold,     \* movement_threshold
          MaxSentences   \* bound on what the receiver says

ASSUME GpsAssumption ==
  /\ Spare \in Nat \ {0} /\ Size \in Nat /\ Size > Spare
  /\ LineSize \in Nat /\ LineSize > 6
  /\ Fixes \subseteq Nat \ {0} /\ Timeless \subseteq Fixes \cup {0}
  /\ Where \in [Fixes -> Nat \X Nat]
  /\ Threshold \in Nat /\ MaxSentences \in Nat

VARIABLES buf, len,            \* gps_buf, gps_buf_len
          pc, nl, line, remain,   \* gps_loop's place and its locals
          lat, lon,            \* the position as parsed
          was,                 \* latwas, lonwas: what on_movement was told last
          coming, fix,         \* the rest of the sentence being sent, and its fix or 0
          sent, count,         \* the fixes received in full, in order; sentences begun
          keptUp               \* gps_loop has kept up with the receiver so far

gpsVars == <<buf, len, pc, nl, line, remain, lat, lon, was, coming, fix, sent, count,
          keptUp>>
position == <<lat, lon, was>>

Token(k, v) == [kind |-> k, val |-> v]
NUL == Token("nul", 0)
NewLine == Token("newline", 0)
Header == Token("$GPGLL", 0)
TimeOnly == Token(",,,,time", 0)   \* what is sent instead of a position with no lock
Nothing == Token(",,,,V", 0)       \* the same when the time is not known either
Time == Token("time", 0)
NoTime == Token("short", 0)        \* a time of less than HHMMSS
Degrees(n) == Token("degrees", n)
Sign(n) == Token("sign", n)        \* "S" or "W" of n degrees

South(n) == Where[n][1]
West(n) == Where[n][2]

Sentence(n) == <<Header, Degrees(South(n)), Sign(South(n)), Degrees(West(n)), Sign(West(n)),
                 IF n \in Timeless THEN NoTime ELSE Time, NewLine>>
NoLock == <<Header, IF 0 \in Timeless THEN Nothing ELSE TimeOnly, NewLine>>

Tokens == {NUL, NewLine, Header, TimeOnly, Nothing, Time, NoTime}
          \cup UNION {{Degrees(d), Sign(d)} : d \in UNION {{South(n), West(n)} : n \in Fixes}}

GpsInit ==
  /\ buf = [i \in 0..(Size - 1) |-> NUL] /\ len = 0
  /\ pc = "idle" /\ nl = 0 /\ line = <<>> /\ remain = 0
  /\ lat = 0 /\ lon = 0 /\ was = <<0, 0>>
  /\ coming = <<>> /\ fix = 0 /\ sent = <<>> /\ count = 0 /\ keptUp = TRUE

-----------------------------------------------------------------------------
\* The string that starts at i of a buffer: strlen, strchr, strcpy.
StrLen(b, i) == CHOOSE n \in 0..(Size - 1 - i) :
                  b[i + n] = NUL /\ \A h \in i..(i + n - 1) : b[h] # NUL
StrAt(b, i) == [h \in 1..StrLen(b, i) |-> b[i + h - 1]]
HasLine(b, i) == Contains(StrAt(b, i), NewLine)
FirstNewLine(b) == CHOOSE i \in 0..(StrLen(b, 0) - 1) :
                     b[i] = NewLine /\ \A h \in 0..(i - 1) : b[h] # NewLine

-----------------------------------------------------------------------------
\* The receiver begins a sentence.
Begins ==
  /\ coming = <<>> /\ count < MaxSentences
  /\ count' = count + 1
  /\ fix' \in Fixes \cup {0}
  /\ coming' = IF fix' = 0 THEN NoLock ELSE Sentence(fix')
  /\ UNCHANGED <<buf, len, pc, nl, line, remain, position, sent, keptUp>>

\* The interrupt stores at the end, or starts afresh when the buffer is nearly
\* full: what was there is given up.
NearlyFull == len >= Size - Spare
StoresAt == IF NearlyFull THEN 0 ELSE len

\* Broken variant of Room: no place is left for the NUL.
RoomForAll(at) == Size - at

\* What uart_fifo_read may store.
Room(at) == Size - at - 1

\* gps_loop copes with bytes that arrive before it has measured what remains,
\* or after it has stored the length.
CopesNow == pc \notin {"move", "length"} /\ ~NearlyFull

\* gps_rx_isr: some of what is coming is stored, with a NUL after it.
gps_rx_isr ==
  \E n \in 1..Len(coming) :
    LET at == StoresAt IN
    /\ n <= Room(at)
    /\ buf' = [i \in 0..(Size - 1) |->
                 IF i \in at..(at + n - 1) THEN coming[i - at + 1]
                 ELSE IF i = at + n THEN NUL ELSE buf[i]]
    /\ len' = at + n
    /\ coming' = SubSeq(coming, n + 1, Len(coming))
    /\ sent' = IF n = Len(coming) /\ fix # 0 THEN Append(sent, fix) ELSE sent
    /\ keptUp' = (keptUp /\ CopesNow)
    /\ UNCHANGED <<pc, nl, line, remain, position, fix, count>>

-----------------------------------------------------------------------------
\* gps_loop, a statement or two at a time.  With no line in the buffer it
\* returns at once.
Find ==
  /\ pc = "idle" /\ HasLine(buf, 0)
  /\ nl' = FirstNewLine(buf)
  /\ pc' = "cut"
  /\ UNCHANGED <<buf, len, line, remain, position, coming, fix, sent, count, keptUp>>

\* The line's end becomes a NUL, and the line is copied.  A line that leaves no place
\* for its NUL goes on with what the stack holds behind it, or ends there.
Copies(s) ==
  IF Len(s) < LineSize THEN {s}
  ELSE {SubSeq(s, 1, LineSize) \o more : more \in {<<>>} \cup {<<t>> : t \in Tokens \ {NUL}}}

Cut ==
  /\ pc = "cut"
  /\ buf' = [buf EXCEPT ![nl] = NUL]
  /\ pc' = "copy"
  /\ UNCHANGED <<len, nl, line, remain, position, coming, fix, sent, count, keptUp>>

Copy ==
  /\ pc = "copy"
  /\ line' \in Copies(StrAt(buf, 0))
  /\ pc' = "measure"
  /\ UNCHANGED <<buf, len, nl, remain, position, coming, fix, sent, count, keptUp>>

\* What follows the line is measured.  The loop has fallen behind when there
\* is a whole line in it: memmove brings no NUL, so that what the buffer held
\* beyond the new length is read again.
Measure ==
  /\ pc = "measure"
  /\ remain' = StrLen(buf, nl + 1)
  /\ keptUp' = (keptUp /\ ~HasLine(buf, nl + 1))
  /\ pc' = "move"
  /\ UNCHANGED <<buf, len, nl, line, position, coming, fix, sent, count>>

\* memmove
Moved == [i \in 0..(Size - 1) |-> IF i < remain THEN buf[nl + 1 + i] ELSE buf[i]]

Move ==
  /\ pc = "move"
  /\ buf' = Moved
  /\ pc' = "length"
  /\ UNCHANGED <<len, nl, line, remain, position, coming, fix, sent, count, keptUp>>

SetLength ==
  /\ pc = "length"
  /\ len' = remain
  /\ pc' = "parse"
  /\ UNCHANGED <<buf, nl, line, remain, position, coming, fix, sent, count, keptUp>>

-----------------------------------------------------------------------------
\* gps_location_line counts the fields: latitude, its sign, longitude, its
\* sign, time.  Where degrees have no decimal point or the time is too short it
\* gives up, and keeps what it has parsed of the position.
IsDegrees(f, i) == i <= Len(f) /\ f[i].kind = "degrees"
IsSign(f, i) == i <= Len(f) /\ f[i].kind = "sign"
IsShort(f, i) == i <= Len(f) /\ f[i].kind \in {"short", "sign", ",,,,V"}
GivesUp(f) == \/ \E i \in {1, 3} : i <= Len(f) /\ ~IsDegrees(f, i)
              \/ IsShort(f, 5)
Signed(f, i) == IF IsSign(f, i + 1) THEN -f[i].val ELSE f[i].val

Latitude(f) == IF IsDegrees(f, 1) THEN Signed(f, 1) ELSE lat
Longitude(f) == IF IsDegrees(f, 1) /\ IsDegrees(f, 3) THEN Signed(f, 3) ELSE lon

\* The distance as the code computes it, near the equator and in whole degrees: a
\* misplaced parenthesis multiplies the latitudes' share, itself small beside the
\* cosine it is added to, by the longitudes', so that only these count.
Abs(x) == IF x < 0 THEN -x ELSE x
Distance(p, q) == Abs(p[2] - q[2])

\* gps_location_change: on_movement is told a position that has changed enough.
Tells(p) == p # was /\ Distance(p, was) >= Threshold

\* Broken variant of gps_location_line: movement is looked at between the
\* latitude and the longitude.
location_line_early(f) ==
  /\ lat' = Latitude(f)
  /\ lon' = Longitude(f)
  /\ was' = IF ~GivesUp(f) /\ Tells(<<lat', lon>>) THEN <<lat', lon>> ELSE was

gps_location_line(f) ==
  IF f # <<>> /\ f[1] \in {TimeOnly, Nothing}
  THEN /\ was' = IF f[1] = TimeOnly /\ Tells(<<lat, lon>>) THEN <<lat, lon>> ELSE was
       /\ UNCHANGED <<lat, lon>>
  ELSE /\ lat' = Latitude(f)
       /\ lon' = Longitude(f)
       /\ was' = IF ~GivesUp(f) /\ Tells(<<lat', lon'>>) THEN <<lat', lon'>> ELSE was

\* gps_line: only a position sentence does anything.
gps_line ==
  /\ pc = "parse"
  /\ IF line # <<>> /\ Head(line) = Header
     THEN gps_location_line(Tail(line))
     ELSE UNCHANGED position
  /\ pc' = "idle" /\ line' = <<>> /\ nl' = 0 /\ remain' = 0
  /\ UNCHANGED <<buf, len, coming, fix, sent, count, keptUp>>

gps_loop == Find \/ Cut \/ Copy \/ Measure \/ Move \/ SetLength \/ gps_line
GpsNext == Begins \/ gps_rx_isr \/ gps_loop

\* Nothing is promised of how often the application calls gps_loop.
GpsSpec == GpsInit /\ [][GpsNext]_gpsVars

-----------------------------------------------------------------------------
Degree == LET d == UNION {{South(n), West(n)} : n \in Fixes}
          IN  {-n : n \in d} \cup d \cup {0}

\* The types of the buffer, of gps_loop's place in it and of the position
\* (ztacx_gps.c:10-20).  The length leaves room for the NUL.
GpsTypeOK ==
  /\ buf \in [0..(Size - 1) -> Tokens] /\ len \in 0..(Size - 1)
  /\ pc \in {"idle", "cut", "copy", "measure", "move", "length", "parse"}
  /\ nl \in 0..(Size - 2) /\ remain \in 0..(Size - 1)
  /\ Len(line) <= Size /\ \A i \in DOMAIN line : line[i] \in Tokens
  /\ lat \in Degree /\ lon \in Degree /\ was \in Degree \X Degree
  /\ Len(coming) <= 7 /\ \A i \in DOMAIN coming : coming[i] \in Tokens
  /\ fix \in Fixes \cup {0} /\ Len(sent) <= count /\ count \in 0..MaxSentences
  /\ keptUp \in BOOLEAN

\* Wherever the interrupt falls in gps_loop, however far behind it is, the
\* buffer's last byte is a NUL: strchr and strlen end inside the buffer
\* (ztacx_gps.c:473-476, 522-527).
BufferEnds == buf[Size - 1] = NUL

Place(n) == <<-South(n), -West(n)>>

\* As long as gps_loop keeps up, on_movement is told only positions that the
\* receiver sent, both coordinates of one fix and with both signs, also when a
\* sentence with no complete time has set the position and told nobody
\* (ztacx_gps.c:135-138, 204-324).
ToldWasSent ==
  keptUp => was = <<0, 0>> \/ \E i \in DOMAIN sent : was = Place(sent[i])
=============================================================================
