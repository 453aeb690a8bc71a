----------------------------- MODULE Timestamps -----------------------------
(***************************************************************************)
(* SentryTimestamp: microseconds since the Unix epoch, made from a number  *)
(* or from an RFC 3339 text, written as a text, and kept by an event in    *)
(* the form of its backend.  Only the base of the digits of a fraction is  *)
(* a parameter; the calendar is the real one.  Null is no timestamp.       *)
(***************************************************************************)
EXTENDS Integers, FiniteSets, SequencesExt

CONSTANTS
    Base, MicroDigits, NanoDigits,   \* 10, 6 and 9
    Moments,                         \* bound: microseconds of programs
    Dates, Times, Fractions, Zones,  \* bound: the parts of texts
    Backends,                        \* of native, javascript, android, cocoa
    Null

TimestampsAssumption ==
    /\ Base \in Nat \ {0, 1} /\ MicroDigits \in Nat /\ NanoDigits \in Nat
    /\ 0 < MicroDigits /\ MicroDigits < NanoDigits
    /\ Backends \subseteq {"native", "javascript", "android", "cocoa"}

VARIABLES backend, timestamp, text, event, kept, call

vars == <<backend, timestamp, text, event, kept, call>>

Second == Base ^ MicroDigits            \* microseconds of a second
Milli == Base ^ (MicroDigits \div 2)
Day == 24 * 3600

(***************************************************************************)
(* Division of C++, towards zero; a double is rounded half away from zero  *)
(***************************************************************************)
Magnitude(n) == IF n < 0 THEN -n ELSE n
Sign(n) == IF n < 0 THEN -1 ELSE 1
Quotient(a, b) == Sign(a) * (Magnitude(a) \div b)
Remainder(a, b) == Sign(a) * (Magnitude(a) % b)
Rounded(halves) == Sign(halves) * ((Magnitude(halves) + 1) \div 2)

(***************************************************************************)
(* The calendar: timegm and gmtime_r                                       *)
(***************************************************************************)
IsLeap(y) == (y % 4 = 0 /\ y % 100 # 0) \/ y % 400 = 0
DaysInMonth(y, m) ==
    IF m = 2 THEN (IF IsLeap(y) THEN 29 ELSE 28) ELSE IF m \in {4, 6, 9, 11} THEN 30 ELSE 31
LeapDays(y) == (y - 1) \div 4 - (y - 1) \div 100 + (y - 1) \div 400
FirstOfMonth(y, m) == FoldLeft(LAMBDA n, k : n + DaysInMonth(y, k), 0, [k \in 1..(m - 1) |-> k])
DayNumber(y, m, d) ==
    365 * (y - 1970) + LeapDays(y) - LeapDays(1970) + FirstOfMonth(y, m) + d - 1
TimeGm(t) ==
    Day * DayNumber(t.date[1], t.date[2], t.date[3]) + 3600 * t.time[1] + 60 * t.time[2] + t.time[3]
GmTime(seconds) ==
    LET day == seconds \div Day
        s == seconds % Day
        y == CHOOSE y \in 1960..1999 : DayNumber(y, 1, 1) <= day /\ day < DayNumber(y + 1, 1, 1)
        m == CHOOSE m \in 1..12 :
               DayNumber(y, m, 1) <= day /\ day < DayNumber(y, m, 1) + DaysInMonth(y, m)
    IN  [date |-> <<y, m, day - DayNumber(y, m, 1) + 1>>,
         time |-> <<s \div 3600, (s % 3600) \div 60, s % 60>>]

(***************************************************************************)
(* Texts: a date, a time, the characters of a fraction and a zone          *)
(***************************************************************************)
Minus == -1
IsNegative(chars) == chars # <<>> /\ Head(chars) = Minus
Digits(chars) == IF IsNegative(chars) THEN Tail(chars) ELSE chars
Number(chars) ==
    (IF IsNegative(chars) THEN -1 ELSE 1) * FoldLeft(LAMBDA n, d : Base * n + d, 0, Digits(chars))
Places(n, width) == [i \in 1..width |-> (n \div Base ^ (width - i)) % Base]
\* "%06d": the sign takes one of the places, but no digit is lost.
Padded(n) ==
    IF n >= 0 THEN Places(n, MicroDigits)
    ELSE <<Minus>> \o Places(-n, IF -n < Base ^ (MicroDigits - 1) THEN MicroDigits - 1 ELSE MicroDigits)

\* to_rfc3339: the fraction has the sign of the time.
Formatted(micros) ==
    GmTime(Quotient(micros, Second)) @@
      [fraction |-> Padded(Remainder(micros, Second)), zone |-> "Z"]

ValidDate(t) ==
    /\ t.date[1] \in 1900..9999 /\ t.date[2] \in 1..12
    /\ t.date[3] \in 1..DaysInMonth(t.date[1], t.date[2])
    /\ t.time[1] \in 0..23 /\ t.time[2] \in 0..59 /\ t.time[3] \in 0..59

\* At most nine characters are read, the sign among them, and their number tells
\* how many digits miss; what is left is read as the zone.
Nanos_Unscaled(chars) == Number(chars)
Nanos(chars) == Number(chars) * Base ^ (NanoDigits - Len(chars))
ValidFraction(t) == t.fraction = <<>> \/ (Digits(t.fraction) # <<>> /\ Len(t.fraction) <= NanoDigits)

\* No bounds: +99:99 is an offset too.
Offset(zone) == IF zone = "Z" THEN 0 ELSE zone[1] * (3600 * zone[2] + 60 * zone[3])

\* parse_rfc3339: -1 is the failure of timegm, and a time.
Parsed(t) ==
    IF ~ValidDate(t) \/ ~ValidFraction(t) \/ t.zone = "none" \/ TimeGm(t) = -1 THEN Null
    ELSE (TimeGm(t) - Offset(t.zone)) * Second
         + Quotient(Nanos(t.fraction), Base ^ (NanoDigits - MicroDigits))

(***************************************************************************)
(* The timestamp of an event                                               *)
(***************************************************************************)
Absent == [form |-> "absent"]
Stored(ts) ==
    CASE backend = "native" -> IF ts = Null THEN Absent ELSE [form |-> "text", text |-> Formatted(ts)]
      [] backend \in {"javascript", "cocoa"} ->
           IF ts = Null THEN Absent ELSE [form |-> "unix", halves |-> 2 * ts]
      [] backend = "android" ->
           [form |-> "millis", millis |-> IF ts = Null THEN 0 ELSE Quotient(ts, Milli)]
Read(e) ==
    CASE e.form = "text" -> Parsed(e.text)
      [] e.form = "unix" -> IF backend = "javascript" /\ e.halves = 0 THEN Null ELSE Rounded(e.halves)
      [] e.form = "millis" -> e.millis * Milli
      [] e.form = "absent" -> Null

(***************************************************************************)
(* A program that makes timestamps, writes them and gives them to an event *)
(***************************************************************************)
Texts == [date : Dates, time : Times, fraction : Fractions, zone : Zones]

Init ==
    /\ backend \in Backends
    /\ timestamp = Null /\ text = Null /\ event = Absent /\ kept = Null /\ call = "none"

\* from_microseconds_since_unix_epoch
FromMicroseconds == \E m \in Moments :
    /\ call = "none"
    /\ timestamp' = m /\ call' = "from"
    /\ UNCHANGED <<backend, text, event, kept>>

\* from_unix_time, of a double between two microseconds
FromUnixTime == \E m \in Moments, half \in {-1, 0, 1} :
    /\ call = "none"
    /\ timestamp' = Rounded(2 * m + half) /\ call' = "from"
    /\ UNCHANGED <<backend, text, event, kept>>

\* parse_rfc3339
Parse == \E t \in Texts :
    /\ call = "none"
    /\ text' = t /\ timestamp' = Parsed(t) /\ call' = "parse"
    /\ UNCHANGED <<backend, event, kept>>

\* to_rfc3339, of a timestamp
Format ==
    /\ call = "from"
    /\ text' = Formatted(timestamp) /\ call' = "format"
    /\ UNCHANGED <<backend, timestamp, event, kept>>

\* set_timestamp, of null as well
SetTimestamp == \E ts \in {timestamp, Null} :
    /\ call \in {"from", "parse", "format"}
    /\ event' = Stored(ts) /\ kept' = ts /\ call' = "set"
    /\ UNCHANGED <<backend, timestamp, text>>

\* get_timestamp
GetTimestamp ==
    /\ call = "set"
    /\ timestamp' = Read(event) /\ call' = "get"
    /\ UNCHANGED <<backend, text, event, kept>>

Next == FromMicroseconds \/ FromUnixTime \/ Parse \/ Format \/ SetTimestamp \/ GetTimestamp

Spec == Init /\ [][Next]_vars

(***************************************************************************)
(* Properties                                                              *)
(***************************************************************************)
TypeOK ==
    /\ timestamp \in Int \cup {Null} /\ kept \in Int \cup {Null}
    /\ text # Null => Digits(text.fraction) \in Seq(0..(Base - 1))
    /\ event.form \in {"text", "unix", "millis", "absent"}

\* A text in the grammar of RFC 3339 whose date is in the calendar.
MonthLengths == <<31, 28, 31, 30, 31, 30, 31, 31, 30, 31, 30, 31>>
IsReal(date) ==
    /\ date[2] \in DOMAIN MonthLengths
    /\ date[3] \in 1..(IF date[2] = 2 /\ IsLeap(date[1]) THEN 29 ELSE MonthLengths[date[2]])
IsRfc3339(t) ==
    /\ IsReal(t.date) /\ t.time \in (0..23) \X (0..59) \X (0..59)
    /\ t.fraction \in Seq(Nat) /\ Len(t.fraction) <= NanoDigits
    /\ t.zone # "none"

\* The days of a date counted one by one, and digits by their places.
CountedDays(date) ==
    LET Days(y) == {d \in {y} \X (1..12) \X (1..31) : IsReal(d)}
        Before(d) == \/ d[1] < date[1]
                     \/ d[1] = date[1] /\ d[2] < date[2]
                     \/ d[1] = date[1] /\ d[2] = date[2] /\ d[3] < date[3]
        Count(P(_), ys) == FoldLeft(LAMBDA n, y : n + Cardinality({d \in Days(y) : P(d)}), 0, ys)
    IN  IF date[1] >= 1970 THEN Count(Before, [i \in 1..(date[1] - 1969) |-> 1969 + i])
        ELSE -Count(LAMBDA d : ~Before(d), [i \in 1..(1970 - date[1]) |-> 1970 - i])
CountedMicros(chars) ==
    FoldLeft(LAMBDA n, i : n + (IF i <= Len(chars) THEN chars[i] ELSE 0) * Base ^ (MicroDigits - i),
             0, [i \in 1..MicroDigits |-> i])
Instant(t) ==
    Second * (CountedDays(t.date) * Day + 3600 * t.time[1] + 60 * t.time[2] + t.time[3] - Offset(t.zone))
      + CountedMicros(t.fraction)

\* A text of RFC 3339 gives the instant it names, to the microsecond, in whatever
\* zone; a text of no real day or time gives none (parse_rfc3339).  The last
\* second before the epoch, in the text's own zone, is the exception.
ParsesInstant ==
    call = "parse" =>
      timestamp = IF IsRfc3339(text) /\ TimeGm(text) # -1 THEN Instant(text) ELSE Null

\* A timestamp from the epoch on is written as a text that names it
\* (to_rfc3339).
WritesInstant == call = "format" /\ timestamp >= 0 => IsRfc3339(text) /\ Instant(text) = timestamp

\* An event reads back the timestamp it was given, from the epoch on: to the
\* millisecond on Android, and to the microsecond elsewhere (set_timestamp and
\* get_timestamp of each backend).  Null and the epoch are one on the Web and on
\* Android.
EventKeepsTime ==
    call = "get" =>
      CASE kept = Null \/ (kept = 0 /\ backend = "javascript") ->
             timestamp = IF backend = "android" THEN 0 ELSE Null
        [] kept # Null /\ kept < 0 -> TRUE
        [] OTHER -> timestamp = IF backend = "android" THEN kept - (kept % Milli) ELSE kept
=============================================================================
