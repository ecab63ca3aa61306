--------------------------------- MODULE Dates ---------------------------------
(***************************************************************************)
(* A Date object of the engine (runtime/date.js, builtins/date.js): the    *)
(* calendar arithmetic, the host's time zone, the texts dates are written  *)
(* as and read from, and the constructor and setters.                      *)
(*                                                                         *)
(* A number is <<n>>, and NaN is <<>>.  A time is <<day, ms>>: the day      *)
(* counted from 1970-01-01 and the millisecond of that day, so that        *)
(* integers stay small; the time 8.64e15 is <<100000000, 0>>.  Fractions   *)
(* of a millisecond are left out.                                          *)
(***************************************************************************)
EXTENDS Integers, Sequences, FiniteSets

CONSTANTS Zones,      \* the hosts' time zones
          Instants,   \* what the host's clock may show
          Arguments,  \* the sequences of numbers the constructors are called with
          Values,     \* what setters are called with: [name |-> the sequences of numbers]
          Texts,      \* what is parsed
          MaxCalls    \* the calls on one date

VARIABLES zone,       \* the time zone of realm.dateHost
          timeValue,  \* date.timeValue
          last,       \* what the last call was asked for, for the properties
          calls       \* how many calls were made

vars == <<zone, timeValue, last, calls>>

NaN == <<>>
IsFinite(x) == x # NaN
AllFinite(xs) == \A i \in 1..Len(xs) : IsFinite(xs[i])

(***************************************************************************)
(* Time values.                                                            *)
(***************************************************************************)
MsPerDay == 86400000
Limit == 100000000
Day(t) == t[1]
TimeWithinDay(t) == t[2]
Time(days, ms) == <<days + ms \div MsPerDay, ms % MsPerDay>>
Later(t, minutes) == IF IsFinite(t) THEN Time(t[1], t[2] + minutes * 60000) ELSE NaN
Beyond(t) == t[1] < -Limit \/ t[1] > Limit \/ (t[1] = Limit /\ t[2] > 0)
TimeClip(t) == IF IsFinite(t) /\ ~Beyond(t) THEN t ELSE NaN

(***************************************************************************)
(* The calendar.                                                           *)
(***************************************************************************)
IsLeapYear(y) == (y % 4 = 0 /\ y % 100 # 0) \/ y % 400 = 0
DaysInYear(y) == IF IsLeapYear(y) THEN 366 ELSE 365
CenturiesOff(y) == 365 * (y - 1970) + (y - 1969) \div 4 - (y - 1900) \div 100 + (y - 1600) \div 400  \* mutant: the constants of the formula off by one
DayFromYear(y) == 365 * (y - 1970) + (y - 1969) \div 4 - (y - 1901) \div 100 + (y - 1601) \div 400

\* The loop of yearFromTime over the years of a cycle of 400: the days of the
\* first k years, which it counts off, and the year in which it stops.
DaysOff(k) == 365 * k + Cardinality({q \in 493..((1969 + k) \div 4) : IsLeapYear(4 * q)})
YearOfCycle(n) ==
    CHOOSE k \in (n \div 366)..(n \div 365) : \E off \in {DaysOff(k)} : off <= n /\ n < off + DaysInYear(1970 + k)
YearFromTime(t) ==
    LET cycle == Day(t) \div 146097
    IN  1970 + cycle * 400 + YearOfCycle(Day(t) - cycle * 146097)

MonthStarts(y) ==
    IF IsLeapYear(y) THEN <<0, 31, 60, 91, 121, 152, 182, 213, 244, 274, 305, 335>>
    ELSE <<0, 31, 59, 90, 120, 151, 181, 212, 243, 273, 304, 334>>
LastOf(S) == CHOOSE m \in S : \A n \in S : n <= m
MonthOfDay(y, n) == LastOf({m \in 0..11 : MonthStarts(y)[m + 1] <= n})
DateFields(y, n) == <<y, MonthOfDay(y, n), n - MonthStarts(y)[MonthOfDay(y, n) + 1] + 1>>
DateOf(y, t) == DateFields(y, Day(t) - DayFromYear(y))
DateFromTime(t) == DateOf(YearFromTime(t), t)
WeekDay(t) == (Day(t) + 4) % 7
TimeFields(ms) == <<ms \div 3600000, (ms % 3600000) \div 60000, (ms % 60000) \div 1000, ms % 1000>>

\* The year, month, date, hour, minute, second and millisecond of a time.
FieldsOf(t) == DateFromTime(t) \o TimeFields(TimeWithinDay(t))

MakeTime(h, m, s, ms) ==
    IF AllFinite(<<h, m, s, ms>>) THEN Time(0, h[1] * 3600000 + m[1] * 60000 + s[1] * 1000 + ms[1]) ELSE NaN
DayOf(y, m, date) == DayFromYear(y + m \div 12) + MonthStarts(y + m \div 12)[(m % 12) + 1] + date - 1
MakeDay(y, m, date) == IF AllFinite(<<y, m, date>>) THEN <<DayOf(y[1], m[1], date[1])>> ELSE NaN
MakeDate(days, time) == IF IsFinite(days) /\ IsFinite(time) THEN <<days[1] + time[1], time[2]>> ELSE NaN

\* The years 0 to 99 of a constructor's arguments are those of the twentieth century.
Century(y) == IF IsFinite(y) /\ y[1] \in 0..99 THEN <<y[1] + 1900>> ELSE y
FromFields(f) == MakeDate(MakeDay(f[1], f[2], f[3]), MakeTime(f[4], f[5], f[6], f[7]))
Padded(args) == [i \in 1..7 |-> IF i <= Len(args) THEN args[i] ELSE IF i = 3 THEN <<1>> ELSE <<0>>]
FromComponents(args) == FromFields([Padded(args) EXCEPT ![1] = Century(@)])

(***************************************************************************)
(* The host: a function from times to the minutes that UTC is ahead, NaN   *)
(* outside the range of times as the native Date has it.  A zone has       *)
(* summer time from April to September, from October to March, or never;   *)
(* "declared" hosts tell their standard offset.                            *)
(***************************************************************************)
IsSummer(z, t) ==
    CASE z.summer = "north" -> FieldsOf(t)[2] \in 3..8
      [] z.summer = "south" -> FieldsOf(t)[2] \notin 3..8
      [] z.summer = "never" -> FALSE
Offset(z, t) == IF IsSummer(z, t) THEN z.standard - 60 ELSE z.standard
TimezoneOffset(z, t) == IF TimeClip(t) = NaN THEN NaN ELSE <<Offset(z, t)>>

LocalTime(z, t) ==
    LET offset == TimezoneOffset(z, t)
    IN  IF IsFinite(offset) THEN Later(t, -offset[1]) ELSE NaN

\* A time that only identifies the zone is moved into the range.
Clamped(t) == IF ~Beyond(t) THEN t ELSE IF t[1] < 0 THEN <<-Limit, 0>> ELSE <<Limit, 0>>
ProbeTimezoneOffset(z, t) == TimezoneOffset(z, Clamped(t))[1]
StandardOffset(z, y) ==
    IF z.declared THEN z.standard
    ELSE LastOf({ProbeTimezoneOffset(z, <<DayFromYear(y), 0>>), ProbeTimezoneOffset(z, <<DayOf(y, 6, 1), 0>>)})
FirstGuess(z, local) == Later(local, StandardOffset(z, YearFromTime(local)))
AtOffset(local, offset) == IF IsFinite(offset) THEN Later(local, offset[1]) ELSE NaN
UtcFromLocalTime(z, local) ==
    IF IsFinite(local) THEN AtOffset(local, TimezoneOffset(z, FirstGuess(z, local))) ELSE NaN

(***************************************************************************)
(* Texts.  The parts that are not there are shorter sequences: date is     *)
(* <<month, date>>, time <<hour, minute, second>>, fraction the digits of  *)
(* the millisecond; zone is <<>>, <<"Z">> or <<sign, hours, minutes>>.     *)
(***************************************************************************)
Text(kind, year, date, time, fraction, zoned) ==
    [kind |-> kind, year |-> year, date |-> date, time |-> time, fraction |-> fraction, zone |-> zoned]

AbsOf(n) == IF n < 0 THEN -n ELSE n
Digits(n) == IF n > 99999 THEN 6 ELSE IF n > 9999 THEN 5 ELSE 4
FormatYear(y) == [sign |-> IF y < 0 THEN "-" ELSE "", digits |-> Digits(AbsOf(y)), of |-> AbsOf(y)]
FormatISOYear(y) ==
    IF y \in 0..9999 THEN [sign |-> "", digits |-> 4, of |-> y]
    ELSE [sign |-> IF y < 0 THEN "-" ELSE "+", digits |-> 6, of |-> AbsOf(y)]
FormatOffset(offset) == <<IF offset <= 0 THEN "+" ELSE "-", AbsOf(offset) \div 60, AbsOf(offset) % 60>>

ISOText(f) ==
    Text("iso", FormatISOYear(f[1]), <<f[2] + 1, f[3]>>, SubSeq(f, 4, 6),
         <<f[7] \div 100, (f[7] \div 10) % 10, f[7] % 10>>, <<"Z">>)
DisplayText(kind, f, zoned) ==
    Text(kind, FormatYear(f[1]), <<f[2] + 1, f[3]>>, SubSeq(f, 4, 6), <<>>, zoned)
FormatISOString(t) == ISOText(FieldsOf(t))
FormatUTCString(t) == DisplayText("utc", FieldsOf(t), <<>>)
FormatLocal(z, t) == DisplayText("local", FieldsOf(LocalTime(z, t)), FormatOffset(TimezoneOffset(z, t)[1]))

YearOf(x) == IF x.year.sign = "-" THEN -x.year.of ELSE x.year.of
Matches(x) ==
    CASE x.kind = "iso" ->
            /\ x.year.digits = IF x.year.sign = "" THEN 4 ELSE 6
            /\ Len(x.date) <= 2 /\ Len(x.time) \in {0, 2, 3} /\ Len(x.fraction) <= 3
            /\ x.time # <<>> => Len(x.date) = 2
            /\ x.fraction # <<>> => Len(x.time) = 3
            /\ x.zone # <<>> => x.time # <<>>
      [] x.kind \in {"utc", "local"} -> x.year.sign # "+" /\ x.year.digits >= 4
      [] OTHER -> FALSE

Part(parts, i, absent) == IF i <= Len(parts) THEN parts[i] ELSE absent
Milliseconds(fraction) == 100 * Part(fraction, 1, 0) + 10 * Part(fraction, 2, 0) + Part(fraction, 3, 0)
PartsOf(x) ==
    <<YearOf(x), Part(x.date, 1, 1), Part(x.date, 2, 1),
      Part(x.time, 1, 0), Part(x.time, 2, 0), Part(x.time, 3, 0), Milliseconds(x.fraction)>>
MonthLength(y, m) ==
    IF m = 12 THEN DaysInYear(y) - MonthStarts(y)[12] ELSE MonthStarts(y)[m + 1] - MonthStarts(y)[m]
ValidDateFields(f) ==
    /\ f[2] \in 1..12 /\ f[3] >= 1 /\ f[3] <= DaysInYear(f[1])
    /\ f[4] <= 24 /\ f[5] <= 59 /\ f[6] <= 59 /\ f[7] <= 999
    /\ f[4] = 24 => f[5] = 0 /\ f[6] = 0 /\ f[7] = 0
    /\ f[3] <= MonthLength(f[1], f[2])
ZoneIsValid(zoned) == Len(zoned) = 3 => zoned[2] <= 23 /\ zoned[3] <= 59
ZoneMinutes(zoned) ==
    IF Len(zoned) # 3 THEN 0 ELSE (IF zoned[1] = "+" THEN 1 ELSE -1) * (zoned[2] * 60 + zoned[3])
TimeOfParts(f) == FromFields([i \in 1..7 |-> <<IF i = 2 THEN f[i] - 1 ELSE f[i]>>])
NegativeZero(x) == x.kind = "iso" /\ x.year = [sign |-> "-", digits |-> 6, of |-> 0]
IsDate(x) == Matches(x) /\ ~NegativeZero(x) /\ ValidDateFields(PartsOf(x)) /\ ZoneIsValid(x.zone)
ParseDateString(x) == IF IsDate(x) THEN TimeClip(Later(TimeOfParts(PartsOf(x)), -ZoneMinutes(x.zone))) ELSE NaN

(***************************************************************************)
(* The Date object.  Setters convert their arguments before they read the  *)
(* time value: a valueOf that sets the same date meanwhile ("during") is   *)
(* what they start from.                                                   *)
(***************************************************************************)
Setters ==
    [Milliseconds |-> <<7, 1>>, Seconds |-> <<6, 2>>, Minutes |-> <<5, 3>>, Hours |-> <<4, 4>>,
     Date |-> <<3, 1>>, Month |-> <<2, 2>>, FullYear |-> <<1, 3>>, Year |-> <<1, 1>>]
Recovers(name) == name \in {"FullYear", "Year"}
Read(local, t) == IF local THEN LocalTime(zone, t) ELSE t
SetterFields(name, local, held) ==
    LET time == IF IsFinite(held) THEN Read(local, held) ELSE IF Recovers(name) THEN <<0, 0>> ELSE NaN
    IN  IF IsFinite(time) THEN FieldsOf(time) ELSE <<>>
Replaced(fields, start, values) ==
    [i \in 1..7 |-> IF i >= start /\ i < start + Len(values) THEN values[i - start + 1] ELSE <<fields[i]>>]
Given(name, args) ==
    IF name = "Year" THEN <<Century(args[1])>>
    ELSE SubSeq(args, 1, IF Len(args) < Setters[name][2] THEN Len(args) ELSE Setters[name][2])
SetDateFields(local, fields) ==
    TimeClip(IF local THEN UtcFromLocalTime(zone, FromFields(fields)) ELSE FromFields(fields))
AfterSetter(name, local, args, held) ==
    LET fields == SetterFields(name, local, held)
    IN  IF fields = <<>> THEN NaN ELSE SetDateFields(local, Replaced(fields, Setters[name][1], Given(name, args)))

\* The time value when the fields are read, after the arguments were converted.
HeldAfter(during) == IF during = {} THEN timeValue ELSE CHOOSE t \in during : TRUE

NoCall == [call |-> "none"]
Called(name, local, args, during) == [call |-> name, local |-> local, args |-> args, before |-> timeValue, during |-> during]
Does(call, result) ==
    /\ calls < MaxCalls
    /\ timeValue' = result
    /\ last' = call
    /\ calls' = calls + 1
    /\ UNCHANGED zone

Init ==
    /\ zone \in Zones
    /\ timeValue \in {TimeClip(t) : t \in Instants}
    /\ last = NoCall
    /\ calls = 0

ConstructLocal(args) ==
    Does(Called("construct", TRUE, args, {}), TimeClip(UtcFromLocalTime(zone, FromComponents(args))))
ConstructUTC(args) == Does(Called("construct", FALSE, args, {}), TimeClip(FromComponents(args)))
ConstructText(x) == Does([call |-> "parse", text |-> x], ParseDateString(x))
SetTime(t) == Does(NoCall, TimeClip(t))
Set(name, local, args, during) ==
    \E held \in {HeldAfter(during)} :
        Does(Called(name, local, args, during), AfterSetter(name, local, args, held))

Meanwhile == {{}} \cup {{TimeClip(t)} : t \in {<<0, 0>>, NaN}}

Next ==
    \/ \E args \in Arguments : ConstructLocal(args) \/ ConstructUTC(args)
    \/ \E x \in Texts : ConstructText(x)
    \/ \E t \in {<<Limit, 0>>, <<Limit, 1>>, <<-Limit, 0>>, <<-Limit - 1, MsPerDay - 1>>, NaN} : SetTime(t)
    \/ \E name \in DOMAIN Setters, local \in BOOLEAN, during \in Meanwhile :
           \E args \in Values[name] :
              /\ name = "Year" => local
              /\ Set(name, local, args, during)

Spec == Init /\ [][Next]_vars

(***************************************************************************)
(* Calendar.                                                               *)
(***************************************************************************)
LengthOfMonth(y, m) ==
    IF m = 1 THEN (IF y % 400 = 0 \/ (y % 4 = 0 /\ y % 100 # 0) THEN 29 ELSE 28)
    ELSE IF m \in {3, 5, 8, 10} THEN 30 ELSE 31
NextDate(f) ==
    IF f[3] < LengthOfMonth(f[1], f[2]) THEN <<f[1], f[2], f[3] + 1>>
    ELSE IF f[2] < 11 THEN <<f[1], f[2] + 1, 1>> ELSE <<f[1] + 1, 0, 1>>

\* The year, month and date computed for a day, on either side of the epoch
\* and at the ends of the range, are a date of the calendar; those of the next
\* day are the next date; and makeDay leads back from them, also with the
\* month written as one of the year before or after.
CalendarIsExact ==
    IsFinite(timeValue) =>
        \E f \in {DateFromTime(timeValue)} :
            /\ f[2] \in 0..11 /\ f[3] \in 1..LengthOfMonth(f[1], f[2])
            /\ DateFromTime(<<Day(timeValue) + 1, 0>>) = NextDate(f)
            /\ \A k \in {-1, 0, 1} : DayOf(f[1] + k, f[2] - 12 * k, f[3]) = Day(timeValue)
            /\ Day(timeValue) = 0 => f = <<1970, 0, 1>> /\ WeekDay(timeValue) = 4

(***************************************************************************)
(* Texts.                                                                  *)
(***************************************************************************)
ToSecond(t) == <<t[1], t[2] - (t[2] % 1000)>>
Complete(x) == x.kind = "iso" /\ Len(x.fraction) = 3 /\ x.zone = <<"Z">> /\ x.time[1] # 24

\* What toISOString, toUTCString and toString write for a time is read back as
\* that time (to the second, for the two that show no milliseconds), and a
\* complete ISO text that is read as a time is what toISOString writes for it:
\* no text names a day that its month does not have.
TextsRoundTrip ==
    IsFinite(timeValue) =>
        /\ ParseDateString(FormatISOString(timeValue)) = timeValue
        /\ ParseDateString(FormatUTCString(timeValue)) = ToSecond(timeValue)
        /\ ParseDateString(FormatLocal(zone, timeValue)) = ToSecond(timeValue)
        /\ last.call = "parse" /\ Complete(last.text) => FormatISOString(timeValue) = last.text

(***************************************************************************)
(* Local time.                                                             *)
(***************************************************************************)
Readings(local) == {t \in {Later(local, zone.standard - d) : d \in {0, 60}} : LocalTime(zone, t) = local}

\* A local time is converted to the time that shows it: to the one in standard
\* time when the clocks show it twice, and with the offset of summer time when
\* they skip it (ES5 15.9.1.9).  Excepted are local times whose reading in
\* standard time is past the range, in summer time the last hour of the range,
\* about which the host is asked unclamped; and, in the range's first year,
\* whose January is before the range, only some time that shows it is promised.
Reading(local) ==
    LET inStandard == Later(local, zone.standard)
    IN  IF LocalTime(zone, inStandard) = local THEN inStandard ELSE Later(local, zone.standard - 60)
FirstYear == YearFromTime(<<-Limit, 0>>)
LocalTimeIsInverted ==
    IsFinite(timeValue) =>
        \A shift \in {-60, 0, 60} :
            \E local \in {Later(LocalTime(zone, timeValue), shift)} :
                \E utc \in {UtcFromLocalTime(zone, local)} :
                    \/ Beyond(Later(local, zone.standard))
                    \/ YearFromTime(local) = FirstYear /\ (Readings(local) # {} => utc \in Readings(local))
                    \/ utc = Reading(local)

(***************************************************************************)
(* Setters.                                                                *)
(***************************************************************************)
\* The fields the last call asked for: a setter's, in the date as it was when
\* the arguments had been converted.
AskedOf(held) ==
    IF last.call = "construct" THEN [Padded(last.args) EXCEPT ![1] = Century(@)]
    ELSE IF SetterFields(last.call, last.local, held) = <<>> THEN <<NaN>>
    ELSE Replaced(SetterFields(last.call, last.local, held), Setters[last.call][1], Given(last.call, last.args))
Asked == AskedOf(IF last.during = {} THEN last.before ELSE CHOOSE t \in last.during : TRUE)
OnCalendar(f) ==
    /\ f[2] \in 0..11 /\ f[3] \in 1..LengthOfMonth(f[1], f[2])
    /\ f[4] \in 0..23 /\ f[5] \in 0..59 /\ f[6] \in 0..59 /\ f[7] \in 0..999
Bare(f) == [i \in 1..7 |-> f[i][1]]
Skipped(f) == Readings(FromFields(f)) = {}

\* After a constructor or setter was called with fields of the calendar, the
\* getters return those fields and, of a setter, the other fields that the
\* date had once all the arguments were converted, valueOf methods that set the
\* same date included; the date is invalid if an argument was NaN, or if it
\* was invalid and the setter does not give it a year.
FieldsReadBack ==
    last.call \notin {"none", "parse"} =>
        \E f \in {Asked} :
            IF ~AllFinite(f) THEN timeValue = NaN
            ELSE OnCalendar(Bare(f)) /\ IsFinite(timeValue) /\ (last.local => ~Skipped(f))
                     => FieldsOf(Read(last.local, timeValue)) = Bare(f)
================================================================================
