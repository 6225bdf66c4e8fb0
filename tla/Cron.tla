-------------------------------- MODULE Cron --------------------------------
(***************************************************************************)
(* What a schedule expression stands for: the parser of a five-field spec, *)
(* SpecSchedule.Next, which walks a time forward field by field, and       *)
(* minRate, which calls it again and again (pkg/schedule/expression.go and  *)
(* pkg/schedule/internal/robfig).                                          *)
(*                                                                         *)
(* The calendar is a parameter: a year of few short months, one of them    *)
(* longer in leap years, has every carry of the real one.  Times are UTC   *)
(* and whole seconds; the branch for a midnight that daylight saving skips *)
(* is not modelled.                                                        *)
(***************************************************************************)
EXTENDS Integers, Sequences, FiniteSets, FiniteSetsExt

CONSTANTS
    DaysInMonth, LeapMonth, LeapEvery, DaysPerWeek,
    HoursPerDay, MinutesPerHour, SecondsPerMinute,
    YearsAhead,    \* Next gives up after this many years (5 in the code)
    FieldLists,    \* the fields of a spec: functions of "minute" .. "dow" to lists of ranges
    CronStarts,    \* the times Next is asked about
    MinRateTimes,  \* minRateScheduledTimes
    MinRateYears   \* minRateHorizon, in years

ASSUME CronCalendar ==
    /\ DaysInMonth \in Seq(Nat \ {0})
    /\ LeapMonth \in DOMAIN DaysInMonth /\ LeapEvery \in Nat \ {0}
    /\ {DaysPerWeek, HoursPerDay, MinutesPerHour, SecondsPerMinute} \subseteq Nat \ {0}
    /\ {YearsAhead, MinRateTimes, MinRateYears} \subseteq Nat

VARIABLES
    cronSpec,   \* the parsed schedule
    cronFrom,   \* the time the running Next is asked about
    cronAt,     \* its t
    added,      \* whether a field has been incremented
    yearLimit,
    cronPc,     \* the loop it is in
    cronResult, \* what it returned
    minimum,    \* minRate's: shortest gap so far, and the times still to ask for
    timesLeft, cronStart

cronVars ==
    <<cronSpec, cronFrom, cronAt, added, yearLimit, cronPc, cronResult,
      minimum, timesLeft, cronStart>>

-----------------------------------------------------------------------------
(* The calendar (package time). *)

Months == Cardinality(DOMAIN DaysInMonth)
DaysIn(y, m) ==
    IF m = LeapMonth /\ y % LeapEvery = 0 THEN DaysInMonth[m] + 1 ELSE DaysInMonth[m]
DaysInYear(y) == MapThenSumSet(LAMBDA m : DaysIn(y, m), 1 .. Months)
DayNumber(t) ==
    MapThenSumSet(DaysInYear, 0 .. t.y - 1)
      + MapThenSumSet(LAMBDA m : DaysIn(t.y, m), 1 .. t.mo - 1) + t.d
Weekday(t) == DayNumber(t) % DaysPerWeek
Seconds(t) ==
    ((DayNumber(t) * HoursPerDay + t.h) * MinutesPerHour + t.mi) * SecondsPerMinute + t.s

\* The times there are.
IsTime(t) ==
    /\ t \in [y : Nat, mo : 1 .. Months, d : Nat \ {0}, h : 0 .. HoursPerDay - 1,
              mi : 0 .. MinutesPerHour - 1, s : 0 .. SecondsPerMinute - 1]
    /\ t.d <= DaysIn(t.y, t.mo)

\* A range's numbers are those of its text; mustParseInt refuses a negative one.
ASSUME CronInputs ==
    /\ FieldLists \subseteq [{"minute", "hour", "dom", "month", "dow"} ->
                            Seq([star : BOOLEAN, low : Nat, high : Nat, single : BOOLEAN, step : Nat])]
    /\ \A t \in CronStarts : IsTime(t)

NextMonth(t) == IF t.mo = Months THEN [t EXCEPT !.y = @ + 1, !.mo = 1] ELSE [t EXCEPT !.mo = @ + 1]

\* AddDate(0, 1, 0): a day the month does not have spills into the one after.
AddMonth(t) ==
    LET u == NextMonth(t)
    IN IF u.d <= DaysIn(u.y, u.mo) THEN u
       ELSE [NextMonth(u) EXCEPT !.d = u.d - DaysIn(u.y, u.mo)]
AddDay(t) == IF t.d < DaysIn(t.y, t.mo) THEN [t EXCEPT !.d = @ + 1] ELSE [NextMonth(t) EXCEPT !.d = 1]
AddHour(t) == IF t.h + 1 < HoursPerDay THEN [t EXCEPT !.h = @ + 1] ELSE [AddDay(t) EXCEPT !.h = 0]
AddMinute(t) ==
    IF t.mi + 1 < MinutesPerHour THEN [t EXCEPT !.mi = @ + 1] ELSE [AddHour(t) EXCEPT !.mi = 0]
AddSecond(t) ==
    IF t.s + 1 < SecondsPerMinute THEN [t EXCEPT !.s = @ + 1] ELSE [AddMinute(t) EXCEPT !.s = 0]

-----------------------------------------------------------------------------
(* The parser.  A range is [star, low, high, single, step]; step 0: none. *)

Bounds == [minute |-> 0 .. MinutesPerHour - 1, hour |-> 0 .. HoursPerDay - 1,
           dom |-> 1 .. Max({DaysIn(0, m) : m \in 1 .. Months}),
           month |-> 1 .. Months, dow |-> 0 .. DaysPerWeek - 1]

getBits(low, high, step) == {i \in low .. high : (i - low) % step = 0}

Low(r, f) == IF r.star THEN Min(Bounds[f]) ELSE r.low
High(r, f) ==
    IF r.star THEN Max(Bounds[f])
    ELSE IF r.single /\ r.step = 0 THEN r.low
    ELSE IF r.single THEN Max(Bounds[f])  \* "N/step" means "N-max/step"
    ELSE r.high
Step(r) == IF r.step = 0 THEN 1 ELSE r.step

InBounds(r, f) ==
    Low(r, f) >= Min(Bounds[f]) /\ High(r, f) <= Max(Bounds[f]) /\ Low(r, f) <= High(r, f)

\* A step above 1 takes the star's meaning away.
getRange(r, f) ==
    [bits |-> getBits(Low(r, f), High(r, f), Step(r)), star |-> r.star /\ Step(r) = 1]

getField(list, f) ==
    [bits |-> UNION {getRange(list[i], f).bits : i \in DOMAIN list},
     star |-> \E i \in DOMAIN list : getRange(list[i], f).star]

\* A range outside its bounds fails the whole spec.
Valid(fields) == \A f \in DOMAIN fields : \A i \in DOMAIN fields[f] : InBounds(fields[f][i], f)

Parse(fields) == [f \in DOMAIN fields |-> getField(fields[f], f)]

\* The seconds of a five-field spec: the default normalizeFields fills in.
SecondBits == {0}

\* A descriptor sets some fields to their lowest value and leaves the others free.
LowestFields ==
    [yearly |-> {"minute", "hour", "dom", "month"}, monthly |-> {"minute", "hour", "dom"},
     weekly |-> {"minute", "hour", "dow"}, daily |-> {"minute", "hour"}, hourly |-> {"minute"}]

parseDescriptor(name) ==
    [f \in DOMAIN Bounds |->
        IF f \in LowestFields[name] THEN [bits |-> {Min(Bounds[f])}, star |-> FALSE]
                                    ELSE [bits |-> Bounds[f], star |-> TRUE]]

Parsed(fieldLists) ==
    {Parse(fields) : fields \in {list \in fieldLists : Valid(list)}}
      \union {parseDescriptor(name) : name \in DOMAIN LowestFields}

-----------------------------------------------------------------------------
(* SpecSchedule.Next. *)

\* Two restricted day fields are alternatives; next to a star both must hold.
dayMatches(spec, t) ==
    IF spec.dom.star \/ spec.dow.star
    THEN t.d \in spec.dom.bits /\ Weekday(t) \in spec.dow.bits
    ELSE t.d \in spec.dom.bits \/ Weekday(t) \in spec.dow.bits

\* A Next call on t: the upcoming second, and the last year it looks at.
Begin(t) ==
    /\ cronFrom' = t
    /\ cronAt' = AddSecond(t)
    /\ added' = FALSE
    /\ yearLimit' = AddSecond(t).y + YearsAhead
    /\ cronPc' = "wrap"

NoTime == [y |-> 0, mo |-> 0, d |-> 0, h |-> 0, mi |-> 0, s |-> 0]
NoGap == -1

CronInit ==
    \E spec \in Parsed(FieldLists), t \in CronStarts :
        /\ cronSpec = spec
        /\ cronFrom = t /\ cronStart = t
        /\ cronAt = AddSecond(t)
        /\ added = FALSE
        /\ yearLimit = AddSecond(t).y + YearsAhead
        /\ cronPc = "wrap"
        /\ cronResult = NoTime
        /\ minimum = NoGap /\ timesLeft = MinRateTimes

Step1(at, pc) == cronAt' = at /\ added' = TRUE /\ cronPc' = pc
Keep == UNCHANGED <<cronSpec, cronFrom, cronStart, yearLimit, cronResult, minimum, timesLeft>>

Wrap ==
    /\ cronPc = "wrap" /\ cronAt.y <= yearLimit
    /\ cronPc' = "month"
    /\ UNCHANGED <<cronAt, added>> /\ Keep

StartOfMonth(t) == [t EXCEPT !.d = 1, !.h = 0, !.mi = 0, !.s = 0]
StartOfDay(t) == [t EXCEPT !.h = 0, !.mi = 0, !.s = 0]

\* The minutes and seconds stay when the hour moves.
StartOfHourUncut(t) == t

StartOfHour(t) == [t EXCEPT !.mi = 0, !.s = 0]
StartOfMinute(t) == [t EXCEPT !.s = 0]
FirstCut(t, cut) == IF added THEN t ELSE cut

MonthStep ==
    /\ cronPc = "month" /\ cronAt.mo \notin cronSpec.month.bits
    /\ LET u == AddMonth(FirstCut(cronAt, StartOfMonth(cronAt)))
       IN Step1(u, IF u.mo = 1 THEN "wrap" ELSE "month")
    /\ Keep

DayStep ==
    /\ cronPc = "day" /\ ~dayMatches(cronSpec, cronAt)
    /\ LET u == AddDay(FirstCut(cronAt, StartOfDay(cronAt)))
       IN Step1(u, IF u.d = 1 THEN "wrap" ELSE "day")
    /\ Keep

HourStep ==
    /\ cronPc = "hour" /\ cronAt.h \notin cronSpec.hour.bits
    /\ LET u == AddHour(FirstCut(cronAt, StartOfHour(cronAt)))
       IN Step1(u, IF u.h = 0 THEN "wrap" ELSE "hour")
    /\ Keep

MinuteStep ==
    /\ cronPc = "minute" /\ cronAt.mi \notin cronSpec.minute.bits
    /\ LET u == AddMinute(FirstCut(cronAt, StartOfMinute(cronAt)))
       IN Step1(u, IF u.mi = 0 THEN "wrap" ELSE "minute")
    /\ Keep

SecondStep ==
    /\ cronPc = "second" /\ cronAt.s \notin SecondBits
    /\ LET u == AddSecond(cronAt)
       IN Step1(u, IF u.s = 0 THEN "wrap" ELSE "second")
    /\ Keep

Matches(pc) ==
    CASE pc = "month"  -> cronAt.mo \in cronSpec.month.bits
      [] pc = "day"    -> dayMatches(cronSpec, cronAt)
      [] pc = "hour"   -> cronAt.h \in cronSpec.hour.bits
      [] pc = "minute" -> cronAt.mi \in cronSpec.minute.bits
      [] OTHER         -> FALSE
Following(pc) ==
    CASE pc = "month" -> "day" [] pc = "day" -> "hour" [] pc = "hour" -> "minute"
      [] OTHER -> "second"

NextField ==
    /\ Matches(cronPc)
    /\ cronPc' = Following(cronPc)
    /\ UNCHANGED <<cronAt, added>> /\ Keep

Return ==
    /\ \/ cronPc = "wrap" /\ cronAt.y > yearLimit /\ cronResult' = NoTime
       \/ cronPc = "second" /\ cronAt.s \in SecondBits /\ cronResult' = cronAt
    /\ cronPc' = "returned"
    /\ UNCHANGED <<cronSpec, cronFrom, cronStart, cronAt, added, yearLimit, minimum, timesLeft>>

-----------------------------------------------------------------------------
(* minRate: the gap to the previous result, then Next again. *)

\* previous is not moved on.
GapFromStart == Seconds(cronResult) - Seconds(cronStart)

Gap == Seconds(cronResult) - Seconds(cronFrom)

Shorter(a, b) == IF a = NoGap \/ b < a THEN b ELSE a

\* The first call's result has no gap; a result that is zero or past the
\* horizon ends the loop, as does the last of MinRateTimes.
minRate ==
    /\ cronPc = "returned" /\ timesLeft > 0
    /\ cronResult # NoTime
    /\ LET first == timesLeft = MinRateTimes
       IN /\ first \/ cronResult.y <= cronStart.y + MinRateYears
          /\ minimum' = IF first THEN minimum ELSE Shorter(minimum, Gap)
    /\ timesLeft' = timesLeft - 1
    /\ IF timesLeft = 1
       THEN cronPc' = "rated" /\ UNCHANGED <<cronFrom, cronAt, added, yearLimit>>
       ELSE Begin(cronResult)
    /\ UNCHANGED <<cronSpec, cronStart, cronResult>>

CronNext ==
    \/ Wrap \/ MonthStep \/ DayStep \/ HourStep \/ MinuteStep \/ SecondStep
    \/ NextField \/ Return \/ minRate

CronSpecification == CronInit /\ [][CronNext]_cronVars

-----------------------------------------------------------------------------
(* Properties. *)

\* The reference: a day both fields allow, or one of two restricted ones does.
ScheduledDay(t) ==
    LET dom == t.d \in cronSpec.dom.bits
        dow == Weekday(t) \in cronSpec.dow.bits
    IN (dom /\ dow) \/ (~cronSpec.dom.star /\ ~cronSpec.dow.star /\ (dom \/ dow))

\* The scheduled times of a year.
TimesOf(y) ==
    {t \in [y : {y}, mo : cronSpec.month.bits, d : 1 .. Max(Bounds.dom),
            h : cronSpec.hour.bits, mi : cronSpec.minute.bits, s : {0}] :
        t.d <= DaysIn(y, t.mo) /\ ScheduledDay(t)}

\* Next returns the first time of the expression after the one it was asked
\* about, whatever fields carried over, leap day included; and gives up only
\* when the years it may look at hold none.
NextIsFirst ==
    cronPc = "returned" =>
        LET later == {t \in UNION {TimesOf(y) : y \in cronFrom.y .. yearLimit} :
                        Seconds(t) > Seconds(cronFrom)}
        IN IF cronResult = NoTime THEN later = {}
           ELSE cronResult \in later
                  /\ Seconds(cronResult) = Min({Seconds(t) : t \in later})

\* minRate's result is the shortest gap between neighbouring scheduled times of
\* those it has asked for: the bound a schedule's message timeout must keep.
MinRateIsShortest ==
    minimum # NoGap /\ cronPc \in {"returned", "rated"} =>
        LET last == IF cronPc = "rated" THEN cronResult ELSE cronFrom
            times == {Seconds(t) : t \in UNION {TimesOf(y) : y \in cronStart.y .. last.y}}
            asked == {u \in times : Seconds(cronStart) < u /\ u <= Seconds(last)}
        IN minimum = Min({q[2] - q[1] : q \in
                            {p \in asked \X asked : p[1] < p[2] /\ ~\E c \in asked : p[1] < c /\ c < p[2]}})
=============================================================================
