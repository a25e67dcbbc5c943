------------------------------- MODULE Dates -------------------------------
(* Days and times: calendar, date and lib/time. *)
EXTENDS Integers, Sequences

(***************************************************************************)
(* calendar prints a year, or three months around a date, in blocks of     *)
(* thirteen weeks: it takes the date from arguments given in any order,    *)
(* finds the day of the week of the first day by the doomsday rule, and    *)
(* fills the blocks by counting days.                                      *)
(***************************************************************************)
CONSTANTS
  Numbers,     \* numeric arguments
  Months,      \* months given by name
  Dates,       \* ISO dates: [year, month, day], day 0 when there is none
  Todays       \* dates it may be

VARIABLES
  st,      \* "args", "start", "rows", "done", "failed", "undefined"
  ctx,     \* struct top: [year, month, day, weekday, y: OPT_y, mon: SET_mon, mark, n: arguments]
  today,   \* (external) the local date
  first,   \* the first date shown
  blocks   \* the blocks, seven lines of cells 0 to 14 each: days, negative when marked

calendar_vars == <<st, ctx, today, first, blocks>>

TAG == 88
mthdays == <<31, 28, 31, 30, 31, 30, 31, 31, 30, 31, 30, 31>>   \* from index 1 on
DaysOf(m) == IF m = 0 THEN 0 ELSE mthdays[m]

(***************************************************************************)
(* Arguments                                                               *)
(***************************************************************************)
Invert(c) == [c EXCEPT !.day = c.month, !.month = c.day]
invert_day_mon(c) ==
  IF c.mon \/ c.month = 0 \/ c.day = 0 \/ c.day > 12 THEN c ELSE Invert(c)

Bad(c) == [c EXCEPT !.n = -1]

\* with -y the first number is the year, and then an invalid component
set_numeric(c, val) ==
  CASE c.year = 0 /\ c.y -> Bad(c)
    [] ~(c.year = 0 /\ c.y) /\ val > 1000 /\ c.year = 0 -> [invert_day_mon(c) EXCEPT !.year = val]
    [] val \in 13..31 /\ c.day = 0 -> [c EXCEPT !.day = val]
    [] val <= 12 /\ c.month = 0 -> [c EXCEPT !.month = val]
    [] val <= 12 /\ c.month # 0 /\ c.day = 0 -> [c EXCEPT !.day = val]
    [] OTHER -> Bad(c)

set_month(c, val) ==
  IF c.month = 0 THEN [c EXCEPT !.month = val, !.mon = TRUE]
  ELSE IF c.day = 0 /\ ~c.mon THEN [c EXCEPT !.day = c.month, !.month = val]
  ELSE Bad(c)

\* the table of days has a zero for month 0, and the month before is looked up
set_iso_date(c, d) ==
  IF c.year # 0 \/ c.month # 0 \/ c.day # 0 THEN Bad(c)
  ELSE LET s == [c EXCEPT !.year = d.year, !.month = d.month, !.day = d.day]
       IN  IF d.day = 0 \/ (d.month <= 12 /\ d.day <= DaysOf(d.month - 1)) THEN s ELSE Bad(c)

Taken(c) ==
  {set_numeric(c, v) : v \in Numbers} \cup {set_month(c, m) : m \in Months} \cup
  {set_iso_date(c, d) : d \in Dates} \cup {Bad(c)}

set_arg ==
  /\ st = "args"
  /\ ctx.n < 3
  /\ \E c \in Taken(ctx) :
       IF c.n < 0 THEN st' = "failed" /\ UNCHANGED ctx
       ELSE ctx' = [c EXCEPT !.n = @ + 1] /\ UNCHANGED st
  /\ UNCHANGED <<today, first, blocks>>

query_local_time(c) ==
  [c EXCEPT !.day = IF c.day = 0 /\ c.month = 0 /\ c.year = 0 THEN today.day ELSE @,
            !.month = IF c.month = 0 /\ c.year = 0 THEN today.month ELSE @,
            !.year = IF c.year = 0 THEN today.year ELSE @]

Prepared(c) ==
  LET s == IF c.day # 0 /\ c.month # 0 /\ c.year = 0 /\ ~c.mon THEN Invert(c) ELSE c
      y == IF c.year # 0 /\ c.month = 0 THEN [s EXCEPT !.y = TRUE] ELSE s
  IN  IF c.month = 0 \/ c.year = 0 THEN query_local_time(y) ELSE y

\* the months above 12 index the tables past their end
prep_supplied_date ==
  /\ st = "args"
  /\ \/ /\ (ctx.day # 0 /\ ctx.month = 0) \/ (ctx.year # 0 /\ ctx.year <= 1582)
        /\ st' = "failed" /\ UNCHANGED ctx
     \/ /\ ~((ctx.day # 0 /\ ctx.month = 0) \/ (ctx.year # 0 /\ ctx.year <= 1582))
        /\ ctx' = Prepared(ctx)
        /\ st' = IF ctx'.month \in 0..12 THEN "start" ELSE "undefined"
  /\ UNCHANGED <<today, first, blocks>>

(***************************************************************************)
(* The first day of the first block                                        *)
(***************************************************************************)
is_leap(y) == y % 4 = 0 /\ (y % 100 # 0 \/ y % 400 = 0)
LeapDay(y) == IF is_leap(y) THEN 1 ELSE 0

\* the days of March up to the month before m
RECURSIVE FromMarch(_)
FromMarch(m) == IF m <= 3 THEN 0 ELSE mthdays[m - 1] + FromMarch(m - 1)

Even(t) == IF t % 2 = 1 THEN t + 11 ELSE t
doomsday(year) ==
  LET a == ((5 * ((year \div 100) % 4)) % 7) + 2
      t == 7 - (Even(Even(year % 100) \div 2) % 7)
  IN  (a + t) % 7

shift_to(year, month) ==
  IF month < 3
  THEN 7 - ((31 + 28 + LeapDay(year) - (IF month = 2 THEN 32 ELSE 1)) % 7)
  ELSE 1 + FromMarch(month)

\* mutant of weekday_of
weekday_plain(year, month) ==
  LET s == IF month < 3 THEN 7 - ((31 + 28 - (IF month = 2 THEN 32 ELSE 1)) % 7) ELSE 1 + FromMarch(month)
      w == (doomsday(year) + s) % 7
  IN  IF w = 0 THEN 7 ELSE w

weekday_of(year, month) ==
  LET w == (doomsday(year) + shift_to(year, month)) % 7 IN IF w = 0 THEN 7 ELSE w

start_from(c, year, month) ==
  [c EXCEPT !.mark = [month |-> c.month, day |-> c.day],
            !.year = year, !.month = month, !.day = 1, !.weekday = weekday_of(year, month)]

Start ==
  /\ st = "start"
  /\ ctx' = IF ctx.y THEN start_from(ctx, ctx.year, 1)
            ELSE IF ctx.month = 1 THEN start_from(ctx, ctx.year - 1, 12)
            ELSE start_from(ctx, ctx.year, ctx.month - 1)
  /\ first' = ctx'
  /\ st' = "rows"
  /\ UNCHANGED <<today, blocks>>

(***************************************************************************)
(* Filling a block                                                         *)
(***************************************************************************)
\* w: [c: the context, row, end: the month has ended]
NextDay(c) ==
  CASE c.day = 28 /\ c.month = 2 /\ is_leap(c.year) -> [c EXCEPT !.day = @ + 1]
    [] ~(c.day = 28 /\ c.month = 2 /\ is_leap(c.year)) /\ c.day < mthdays[c.month] -> [c EXCEPT !.day = @ + 1]
    [] OTHER -> IF c.month < 12 THEN [c EXCEPT !.day = 1, !.month = @ + 1]
                ELSE [c EXCEPT !.day = 1, !.month = 1, !.year = @ + 1]

Cell(c) == IF c.day = c.mark.day /\ c.month = c.mark.month THEN -c.day ELSE c.day

RECURSIVE Fill(_, _, _, _, _)
Fill(c, row, ri, ci, rm) ==
  IF ri >= 7 THEN [c |-> [c EXCEPT !.weekday = 1], row |-> row]
  ELSE LET n == NextDay(c)
           r == [row EXCEPT ![ri][ci] = Cell(c)]
       IN  IF rm /\ n.day = 1
           THEN [c |-> [n EXCEPT !.weekday = IF ri + 1 < 7 THEN ri + 2 ELSE 1], row |-> r]
           ELSE Fill(n, r, ri + 1, ci, rm)
fill_column(w, ci, rm) == Fill(w.c, w.row, w.c.weekday - 1, ci, rm)

RECURSIVE Columns(_, _)
Columns(w, ci) == IF ci > 13 THEN w ELSE Columns(fill_column(w, ci, FALSE), ci + 1)

\* the tags of the weekdays go where the lines have no day at the side
calendar_row(c, lm, rm) ==
  LET w0 == [c |-> c, row |-> [d \in 0..6 |-> [ci \in 0..14 |-> 0]]]
      w1 == IF c.weekday >= 5 /\ lm THEN fill_column(w0, 0, FALSE) ELSE w0
      w2 == Columns(w1, 1)
      w3 == IF w2.c.day >= 27 /\ rm THEN fill_column(w2, 14, TRUE) ELSE w2
      left == {d \in 0..6 : w3.row[d][0] = 0 /\ (d >= 6 \/ w3.row[d + 1][0] = 0)}
      right == {d \in 0..6 : w3.row[d][14] = 0 /\ (d <= 0 \/ w3.row[d - 1][14] = 0)}
  IN  [w3 EXCEPT !.row = [d \in 0..6 |-> [ci \in 0..14 |->
         IF (ci = 0 /\ d \in left) \/ (ci = 14 /\ d \in right) THEN TAG ELSE @[d][ci]]]]

\* show_year and show_3mon
Show ==
  /\ st = "rows"
  /\ LET n == Len(blocks)
         w == IF ctx.y THEN calendar_row(ctx, n = 0, n = 3) ELSE calendar_row(ctx, TRUE, TRUE)
     IN  /\ ctx' = w.c
         /\ blocks' = Append(blocks, w.row)
         /\ st' = IF ctx.y /\ n < 3 THEN "rows" ELSE "done"
  /\ UNCHANGED <<today, first>>

CalInit ==
  /\ st = "args"
  /\ today \in Todays
  /\ \E y \in BOOLEAN :
       ctx = [year |-> 0, month |-> 0, day |-> 0, weekday |-> 0, y |-> y, mon |-> FALSE,
              mark |-> [month |-> 0, day |-> 0], n |-> 0]
  /\ first = ctx
  /\ blocks = <<>>

CalNext == set_arg \/ prep_supplied_date \/ Start \/ Show

CalSpec == CalInit /\ [][CalNext]_calendar_vars

(***************************************************************************)
(* Properties                                                              *)
(***************************************************************************)
\* days since 1 March of year 0, a Wednesday
DayNumber(y, m, d) ==
  LET a == IF m < 3 THEN y - 1 ELSE y
      b == IF m < 3 THEN m + 9 ELSE m - 3
  IN  365 * a + a \div 4 - a \div 100 + a \div 400 + (153 * b + 2) \div 5 + d - 1
Monday0(y, m, d) == (DayNumber(y, m, d) + 2) % 7
Month(k) == LET z == first.month - 1 + k IN [y |-> first.year + z \div 12, m |-> (z % 12) + 1]
Length(k) ==
  LET a == Month(k) b == Month(k + 1) IN DayNumber(b.y, b.m, 1) - DayNumber(a.y, a.m, 1)

\* the cells that show days, column by column: line and cell
Cells == {<<b, c, d>> : b \in DOMAIN blocks, c \in 0..14, d \in 0..6}
Shown == {x \in Cells : blocks[x[1]][x[3]][x[2]] \notin {0, TAG}}
\* how many days after the first one the cell is
Slot(x) == 91 * (x[1] - 1) + 7 * (x[2] - 1) + x[3] - (first.weekday - 1)
           + IF blocks[1][6][0] \notin {0, TAG} THEN 7 ELSE 0
RECURSIVE Nth(_, _)
Nth(n, k) == IF n < Length(k) THEN [m |-> Month(k).m, d |-> n + 1] ELSE Nth(n - Length(k), k + 1)

\* Whatever date the calendar is shown for, each day stands on the line of its weekday,
\* no day is left out between the first and the last shown, that date is the one marked,
\* and a year is shown to its end.  This is about what is shown: with -y and a year the
\* code always fails, and a date as yyyy-mm-dd is refused when its day is not one of the
\* month before, so any date in January is, though the manual has both.  start_from finds the first weekday by the
\* doomsday rule, and calendar_row has columns at both sides that it fills only when
\* the months do not fit into thirteen weeks.
CalendarRight ==
  st = "done" =>
    /\ first.weekday - 1 = Monday0(first.year, first.month, 1)
    /\ \A x \in Shown :
         LET t == Nth(Slot(x), 0)
             v == blocks[x[1]][x[3]][x[2]]
         IN  /\ v = t.d \/ v = -t.d
             /\ v < 0 <=> (first.mark.day = t.d /\ first.mark.month = t.m)
    /\ LET slots == {Slot(x) : x \in Shown}
           last == CHOOSE n \in slots : n + 1 \notin slots
       IN  /\ slots = 0..last
           /\ ctx.y => last + 1 >= DayNumber(first.year + 1, 1, 1) - DayNumber(first.year, 1, 1)
           /\ ~ctx.y => last + 1 >= Length(0) + Length(1)

(***************************************************************************)
(* date converts times between zones: a timestamp, a date and time in a    *)
(* zone, or a time of today in a zone, into the local time of another.     *)
(* Calendar time and timestamps are converted by tm2tv and tv2tm.          *)
(***************************************************************************)
CONSTANTS
  HOURS, MINS, SECS,   \* of a day, an hour, a minute: 24, 60, 60 in the code
  Files,       \* zone files: name -> [times: sequence of [at, off], type0: the offset of the
               \* first type, leaps: sequence of [base, sum]]
  Missing,     \* names of files that are not there
  Fixed,       \* fixedzones and UTC offsets: name -> offset
  Stamps, DateArgs, Times,    \* arguments: timestamps, <<y, m, d>>, <<h, m>>
  Nows         \* system times

VARIABLES
  args,    \* [tz, form, val, src]: the target zone, what follows, and the zone of it
  date_st,      \* "decode", "zones", "translate", "done", "failed"
  zt,      \* struct timedesc: [tv, tm, type, offset]
  src, tgt,    \* struct zonefile: [data, fixed, offset]; data "" for none
  now      \* (external) gettimeofday

date_vars == <<args, date_st, zt, src, tgt, now>>

DAY == HOURS * MINS * SECS
\* division and remainder in C
Quot(a, b) == IF a >= 0 THEN a \div b ELSE -((-a) \div b)
Rem(a, b) == a - b * Quot(a, b)
RECURSIVE SumTo(_, _)
SumTo(f, n) == IF n = 0 THEN 0 ELSE f[n] + SumTo(f, n - 1)

(***************************************************************************)
(* lib/time: struct tm has 1900 for year 0, 0 for January and 1-based days *)
(***************************************************************************)
mdays == <<31, 28, 31, 30, 31, 30, 31, 31, 30, 31, 30, 31>>

\* mutant of tm2tv
tm2tv_noleap(tm) ==
  LET y == tm.year + 1900
      days == (y - 1970) * 365 + (y \div 4 - y \div 100 + y \div 400)
              - (1970 \div 4 - 1970 \div 100 + 1970 \div 400) + SumTo(mdays, tm.mon) + tm.mday - 1
  IN  ((days * HOURS + tm.hour) * MINS + tm.min) * SECS + tm.sec

tm2tv(tm) ==
  LET y == tm.year + 1900
      l == IF tm.mon < 2 THEN y - 1 ELSE y
      days == (y - 1970) * 365 + (l \div 4 - l \div 100 + l \div 400)
              - (1970 \div 4 - 1970 \div 100 + 1970 \div 400) + SumTo(mdays, tm.mon) + tm.mday - 1
  IN  ((days * HOURS + tm.hour) * MINS + tm.min) * SECS + tm.sec

\* 1 March 2000
LEAPOCH == (10957 + 31 + 29) * DAY
P400 == 365 * 400 + 97
P100 == 365 * 100 + 24
P4 == 365 * 4 + 1
\* the months from March on
MarchDays == <<31, 30, 31, 30, 31, 31, 30, 31, 30, 31, 31, 29>>
RECURSIVE MonthOf(_, _)
MonthOf(mon, days) ==
  IF mon < 12 /\ MarchDays[mon + 1] <= days THEN MonthOf(mon + 1, days - MarchDays[mon + 1])
  ELSE [mon |-> mon, days |-> days]

tv2tm(tv) ==
  LET ts == tv - LEAPOCH
      neg == Rem(ts, DAY) < 0
      days == IF neg THEN Quot(ts, DAY) - 1 ELSE Quot(ts, DAY)
      secs == IF neg THEN Rem(ts, DAY) + DAY ELSE Rem(ts, DAY)
      w == Rem(3 + days, 7)
      back == Rem(days, P400) < 0
      qc == IF back THEN Quot(days, P400) - 1 ELSE Quot(days, P400)
      d1 == IF back THEN Rem(days, P400) + P400 ELSE Rem(days, P400)
      nc == IF d1 \div P100 = 4 THEN 3 ELSE d1 \div P100
      d2 == d1 - nc * P100
      nq == IF d2 \div P4 = 25 THEN 24 ELSE d2 \div P4
      d3 == d2 - nq * P4
      y0 == IF d3 \div 365 = 4 THEN 3 ELSE d3 \div 365
      m == MonthOf(0, d3 - y0 * 365)
      year == y0 + 4 * nq + 100 * nc + 400 * qc + 100
  IN  [year |-> IF m.mon + 2 >= 12 THEN year + 1 ELSE year,
       mon |-> IF m.mon + 2 >= 12 THEN m.mon + 2 - 12 ELSE m.mon + 2,
       mday |-> m.days + 1,
       wday |-> IF w < 0 THEN w + 7 ELSE w,
       sec |-> secs % SECS, min |-> (secs \div SECS) % MINS, hour |-> ((secs \div SECS) \div MINS) % HOURS]

(***************************************************************************)
(* The arguments.  decode_ymd puts the month in as it is given, and        *)
(* decode_hms takes no seconds.                                            *)
(***************************************************************************)
NoTm == [year |-> 0, mon |-> 0, mday |-> 0, wday |-> 0, sec |-> 0, min |-> 0, hour |-> 0]
decode_ymd(tm, d) == [tm EXCEPT !.year = d[1] - 1900, !.mon = d[2], !.mday = d[3]]
decode_hms(tm, t) == [tm EXCEPT !.hour = t[1], !.min = t[2], !.sec = 0]

decode_time ==
  /\ date_st = "decode"
  /\ \/ args.form = "none" /\ zt' = [zt EXCEPT !.tv = now, !.type = "tv"]
     \/ /\ args.form = "stamp"
        /\ zt' = [zt EXCEPT !.tv = args.val, !.type = "tv", !.tm = tv2tm(args.val)]
     \/ /\ args.form = "date and time"
        /\ zt' = [zt EXCEPT !.tm = decode_hms(decode_ymd(@, args.val.d), args.val.t), !.type = "all"]
     \/ /\ args.form = "time"
        /\ zt' = [zt EXCEPT !.tm = decode_hms(@, args.val), !.tv = now, !.type = "hms"]
     \/ args.form \in {"seconds", "date", "too many"} /\ UNCHANGED zt
  /\ date_st' = IF args.form \in {"seconds", "date", "too many"} THEN "failed" ELSE "zones"
  /\ UNCHANGED <<args, src, tgt, now>>

(***************************************************************************)
(* apply_zones: a zone of a fixed offset borrows the leap seconds of the   *)
(* other one, or of /etc/localtime; so does a zone that is not given       *)
(***************************************************************************)
Zone == [data |-> "", fixed |-> FALSE, offset |-> 0]
open_zone(z) ==
  IF z = "" THEN Zone
  ELSE IF z \in DOMAIN Fixed THEN [Zone EXCEPT !.fixed = TRUE, !.offset = Fixed[z]]
  ELSE [Zone EXCEPT !.data = z]

apply_zones ==
  /\ date_st = "zones"
  /\ LET t == open_zone(args.tz)
         s == open_zone(args.src)
         t2 == IF t.data = "" /\ s.data = "" THEN [t EXCEPT !.data = "localtime"] ELSE t
         s2 == IF s.data = "" THEN [s EXCEPT !.data = t2.data] ELSE s
         t3 == IF t2.data = "" THEN [t2 EXCEPT !.data = s2.data] ELSE t2
     IN  IF {t3.data, s2.data} \subseteq DOMAIN Files
         THEN tgt' = t3 /\ src' = s2 /\ date_st' = "translate"
         ELSE date_st' = "failed" /\ UNCHANGED <<src, tgt>>
  /\ UNCHANGED <<args, zt, now>>

(***************************************************************************)
(* Shifts                                                                  *)
(***************************************************************************)
RECURSIVE LeapFwd(_, _, _, _)
LeapFwd(leaps, ts, i, lo) ==
  IF i > Len(leaps) \/ (i <= Len(leaps) /\ leaps[i].base > ts) THEN [leapoff |-> lo, leapsec |-> 0]
  ELSE IF leaps[i].base < ts THEN LeapFwd(leaps, ts, i + 1, leaps[i].sum)
  ELSE [leapoff |-> lo, leapsec |-> leaps[i].sum - lo]

RECURSIVE Interval(_, _, _)
Interval(times, ts, i) == IF i > Len(times) \/ (i <= Len(times) /\ times[i].at >= ts) THEN i ELSE Interval(times, ts, i + 1)

zone_shift_fwd(z, ts) ==
  LET f == Files[z.data]
      l == LeapFwd(f.leaps, ts, 1, 0)
      i == Interval(f.times, ts, 1)
  IN  [leapoff |-> l.leapoff, leapsec |-> l.leapsec,
       zoneoff |-> IF z.fixed THEN z.offset ELSE IF f.times = <<>> THEN f.type0
                   ELSE f.times[IF i > 1 THEN i - 1 ELSE 1].off]

RECURSIVE LeapRev(_, _, _, _)
LeapRev(leaps, ts, i, lo) ==
  IF i > Len(leaps) THEN [leapoff |-> lo, leapsec |-> 0]
  ELSE LET b == leaps[i].base  s == leaps[i].sum
       IN  CASE b < ts - s - 1 -> LeapRev(leaps, ts, i + 1, s)
             [] b = ts - s - 1 -> [leapoff |-> s, leapsec |-> 1]
             [] b = ts - s -> [leapoff |-> s, leapsec |-> 0]
             [] OTHER -> [leapoff |-> lo, leapsec |-> 0]

RECURSIVE OffsetRev(_, _, _, _)
OffsetRev(times, ts, i, off) ==
  IF i > Len(times) \/ (i <= Len(times) /\ times[i].at >= ts - times[i].off) THEN off
  ELSE OffsetRev(times, ts, i + 1, times[i].off)

zone_shift_rev(z, ts) ==
  LET f == Files[z.data]
      l == LeapRev(f.leaps, ts, 1, 0)
  IN  [leapoff |-> l.leapoff, leapsec |-> l.leapsec,
       zoneoff |-> IF z.fixed THEN z.offset
                   ELSE OffsetRev(f.times, ts - (l.leapoff + l.leapsec), 1, 0)]

transback_tm_all_to_tv(tm) ==
  LET tv == tm2tv(tm)
      x == zone_shift_rev(src, tv)
  IN  tv - (x.leapoff + x.leapsec + x.zoneoff)

\* the date of now in the source zone
transback_tm_hms_to_tv(z) ==
  LET x == zone_shift_fwd(src, z.tv)
      tm == tv2tm(z.tv + x.leapoff + x.zoneoff)
  IN  transback_tm_all_to_tv([tm EXCEPT !.hour = z.tm.hour, !.min = z.tm.min, !.sec = z.tm.sec])

translate_tv_to_local_tm(ts) ==
  LET x == zone_shift_fwd(tgt, ts)
      tm == tv2tm(ts + x.zoneoff + x.leapoff)
  IN  [tm |-> [tm EXCEPT !.sec = @ + x.leapsec], offset |-> x.zoneoff]

translate ==
  /\ date_st = "translate"
  /\ LET ts == CASE zt.type = "hms" -> transback_tm_hms_to_tv(zt)
                 [] zt.type = "all" -> transback_tm_all_to_tv(zt.tm)
                 [] OTHER -> zt.tv
         l == translate_tv_to_local_tm(ts)
     IN  zt' = [zt EXCEPT !.tv = ts, !.tm = l.tm, !.offset = l.offset]
  /\ date_st' = "done"
  /\ UNCHANGED <<args, src, tgt, now>>

Zones == {""} \cup (DOMAIN Files \ {"localtime"}) \cup DOMAIN Fixed \cup Missing
Forms ==
  [form : {"none"}, val : {0}] \cup [form : {"stamp"}, val : Stamps] \cup
  [form : {"date and time"}, val : [d : DateArgs, t : Times]] \cup [form : {"time"}, val : Times] \cup
  [form : {"seconds", "date", "too many"}, val : {0}]

DateInit ==
  /\ \E tz, s \in Zones, f \in Forms :
       /\ s # "" => f.form \notin {"none", "stamp"}
       /\ args = [tz |-> tz, form |-> f.form, val |-> f.val, src |-> s]
  /\ date_st = "decode"
  /\ zt = [tv |-> 0, tm |-> NoTm, type |-> "", offset |-> 0]
  /\ src = Zone /\ tgt = Zone
  /\ now \in Nows

DateNext == decode_time \/ apply_zones \/ translate

DateSpec == DateInit /\ [][DateNext]_date_vars

(***************************************************************************)
(* Properties                                                              *)
(***************************************************************************)
\* days since 1970 of a date, months from 1, counted from 1 March of year 0
DayOfEpoch(y, m, d) ==
  LET a == IF m < 3 THEN y - 1 ELSE y
      b == IF m < 3 THEN m + 9 ELSE m - 3
  IN  365 * a + a \div 4 - a \div 100 + a \div 400 + (153 * b + 2) \div 5 + d - 1 - 719468
Seconds(y, m, d, h, mi, s) == ((DayOfEpoch(y, m, d) * HOURS + h) * MINS + mi) * SECS + s
OfTm(tm) == Seconds(tm.year + 1900, tm.mon + 1, tm.mday, tm.hour, tm.min, tm.sec)

\* the offset of a zone at ts, from the transition on, and the leap seconds before ts
OffsetAt(z, ts) ==
  IF z.fixed THEN z.offset
  ELSE LET times == Files[z.data].times
           at == {i \in DOMAIN times : times[i].at <= ts}
       IN  IF times = <<>> THEN Files[z.data].type0 ELSE times[IF at = {} THEN 1 ELSE CHOOSE i \in at : \A j \in at : j <= i].off
LeapsAt(z, ts) ==
  LET leaps == Files[z.data].leaps
      at == {i \in DOMAIN leaps : leaps[i].base <= ts}
  IN  IF at = {} THEN 0 ELSE leaps[CHOOSE i \in at : \A j \in at : j <= i].sum
LocalAt(z, ts) == ts + OffsetAt(z, ts) + LeapsAt(z, ts)
\* at no change of the zone, and away from its leap seconds
Quiet(z, ts) ==
  /\ z.fixed \/ \A i \in DOMAIN Files[z.data].times : ts # Files[z.data].times[i].at
  /\ \A i \in DOMAIN Files[z.data].leaps : LET d == ts - Files[z.data].leaps[i].base IN d < -DAY \/ d > DAY
\* no other moment has the same local time
Once(z, ts) ==
  z.fixed \/ \A i, j \in DOMAIN Files[z.data].times :
    LET u == ts + Files[z.data].times[i].off - Files[z.data].times[j].off
    IN  u # ts => LocalAt(z, u) # LocalAt(z, ts)
\* after the first transition: zone_shift_rev has no offset for the times before it
Settled(z, ts) ==
  z.fixed \/ (Files[z.data].times # <<>> /\ ts > Files[z.data].times[1].at)
\* the clocks of the zone show l once, and the first transition is behind
Exists(z, l) ==
  \E o \in {z.offset} \cup {Files[z.data].times[i].off : i \in DOMAIN Files[z.data].times} :
    LET ts == l - o - LeapsAt(z, l - o)
    IN  LocalAt(z, ts) = l /\ Quiet(z, ts) /\ Once(z, ts) /\ Settled(z, ts)
\* the time in the calendar of the struct tm that a date and a time are put into
Decoded == OfTm(decode_hms(decode_ymd(NoTm, args.val.d), args.val.t))
Target == IF args.tz = "" THEN "localtime" ELSE args.tz

\* The time shown is the local time, in the target zone, of the moment meant: the
\* timestamp given, or the moment at which a clock in the source zone shows the time
\* given today, today being the day it is in the source zone, or the moment at which it
\* shows what is in the struct tm that a date and a time are put into.  That struct is
\* not the date given: decode_ymd leaves the month counted from 1, where tm2tv and its
\* comment count it from 0, so that the date shown is a month late.  The claim is about
\* the conversions and not about that date.  A time with seconds, which the manual has,
\* is always refused.  Calendar arithmetic holds for leap years and for times before
\* 1970; the clock changes of both zones are taken into account, in either direction, a
\* change itself and the times that occur twice or never excepted.
DateRight ==
  date_st = "done" =>
    /\ tgt.fixed \/ tgt.data = Target \/ (args.tz = "" /\ args.src \in DOMAIN Files)
    /\ Quiet(tgt, zt.tv) => OfTm(zt.tm) = LocalAt(tgt, zt.tv)
    /\ \/ \E i \in DOMAIN Files[tgt.data].times : Files[tgt.data].times[i].at = zt.tv
       \/ zt.offset = OffsetAt(tgt, zt.tv)
    /\ zt.tm.mon \in 0..11 /\ zt.tm.mday \in 1..31 /\ zt.tm.hour \in 0..(HOURS - 1)
    /\ zt.tm.wday = (DayOfEpoch(zt.tm.year + 1900, zt.tm.mon + 1, zt.tm.mday) + 4) % 7
    /\ args.form = "none" => zt.tv = now
    /\ args.form = "stamp" => zt.tv = args.val
    /\ (args.form = "date and time" /\ Exists(src, Decoded)) => LocalAt(src, zt.tv) = Decoded
    /\ args.form = "time" =>
         LET n == LocalAt(src, now)
             l == n - (n % DAY) + (args.val[1] * MINS + args.val[2]) * SECS
         IN  (Quiet(src, now) /\ Exists(src, l)) => LocalAt(src, zt.tv) = l
=============================================================================
