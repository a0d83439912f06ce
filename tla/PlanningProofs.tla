--------------------------- MODULE PlanningProofs ---------------------------
(***************************************************************************)
(* Theorems about ScheduleClock and ColumnTypes, for any schedules, zones, *)
(* columns and values, and about the four parts of MCPlanning together.    *)
(***************************************************************************)
EXTENDS MCPlanning, DependenciesProofs, EndpointsProofs

-----------------------------------------------------------------------------
\* The clock.

\* The minute of its period in which a schedule is due.
Phase(e) == IF e = "@daily" THEN 2 * 60 ELSE 0

\* A schedule is due once in each period: hours and minutes are only another
\* way to say so, because every period divides a day.
LEMMA DueOncePerPeriod ==
  ASSUME NEW e, NEW t \in Int
  PROVE  /\ Period(e) \in {5, 60, 240, 360, 720, 1440}
         /\ Phase(e) \in 0 .. Period(e) - 1
         /\ CronDue(e, t) <=> t % Period(e) = Phase(e)
<1>1. CASE e = "@every5min"
  <2>1. (t % 60) % 5 = t % 5
    OBVIOUS
  <2> QED BY <1>1, <2>1 DEF Period, Phase, CronDue, Minute
<1>2. CASE e = "@hourly"
  BY <1>2 DEF Period, Phase, CronDue, Minute
<1>3. CASE e = "@daily"
  <2>1. (t \div 60) % 24 = 2 /\ t % 60 = 0 <=> t % 1440 = 120
    OBVIOUS
  <2>2. Period(e) = 1440 /\ Phase(e) = 120
    BY <1>3 DEF Period, Phase, Day
  <2>3. CronDue(e, t) <=> (t \div 60) % 24 = 2 /\ t % 60 = 0
    BY <1>3 DEF CronDue, Hour, Minute
  <2> QED BY <2>1, <2>2, <2>3
<1>4. CASE e = "0 */6 * * *"
  <2>1. t % 60 = 0 /\ ((t \div 60) % 24) % 6 = 0 <=> t % 360 = 0
    OBVIOUS
  <2>2. Period(e) = 6 * 60 /\ Phase(e) = 0
    BY <1>4, Zenon DEF Period, Phase
  <2>3. CronDue(e, t) <=> t % 60 = 0 /\ ((t \div 60) % 24) % (Period(e) \div 60) = 0
    BY <1>4, Zenon DEF CronDue, Hour, Minute
  <2>4. Period(e) = 360 /\ Period(e) \div 60 = 6
    BY <2>2
  <2> QED BY <2>1, <2>2, <2>3, <2>4
<1>5. CASE e = "0 */12 * * *"
  <2>1. t % 60 = 0 /\ ((t \div 60) % 24) % 12 = 0 <=> t % 720 = 0
    OBVIOUS
  <2>2. Period(e) = 12 * 60 /\ Phase(e) = 0
    BY <1>5, Zenon DEF Period, Phase
  <2>3. CronDue(e, t) <=> t % 60 = 0 /\ ((t \div 60) % 24) % (Period(e) \div 60) = 0
    BY <1>5, Zenon DEF CronDue, Hour, Minute
  <2>4. Period(e) = 720 /\ Period(e) \div 60 = 12
    BY <2>2
  <2> QED BY <2>1, <2>2, <2>3, <2>4
<1>6. CASE e \notin {"@every5min", "@hourly", "@daily", "0 */6 * * *", "0 */12 * * *"}
  <2>1. t % 60 = 0 /\ ((t \div 60) % 24) % 4 = 0 <=> t % 240 = 0
    OBVIOUS
  <2>2. Period(e) = 4 * 60 /\ Phase(e) = 0
    BY <1>6, Zenon DEF Period, Phase
  <2>3. CronDue(e, t) <=> t % 60 = 0 /\ ((t \div 60) % 24) % (Period(e) \div 60) = 0
    BY <1>6, Zenon DEF CronDue, Hour, Minute
  <2>4. Period(e) = 240 /\ Period(e) \div 60 = 4
    BY <2>2
  <2> QED BY <2>1, <2>2, <2>3, <2>4
<1> QED BY <1>1, <1>2, <1>3, <1>4, <1>5, <1>6

\* Where local time and UTC differ by a multiple of the period, they agree on
\* when the schedule is due.
LEMMA SameInAlignedZone ==
  ASSUME NEW e, NEW t \in Int, NEW z \in Int, z % Period(e) = 0
  PROVE  CronDue(e, t + z) <=> CronDue(e, t)
<1> DEFINE p == Period(e)
<1>1. p \in {5, 60, 240, 360, 720, 1440}
  BY DueOncePerPeriod
<1>2. CronDue(e, t + z) <=> (t + z) % p = Phase(e)
  BY DueOncePerPeriod
<1>3. CronDue(e, t) <=> t % p = Phase(e)
  BY DueOncePerPeriod
<1> HIDE DEF p
<1>4. z % p = 0
  BY DEF p
<1>5. (t + z) % p = t % p
  <2>1. CASE p = 5    BY <1>4, <2>1
  <2>2. CASE p = 60   BY <1>4, <2>2
  <2>3. CASE p = 240  BY <1>4, <2>3
  <2>4. CASE p = 360  BY <1>4, <2>4
  <2>5. CASE p = 720  BY <1>4, <2>5
  <2>6. CASE p = 1440 BY <1>4, <2>6
  <2> QED BY <1>1, <2>1, <2>2, <2>3, <2>4, <2>5, <2>6
<1> QED BY <1>2, <1>3, <1>5

\* The search ends within a day, with the first minute in which the schedule
\* is due.
LEMMA SearchEnds ==
  ASSUME NEW e, NEW now \in Int
  PROVE  LET t == NextCronRun(e, now) IN
         /\ t \in now + 1 .. now + Day
         /\ CronDue(e, t) /\ \A u \in now + 1 .. t - 1 : ~ CronDue(e, u)
<1> DEFINE p == Period(e)
           f == Phase(e)
           first == (now + 1) + ((f - (now + 1)) % p)
<1>1. p \in {5, 60, 240, 360, 720, 1440} /\ f \in 0 .. p - 1
  BY DueOncePerPeriod
<1>2. \A t \in Int : CronDue(e, t) <=> t % p = f
  BY DueOncePerPeriod
<1> HIDE DEF p, f
<1>3. /\ first \in now + 1 .. now + 1440
      /\ first % p = f
      /\ \A u \in now + 1 .. first - 1 : u % p # f
  <2>1. CASE p = 5    BY <1>1, <2>1
  <2>2. CASE p = 60   BY <1>1, <2>2
  <2>3. CASE p = 240  BY <1>1, <2>3
  <2>4. CASE p = 360  BY <1>1, <2>4
  <2>5. CASE p = 720  BY <1>1, <2>5
  <2>6. CASE p = 1440 BY <1>1, <2>6
  <2> QED BY <1>1, <2>1, <2>2, <2>3, <2>4, <2>5, <2>6
<1> HIDE DEF first
<1>4. /\ first \in now + 1 .. now + Day
      /\ CronDue(e, first) /\ \A u \in now + 1 .. first - 1 : ~ CronDue(e, u)
  BY <1>2, <1>3 DEF Day
<1> QED BY <1>4, Zenon DEF NextCronRun

\* What is announced is the first minute from now in which the schedule is
\* due, in UTC.
ClockInv ==
  /\ ClockTypeOK
  /\ announced # Never =>
       /\ clock < announced /\ CronDue(expr, announced)
       /\ \A u \in clock + 1 .. announced - 1 : ~ CronDue(expr, u)

LEMMA ClockInvAtFirst == ClockInit => ClockInv
<1> SUFFICES ASSUME ClockInit PROVE ClockInv
  OBVIOUS
<1>1. expr \in Expressions /\ zone \in Zones /\ clock = 0 /\ announced = Never /\ due = FALSE
  BY DEF ClockInit
<1>2. clock \in 0 .. LastMinute
  BY <1>1, ClockAssumption
<1>3. announced \in {Never} \cup 0 .. LastMinute + Day /\ due \in BOOLEAN
  BY <1>1, Zenon
<1> QED BY <1>1, <1>2, <1>3, Zenon DEF ClockInv, ClockTypeOK

\* Whether a schedule is due or not is a Boolean.
LEMMA DueIsBoolean ==
  ASSUME NEW e, NEW t
  PROVE  CronDue(e, t) \in BOOLEAN
<1>1. CASE e = "@every5min"
  BY <1>1 DEF CronDue
<1>2. CASE e = "@hourly"
  BY <1>2 DEF CronDue
<1>3. CASE e = "@daily"
  BY <1>3 DEF CronDue
<1>4. CASE e \notin {"@every5min", "@hourly", "@daily"}
  BY <1>4 DEF CronDue
<1> QED BY <1>1, <1>2, <1>3, <1>4

LEMMA ClockInvAfterStep == ClockInv /\ [ClockNext]_clockVars => ClockInv'
<1> SUFFICES ASSUME ClockInv, [ClockNext]_clockVars PROVE ClockInv'
  OBVIOUS
<1>1. /\ expr \in Expressions /\ zone \in Zones /\ due \in BOOLEAN
      /\ clock \in 0 .. LastMinute /\ LastMinute \in Nat /\ Day = 1440 /\ Never = -1
      /\ announced \in {Never} \cup 0 .. LastMinute + Day
  BY ClockAssumption DEF ClockInv, ClockTypeOK, Day, Never
<1>2. announced # Never =>
        /\ clock < announced /\ CronDue(expr, announced)
        /\ \A u \in clock + 1 .. announced - 1 : ~ CronDue(expr, u)
  BY DEF ClockInv
<1>3. CASE Tick
  <2>1. /\ clock < LastMinute /\ clock' = clock + 1 /\ expr' = expr /\ zone' = zone
        /\ due' = CronDue(expr, clock' + zone)
        /\ announced' = IF announced <= clock' THEN Never ELSE announced
    BY <1>3 DEF Tick
  <2>2. due' \in BOOLEAN
    BY <2>1, DueIsBoolean, Zenon
  <2>3. announced' # Never => announced' = announced /\ announced # Never /\ clock' < announced
    BY <1>1, <2>1
  <2>4. ClockTypeOK'
    BY <1>1, <2>1, <2>2, <2>3 DEF ClockTypeOK
  <2>5. ASSUME announced' # Never
        PROVE  /\ clock' < announced' /\ CronDue(expr', announced')
               /\ \A u \in clock' + 1 .. announced' - 1 : ~ CronDue(expr', u)
    <3>1. \A u \in clock' + 1 .. announced' - 1 : u \in clock + 1 .. announced - 1
      BY <1>1, <2>1, <2>3, <2>5
    <3> QED BY <1>2, <2>1, <2>3, <2>5, <3>1
  <2> QED BY <2>4, <2>5 DEF ClockInv
<1>4. CASE Announce
  <2>1. announced' = NextCronRun(expr, clock) /\ UNCHANGED <<expr, zone, clock, due>>
    BY <1>4 DEF Announce
  <2>2. /\ announced' \in clock + 1 .. clock + Day
        /\ CronDue(expr, announced') /\ \A u \in clock + 1 .. announced' - 1 : ~ CronDue(expr, u)
    BY <1>1, <2>1, SearchEnds
  <2>3. clock < announced' /\ announced' \in 0 .. LastMinute + Day
    BY <1>1, <2>2
  <2>4. ClockTypeOK'
    BY <1>1, <2>1, <2>3 DEF ClockTypeOK
  <2> QED BY <2>1, <2>2, <2>3, <2>4 DEF ClockInv
<1>5. CASE ChangeZone
  <2>1. zone' \in Zones /\ UNCHANGED <<expr, clock, announced, due>>
    BY <1>5 DEF ChangeZone
  <2> QED BY <1>1, <1>2, <2>1 DEF ClockInv, ClockTypeOK
<1>6. CASE UNCHANGED clockVars
  <2>1. UNCHANGED <<expr, zone, clock, announced, due>>
    BY <1>6 DEF clockVars
  <2> QED BY <1>1, <1>2, <2>1 DEF ClockInv, ClockTypeOK
<1> QED BY <1>3, <1>4, <1>5, <1>6 DEF ClockNext

\* The scheduler and the dashboard agree on one step of the clock.
LEMMA StepIsAsAnnounced ==
  ASSUME ClockInv, ClockNext, clock' # clock, announced # Never, zone % Period(expr) = 0
  PROVE  clock' <= announced /\ (due' <=> clock' = announced)
<1>1. Tick
  BY DEF ClockNext, Announce, ChangeZone
<1>2. clock' = clock + 1 /\ due' = CronDue(expr, clock' + zone)
  BY <1>1 DEF Tick
<1>3. /\ clock \in Int /\ zone \in Int /\ announced \in Int
      /\ clock < announced /\ CronDue(expr, announced)
      /\ \A u \in clock + 1 .. announced - 1 : ~ CronDue(expr, u)
  BY ClockAssumption DEF ClockInv, ClockTypeOK
<1>4. due' <=> CronDue(expr, clock')
  BY <1>2, <1>3, SameInAlignedZone
<1>5. CASE clock' = announced
  BY <1>3, <1>4, <1>5
<1>6. CASE clock' # announced
  <2>1. clock' \in clock + 1 .. announced - 1
    BY <1>2, <1>3, <1>6
  <2> QED BY <1>3, <1>4, <1>6, <2>1
<1> QED BY <1>5, <1>6

\* What the dashboard announces is found by the search, whatever the clock
\* has done since.
THEOREM ClockInvariant == ClockSpec => []ClockInv
<1>1. ClockInit => ClockInv
  BY ClockInvAtFirst
<1>2. ClockInv /\ [ClockNext]_clockVars => ClockInv'
  BY ClockInvAfterStep
<1> QED BY <1>1, <1>2, PTL DEF ClockSpec

\* The scheduler finds the schedule due in the minute announced, and in none
\* before it, for every schedule and in every zone that is a multiple of the
\* period away from UTC.
THEOREM AnnouncedRunsCome == ClockSpec => AnnouncedIsReal
<1>1. ClockInv /\ [ClockNext]_clockVars =>
        [clock' # clock /\ announced # Never /\ zone % Period(expr) = 0 =>
           clock' <= announced /\ (due' <=> clock' = announced)]_clockVars
  BY StepIsAsAnnounced
<1> QED BY <1>1, ClockInvariant, PTL DEF ClockSpec, AnnouncedIsReal

-----------------------------------------------------------------------------
\* The columns: numbers.

\* The integers and digits a size stands for.
LEMMA SizeAndDigits ==
  ASSUME NEW v \in Values
  PROVE  LET d == IntDigits(v) IN
         \/ v.size = 0 /\ d = 0
         \/ v.size = 1 /\ d = 1
         \/ v.size = 2 /\ d = 4
         \/ v.size = 3 /\ d = 5
         \/ v.size = 4 /\ d = 5
         \/ v.size = 5 /\ d = 9
         \/ v.size = 6 /\ d = 10
         \/ v.size = 7 /\ d = 10
         \/ v.size = 8 /\ d = 18
         \/ v.size = 9 /\ d = 19
         \/ v.size = 10 /\ d = 19
         \/ v.size = 11 /\ d = 19
         \/ v.size = 12 /\ d = 20
         \/ v.size = 13 /\ d = 38
<1>1. v.size \in 0 .. 13
  BY ColumnsAssumption DEF Sizes
<1>2. /\ Digits[1] = 1 /\ Digits[2] = 4 /\ Digits[3] = 5 /\ Digits[4] = 5
      /\ Digits[5] = 9 /\ Digits[6] = 10 /\ Digits[7] = 10 /\ Digits[8] = 18
      /\ Digits[9] = 19 /\ Digits[10] = 19 /\ Digits[11] = 19 /\ Digits[12] = 20
      /\ Digits[13] = 38
  BY DEF Digits
<1>3. \/ v.size = 0 \/ v.size = 1 \/ v.size = 2 \/ v.size = 3 \/ v.size = 4
      \/ v.size = 5 \/ v.size = 6 \/ v.size = 7 \/ v.size = 8 \/ v.size = 9
      \/ v.size = 10 \/ v.size = 11 \/ v.size = 12 \/ v.size = 13
  BY <1>1
<1>4. IntDigits(v) = IF v.size = 0 THEN 0 ELSE Digits[v.size]
  BY DEF IntDigits
<1>5. v.size = 0 => IntDigits(v) = 0
  BY <1>2, <1>4
<1>6. v.size = 1 => IntDigits(v) = 1
  BY <1>2, <1>4
<1>7. v.size = 2 => IntDigits(v) = 4
  BY <1>2, <1>4
<1>8. v.size = 3 => IntDigits(v) = 5
  BY <1>2, <1>4
<1>9. v.size = 4 => IntDigits(v) = 5
  BY <1>2, <1>4
<1>10. v.size = 5 => IntDigits(v) = 9
  BY <1>2, <1>4
<1>11. v.size = 6 => IntDigits(v) = 10
  BY <1>2, <1>4
<1>12. v.size = 7 => IntDigits(v) = 10
  BY <1>2, <1>4
<1>13. v.size = 8 => IntDigits(v) = 18
  BY <1>2, <1>4
<1>14. v.size = 9 => IntDigits(v) = 19
  BY <1>2, <1>4
<1>15. v.size = 10 => IntDigits(v) = 19
  BY <1>2, <1>4
<1>16. v.size = 11 => IntDigits(v) = 19
  BY <1>2, <1>4
<1>17. v.size = 12 => IntDigits(v) = 20
  BY <1>2, <1>4
<1>18. v.size = 13 => IntDigits(v) = 38
  BY <1>2, <1>4
<1>19. QED
  BY <1>3, <1>5, <1>6, <1>7, <1>8, <1>9, <1>10, <1>11, <1>12, <1>13, <1>14, <1>15, <1>16,
     <1>17, <1>18, ZenonT(60)

LEMMA ValueTypes ==
  ASSUME NEW v \in Values
  PROVE  /\ v.size \in 0 .. 13 /\ v.decimals \in Nat /\ v.length \in Nat
         /\ IntDigits(v) \in 0 .. 38
         /\ Significant(v) = IntDigits(v) + v.decimals /\ Significant(v) \in Nat
<1>1. v.size \in 0 .. 13 /\ v.decimals \in Nat /\ v.length \in Nat
  BY ColumnsAssumption DEF Sizes
<1>2. IntDigits(v) \in 0 .. 38
  BY SizeAndDigits
<1> QED BY <1>1, <1>2 DEF Significant

\* What the code makes of a number of at most 15 digits is still that number;
\* a whole one is an int64 then, and what is not whole is not a text.
LEMMA NormalizedNumber ==
  ASSUME NEW c, NEW v \in Values, NEW f \in InForms(v), Significant(v) <= 15
  PROVE  LET r == Normalize(c, v, f) IN
         /\ r.exact = TRUE
         /\ c.type = "BINARY_DOUBLE" => r.form = f
         /\ c.type # "BINARY_DOUBLE" => r.form # "text" /\ (v.decimals = 0 => r.form = "int64")
<1>1. /\ v.size \in 0 .. 13 /\ v.decimals \in Nat
      /\ Significant(v) = IntDigits(v) + v.decimals
  BY ValueTypes
<1>2. IntDigits(v) <= 15
  BY <1>1, ValueTypes
<1>3. v.size <= 10
  BY <1>2, SizeAndDigits
<1>4. /\ f \in {"int64", "float64", "text"}
      /\ f = "int64" => v.decimals = 0
  BY ColumnsAssumption DEF InForms
<1>5. ParseInt(v) = [form |-> "int64", exact |-> TRUE]
  <2>1. (v.size <= 10) = TRUE
    BY <1>3
  <2> QED BY <2>1, Zenon DEF ParseInt
<1>6. ParseFloat(v) = [form |-> "float64", exact |-> TRUE]
  <2>1. (Significant(v) <= 15) = TRUE
    OBVIOUS
  <2> QED BY <2>1, Zenon DEF ParseFloat
<1>7. Read(v, f) = [form |-> f, exact |-> TRUE]
  <2>1. (f # "float64" \/ Significant(v) <= 15) = TRUE
    OBVIOUS
  <2> QED BY <2>1, Zenon DEF Read
<1>8. CASE f = "text" /\ c.type # "BINARY_DOUBLE"
  <2>1. Normalize(c, v, f) = IF v.decimals = 0 THEN ParseInt(v) ELSE ParseFloat(v)
    BY <1>8, Zenon DEF Normalize
  <2> QED BY <1>5, <1>6, <1>8, <2>1
<1>9. CASE f = "float64" /\ c.type # "BINARY_DOUBLE" /\ v.decimals = 0
  <2>1. Normalize(c, v, f) = [Read(v, f) EXCEPT !.form = "int64"]
    BY <1>3, <1>9 DEF Normalize
  <2>2. Normalize(c, v, f) = [[form |-> f, exact |-> TRUE] EXCEPT !.form = "int64"]
    BY <1>7, <2>1, Zenon
  <2>3. Normalize(c, v, f).form = "int64" /\ Normalize(c, v, f).exact = TRUE
    BY <2>2
  <2> QED BY <1>9, <2>3
<1>10. CASE \/ f = "int64" \/ c.type = "BINARY_DOUBLE"
            \/ f = "float64" /\ v.decimals # 0
  <2>1. Normalize(c, v, f) = Read(v, f)
    BY <1>10 DEF Normalize
  <2> QED BY <1>4, <1>7, <1>10, <2>1
<1> QED BY <1>4, <1>8, <1>9, <1>10

\* What a column of each kind of type takes and keeps.
LEMMA FloatTakes ==
  ASSUME NEW c, NEW v \in Values, NEW f \in InForms(v), NEW t,
         Significant(v) <= 15,
         t.name = "FLOAT" \/ (t.name = "REAL" /\ Significant(v) <= 7)
  PROVE  NumberArrives(c, v, f, t)
<1> DEFINE r == Normalize(c, v, f)
<1>1. /\ r.exact = TRUE
      /\ c.type = "BINARY_DOUBLE" => r.form = f
      /\ c.type # "BINARY_DOUBLE" => r.form # "text"
  BY NormalizedNumber
<1> HIDE DEF r
<1>2. \A x : /\ Fits(x, v, t) <=> x.form # "text"
             /\ x.exact => Keeps(x, v, t)
  BY DEF Fits, Keeps
<1>3. CASE r.form # "text"
  <2>1. Fits(r, v, t) /\ Keeps(r, v, t)
    BY <1>1, <1>2, <1>3, Zenon
  <2> QED BY <2>1, Zenon DEF NumberArrives, r
<1>4. CASE r.form = "text"
  <2>1. ~ Fits(r, v, t)
    BY <1>2, <1>4, Zenon
  <2>2. Coerce(c, v, f, t) = [ParseFloat(v) EXCEPT !.exact = @ /\ r.exact]
    BY Zenon DEF Coerce, r
  <2>3. ParseFloat(v) = [form |-> "float64", exact |-> TRUE]
    <3>1. (Significant(v) <= 15) = TRUE
      OBVIOUS
    <3> QED BY <3>1, Zenon DEF ParseFloat
  <2>4. (ParseFloat(v).exact /\ r.exact) = TRUE
    <3>1. ParseFloat(v).exact = TRUE
      BY <2>3
    <3> QED BY <1>1, <3>1, Zenon
  <2>5. Coerce(c, v, f, t).form = "float64" /\ Coerce(c, v, f, t).exact = TRUE
    <3>1. Coerce(c, v, f, t) = [ParseFloat(v) EXCEPT !.exact = TRUE]
      BY <2>2, <2>4, Zenon
    <3> QED BY <2>3, <3>1
  <2>6. Fits(Coerce(c, v, f, t), v, t) /\ Keeps(Coerce(c, v, f, t), v, t)
    <3>1. Coerce(c, v, f, t).form # "text"
      BY <2>5
    <3> QED BY <1>2, <2>5, <3>1, Zenon
  <2> QED BY <2>1, <2>6, Zenon DEF NumberArrives, r
<1> QED BY <1>3, <1>4

LEMMA IntegerTakes ==
  ASSUME NEW c, c.type = "NUMBER", NEW v \in Values, NEW f \in InForms(v), NEW t,
         Significant(v) <= 15, v.decimals = 0,
         t.name \in {"SMALLINT", "INT", "BIGINT"}, v.size <= Widest[t.name]
  PROVE  NumberArrives(c, v, f, t)
<1> DEFINE r == Normalize(c, v, f)
<1>1. r.exact = TRUE /\ r.form = "int64"
  BY NormalizedNumber
<1> HIDE DEF r
<1>2. Keeps(r, v, t)
  BY <1>1 DEF Keeps
<1>3. Fits(r, v, t)
  BY <1>1 DEF Fits
<1> QED BY <1>2, <1>3, Zenon DEF NumberArrives, r

LEMMA DecimalTakes ==
  ASSUME NEW c, c.type = "NUMBER", NEW v \in Values, NEW f \in InForms(v), NEW t,
         Significant(v) <= 15, t.name = "DECIMAL",
         IntDigits(v) <= t.n - t.scale, v.decimals <= t.scale
  PROVE  NumberArrives(c, v, f, t)
<1> DEFINE r == Normalize(c, v, f)
<1>1. r.exact = TRUE /\ r.form # "text"
  BY NormalizedNumber
<1> HIDE DEF r
<1>2. Fits(r, v, t) /\ Keeps(r, v, t)
  BY <1>1 DEF Fits, Keeps
<1> QED BY <1>2, Zenon DEF NumberArrives, r

\* A whole number has a column wide enough for its digits.
LEMMA IntegerTypeFits ==
  ASSUME NEW p \in Nat
  PROVE  LET t == IntegerType(p) IN
         /\ t.n \in Nat /\ t.scale = 0 /\ Legal(t)
         /\ \/ t.name = "SMALLINT" /\ p <= 4
            \/ t.name = "INT" /\ p <= 9
            \/ t.name = "BIGINT" /\ p <= 18
            \/ t.name = "DECIMAL" /\ p > 18 /\ t.n = Least(p, 38)
<1> DEFINE t == IntegerType(p)
<1>1. /\ t.name = IF p <= 4 THEN "SMALLINT" ELSE IF p <= 9 THEN "INT"
                  ELSE IF p <= 18 THEN "BIGINT" ELSE "DECIMAL"
      /\ t.n = IF p <= 18 THEN 0 ELSE Least(p, 38)
      /\ t.scale = 0
  BY Zenon DEF IntegerType
<1>2. Least(p, 38) \in Nat /\ (p > 18 => Least(p, 38) > 0)
  BY DEF Least
<1> HIDE DEF t
<1>3. /\ t.n \in Nat /\ Legal(t)
      /\ \/ t.name = "SMALLINT" /\ p <= 4
         \/ t.name = "INT" /\ p <= 9
         \/ t.name = "BIGINT" /\ p <= 18
         \/ t.name = "DECIMAL" /\ p > 18 /\ t.n = Least(p, 38)
  BY <1>1, <1>2 DEF Legal
<1> QED BY <1>1, <1>3 DEF t

\* What is known of a column.
LEMMA ColumnFacts ==
  ASSUME NEW c \in Columns
  PROVE  /\ c.type \in Numbers \cup Texts \cup Bytes \cup Times
         /\ c.prec \in Nat /\ c.scale \in Int /\ c.length \in Nat
         /\ Declarable(c)
BY ColumnsAssumption

\* The three kinds of type that a NUMBER has in the catalog.
LEMMA CatalogNumber ==
  ASSUME NEW c \in Columns, c.type = "NUMBER"
  PROVE  LET t == MapOracleType(c) IN
         /\ ~ KnownNumber(c) => t = [name |-> "FLOAT", n |-> 53, scale |-> 0]
         /\ KnownNumber(c) /\ c.scale = 0 => t = IntegerType(c.prec)
         /\ KnownNumber(c) /\ c.scale # 0 =>
              t = [name |-> "DECIMAL", n |-> c.prec,
                   scale |-> IF c.scale < 0 THEN 0 ELSE Least(c.scale, c.prec)]
<1>1. c.prec \in Nat /\ c.prec <= 38 /\ c.scale \in Int /\ (c.prec > 0 => c.scale # Unlimited)
  BY ColumnFacts DEF Declarable
<1>2. Least(c.prec, 38) = c.prec
  BY <1>1 DEF Least
<1>3. Least(c.scale, c.prec) \in Int /\ (Least(c.scale, c.prec) < 0 <=> c.scale < 0)
  BY <1>1 DEF Least
<1>4. MapOracleType(c) = mapOracleNumber(c)
  BY SMTT(30) DEF MapOracleType
<1>5. ~ KnownNumber(c) => mapOracleNumber(c) = [name |-> "FLOAT", n |-> 53, scale |-> 0]
  BY DEF mapOracleNumber
<1>6. KnownNumber(c) => c.scale # Unlimited
  BY <1>1 DEF KnownNumber
<1>7. KnownNumber(c) /\ c.scale = 0 => mapOracleNumber(c) = IntegerType(c.prec)
  BY DEF mapOracleNumber
<1>8. KnownNumber(c) /\ c.scale # 0 =>
        mapOracleNumber(c) = [name |-> "DECIMAL", n |-> c.prec,
                              scale |-> IF c.scale < 0 THEN 0 ELSE Least(c.scale, c.prec)]
  BY <1>2, <1>3, <1>6 DEF mapOracleNumber
<1> QED BY <1>4, <1>5, <1>7, <1>8

\* A number arrives in a column that was made from the catalog, if it is not
\* one of the silent losses.
LEMMA CatalogNumberArrives ==
  ASSUME NEW c \in Columns, c.type \in Numbers, Legal(MapOracleType(c)),
         NEW v \in DomainOf(c), ~ LostSilently(c, v)
  PROVE  Arrives(c, v, MapOracleType(c))
<1> DEFINE t == MapOracleType(c)
<1>1. v \in Values /\ Holds(c, v)
  BY DEF DomainOf
<1>2. Significant(v) <= 15
  BY <1>1, ValueTypes DEF LostSilently
<1>3. /\ v.decimals \in Nat /\ IntDigits(v) \in Nat
      /\ Significant(v) = IntDigits(v) + v.decimals
  BY <1>1, ValueTypes
<1>4. c.prec \in Nat /\ c.scale \in Int /\ Declarable(c)
  BY ColumnFacts
<1> SUFFICES ASSUME NEW f \in InForms(v) PROVE NumberArrives(c, v, f, t)
  BY DEF Arrives, Numbers, Texts, Bytes, Times
<1>5. CASE c.type \in {"FLOAT", "BINARY_DOUBLE"}
  <2>1. t = [name |-> "FLOAT", n |-> 53, scale |-> 0]
    BY <1>5, SMTT(30) DEF MapOracleType
  <2> HIDE DEF t
  <2>2. t.name = "FLOAT"
    BY <2>1
  <2> QED BY <1>1, <1>2, <2>2, FloatTakes
<1>6. CASE c.type = "BINARY_FLOAT"
  <2>1. t = [name |-> "REAL", n |-> 0, scale |-> 0]
    BY <1>6, SMTT(30) DEF MapOracleType
  <2>2. Significant(v) <= c.prec /\ c.prec <= 7
    BY <1>1, <1>4, <1>6 DEF Holds, Declarable, Numbers, Texts, Bytes
  <2>3. Significant(v) <= 7
    BY <1>3, <1>4, <2>2
  <2> HIDE DEF t
  <2>4. t.name = "REAL"
    BY <2>1
  <2> QED BY <1>1, <1>2, <2>3, <2>4, FloatTakes
<1>7. CASE c.type = "NUMBER"
  <2>1. /\ c.prec > 0 =>
             /\ Significant(v) <= c.prec
             /\ IntDigits(v) <= (IF c.scale > c.prec THEN 0 ELSE c.prec - c.scale)
        /\ c.scale # Unlimited => v.decimals <= (IF c.scale > 0 THEN c.scale ELSE 0)
    BY <1>1, <1>7 DEF Holds, Numbers, Texts, Bytes
  <2>2. c.prec > 0 => c.scale \in 0 .. c.prec
    BY <1>4, <1>7 DEF LostSilently, Declarable
  <2>3. CASE ~ KnownNumber(c)
    <3>1. t.name = "FLOAT"
      BY <1>7, <2>3, CatalogNumber
    <3> HIDE DEF t
    <3> QED BY <1>1, <1>2, <3>1, FloatTakes
  <2>4. CASE KnownNumber(c) /\ c.scale = 0
    <3>1. c.prec > 0
      BY <1>4, <2>4 DEF KnownNumber
    <3>2. v.decimals = 0 /\ IntDigits(v) <= c.prec
      BY <1>3, <1>4, <2>1, <2>4, <3>1 DEF Unlimited
    <3>3. t = IntegerType(c.prec)
      BY <1>7, <2>4, CatalogNumber
    <3> HIDE DEF t
    <3>4. /\ t.scale = 0
          /\ \/ t.name = "SMALLINT" /\ c.prec <= 4
             \/ t.name = "INT" /\ c.prec <= 9
             \/ t.name = "BIGINT" /\ c.prec <= 18
             \/ t.name = "DECIMAL" /\ c.prec > 18 /\ t.n = Least(c.prec, 38)
      BY <1>4, <3>3, IntegerTypeFits
    <3>5. Widest["SMALLINT"] = 3 /\ Widest["INT"] = 6 /\ Widest["BIGINT"] = 10
      BY DEF Widest
    <3>6. CASE t.name = "DECIMAL"
      <4>1. IntDigits(v) <= 15
        BY <1>2, <1>3
      <4>2. c.prec > 18 /\ t.n = Least(c.prec, 38)
        BY <3>4, <3>6
      <4>3. t.n \in Nat /\ t.n > 18
        BY <1>4, <4>2 DEF Least
      <4>4. IntDigits(v) <= t.n - t.scale /\ v.decimals <= t.scale
        BY <1>3, <3>2, <3>4, <4>1, <4>3
      <4> QED BY <1>1, <1>2, <1>7, <3>6, <4>4, DecimalTakes
    <3>7. CASE t.name # "DECIMAL"
      <4>1. t.name \in {"SMALLINT", "INT", "BIGINT"}
        BY <3>4, <3>7
      <4>2. v.size <= Widest[t.name]
        <5>1. CASE t.name = "SMALLINT"
          <6>1. IntDigits(v) <= 4
            BY <1>3, <1>4, <3>2, <3>4, <5>1
          <6>2. v.size <= 3
            BY <1>1, <6>1, SizeAndDigits
          <6> QED BY <3>5, <5>1, <6>2
        <5>2. CASE t.name = "INT"
          <6>1. IntDigits(v) <= 9
            BY <1>3, <1>4, <3>2, <3>4, <5>2
          <6>2. v.size <= 6
            BY <1>1, <6>1, SizeAndDigits
          <6> QED BY <3>5, <5>2, <6>2
        <5>3. CASE t.name = "BIGINT"
          <6>1. IntDigits(v) <= 18
            BY <1>3, <1>4, <3>2, <3>4, <5>3
          <6>2. v.size <= 10
            BY <1>1, <6>1, SizeAndDigits
          <6> QED BY <3>5, <5>3, <6>2
        <5> QED BY <4>1, <5>1, <5>2, <5>3
      <4> QED BY <1>1, <1>2, <1>7, <3>2, <4>1, <4>2, IntegerTakes
    <3> QED BY <3>6, <3>7
  <2>5. CASE KnownNumber(c) /\ c.scale # 0
    <3>1. t = [name |-> "DECIMAL", n |-> c.prec,
               scale |-> IF c.scale < 0 THEN 0 ELSE Least(c.scale, c.prec)]
      BY <1>7, <2>5, CatalogNumber
    <3>2. c.prec > 0
      <4>1. t.name = "DECIMAL" /\ t.n = c.prec
        BY <3>1
      <4> HIDE DEF t
      <4>2. Legal(t)
        BY DEF t
      <4> QED BY <4>1, <4>2 DEF Legal
    <3>3. c.scale \in 1 .. c.prec /\ Least(c.scale, c.prec) = c.scale /\ c.scale # Unlimited
      BY <1>4, <1>7, <2>2, <2>5, <3>2 DEF Least, Declarable
    <3>4. t.name = "DECIMAL" /\ t.n = c.prec /\ t.scale = c.scale
      BY <3>1, <3>3
    <3> HIDE DEF t
    <3>5. IntDigits(v) <= t.n - t.scale /\ v.decimals <= t.scale
      BY <1>3, <1>4, <2>1, <3>2, <3>3, <3>4
    <3> QED BY <1>1, <1>2, <1>7, <3>4, <3>5, DecimalTakes
  <2> QED BY <2>3, <2>4, <2>5
<1> QED BY <1>5, <1>6, <1>7 DEF Numbers

-----------------------------------------------------------------------------
\* The columns: types inferred from samples.

\* A set of integers that is not empty and has a bound has a largest member.
LEMMA MostIsLargest ==
  ASSUME NEW S, S \subseteq Int, S # {}, NEW b \in Int, \A x \in S : x <= b
  PROVE  Most(S) \in S /\ \A x \in S : x <= Most(S)
<1> DEFINE T == {b - x : x \in S}
<1>1. T \subseteq Nat /\ T # {}
  <2>1. \A x \in S : b - x \in Nat
    OBVIOUS
  <2>2. PICK x \in S : TRUE
    OBVIOUS
  <2>3. b - x \in T
    OBVIOUS
  <2> QED BY <2>1, <2>3
<1>2. PICK y \in T : \A z \in T : ~ (<<z, y>> \in OpToRel(<, Nat))
  <2> HIDE DEF T
  <2> QED BY <1>1, WFMin, NatLessThanWellFounded
<1>3. \A z \in T : ~ (z < y)
  BY <1>1, <1>2 DEF OpToRel
<1>4. PICK m \in S : y = b - m
  OBVIOUS
<1>5. \A x \in S : x <= m
  <2> SUFFICES ASSUME NEW x \in S PROVE x <= m
    OBVIOUS
  <2>1. ~ (b - x < b - m)
    BY <1>3, <1>4
  <2> QED BY <2>1
<1> QED BY <1>5, Zenon DEF Most

\* The larger of two.
LEMMA MostOfTwo ==
  ASSUME NEW a \in Int, NEW b \in Int
  PROVE  /\ Most({a, b}) = a \/ Most({a, b}) = b
         /\ a <= Most({a, b}) /\ b <= Most({a, b})
<1>1. PICK m \in {a, b} : \A x \in {a, b} : x <= m
  OBVIOUS
<1>2. m \in Int
  OBVIOUS
<1>3. Most({a, b}) \in {a, b} /\ \A x \in {a, b} : x <= Most({a, b})
  BY <1>1, <1>2, MostIsLargest
<1> QED BY <1>3

\* What a sample shows.
LEMMA SampleFacts ==
  ASSUME NEW v \in Values, NEW over \in {0, 10}
  PROVE  /\ SampleScale(v) \in 0 .. 6
         /\ v.decimals <= 6 => SampleScale(v) = v.decimals
         /\ SampleDigits(v, over) \in 1 .. 44
         /\ v.size <= 9 =>
              /\ SampleSize(v, over) = v.size
              /\ IntDigits(v) + SampleScale(v) <= SampleDigits(v, over)
              /\ SampleDigits(v, over) <= 19 + SampleScale(v)
         /\ SampleSize(v, over) \in 0 .. 10
<1>1. IntDigits(v) \in 0 .. 38 /\ v.decimals \in Nat /\ v.size \in 0 .. 13
  BY ValueTypes
<1>2. v.size <= 9 => IntDigits(v) <= 19
  BY SizeAndDigits
<1>3. SampleScale(v) \in 0 .. 6 /\ (v.decimals <= 6 => SampleScale(v) = v.decimals)
  BY <1>1 DEF SampleScale, Least
<1>4. SampleSize(v, over) \in 0 .. 10 /\ (v.size <= 9 => SampleSize(v, over) = v.size)
  BY <1>1 DEF SampleSize
<1> DEFINE d == IntDigits([size |-> SampleSize(v, over)])
           m == Most({1, d})
<1>5. d \in 0 .. 38 /\ (v.size <= 9 => d = IntDigits(v))
  <2>1. CASE v.size <= 9
    BY <1>1, <1>4, <2>1 DEF IntDigits
  <2>2. CASE v.size > 9 /\ over = 0
    BY <1>1, <2>2 DEF IntDigits, SampleSize
  <2>3. CASE v.size > 9 /\ over = 10
    <3>1. d = Digits[10]
      BY <1>1, <2>3 DEF IntDigits, SampleSize
    <3> QED BY <1>1, <2>3, <3>1 DEF Digits
  <2> QED BY <1>1, <2>1, <2>2, <2>3
<1>6. SampleDigits(v, over) = m + SampleScale(v)
  BY DEF SampleDigits
<1> HIDE DEF d
<1>7. (m = 1 \/ m = d) /\ 1 <= m /\ d <= m
  <2>1. 1 \in Int /\ d \in Int
    BY <1>5
  <2> QED BY <2>1, MostOfTwo, Zenon
<1> HIDE DEF m
<1> QED BY <1>1, <1>2, <1>3, <1>4, <1>5, <1>6, <1>7

\* The largest of what samples show.
LEMMA InferredNumber ==
  ASSUME NEW S, S \subseteq Values, S # {}, NEW over \in {0, 10},
         NEW t, t = InferNumeric(S, over)
  PROVE  /\ Legal(t) /\ t.n \in Nat /\ t.scale \in 0 .. 6
         /\ t.name \in {"SMALLINT", "INT", "BIGINT", "DECIMAL"}
         /\ t.name # "DECIMAL" =>
              /\ \A s \in S : s.decimals = 0
              /\ \A s \in S : s.size <= 9 => s.size <= Widest[t.name]
         /\ t.name = "DECIMAL" =>
              /\ \E s \in S : s.decimals # 0
              /\ \A d \in 1 .. 6 :
                   (\A s \in S : s.size <= 9 /\ s.decimals = d) =>
                     t.scale = d /\ \A s \in S : IntDigits(s) <= t.n - t.scale
<1>1. CASE \A s \in S : s.decimals = 0
  <2> DEFINE T == {SampleSize(s, over) : s \in S}
             m == Most(T)
  <2>1. t = [name |-> IF m <= Widest["SMALLINT"] THEN "SMALLINT"
                      ELSE IF m <= Widest["INT"] THEN "INT" ELSE "BIGINT",
             n |-> 0, scale |-> 0]
    BY <1>1 DEF InferNumeric
  <2>2. \A s \in S : /\ s.size \in 0 .. 13 /\ SampleSize(s, over) \in 0 .. 10
                     /\ s.size <= 9 => SampleSize(s, over) = s.size
    BY ValueTypes, SampleFacts
  <2>3. m \in T /\ \A x \in T : x <= m
    <3>1. T \subseteq Int /\ T # {} /\ (\A x \in T : x <= 10) /\ 10 \in Int
      BY <2>2
    <3> HIDE DEF T
    <3> QED BY <3>1, MostIsLargest, Zenon
  <2> HIDE DEF m
  <2>4. m \in 0 .. 10 /\ \A s \in S : s.size <= 9 => s.size <= m
    BY <2>2, <2>3
  <2> HIDE DEF T
  <2>5. Widest["SMALLINT"] = 3 /\ Widest["INT"] = 6 /\ Widest["BIGINT"] = 10
    BY DEF Widest
  <2>6. /\ t.n = 0 /\ t.scale = 0 /\ t.name \in {"SMALLINT", "INT", "BIGINT"}
        /\ m <= Widest[t.name]
    BY <2>1, <2>4, <2>5
  <2>7. \A s \in S : s.size <= 9 => s.size <= Widest[t.name]
    <3>1. Widest[t.name] \in Int
      BY <2>5, <2>6
    <3> QED BY <2>2, <2>4, <2>6, <3>1
  <2>8. t.name # "DECIMAL"
    BY <2>6
  <2> QED BY <1>1, <2>6, <2>7, <2>8 DEF Legal
<1>2. CASE ~ \A s \in S : s.decimals = 0
  <2> DEFINE P == {SampleDigits(s, over) : s \in S}
             C == {SampleScale(s) : s \in S}
             prec == Most(P)
             scale == Most(C)
  <2>1. t = [name |-> "DECIMAL",
             n |-> Least(prec, IF scale <= 4 /\ prec <= 18 THEN 18 ELSE 38),
             scale |-> Least(scale, 10)]
    BY <1>2 DEF InferNumeric
  <2>2. \A s \in S : SampleDigits(s, over) \in 1 .. 44 /\ SampleScale(s) \in 0 .. 6
    BY SampleFacts
  <2>3. prec \in P /\ \A x \in P : x <= prec
    <3>1. P \subseteq Int /\ P # {} /\ (\A x \in P : x <= 44) /\ 44 \in Int
      BY <2>2
    <3> HIDE DEF P
    <3> QED BY <3>1, MostIsLargest, Zenon
  <2>4. scale \in C /\ \A x \in C : x <= scale
    <3>1. C \subseteq Int /\ C # {} /\ (\A x \in C : x <= 6) /\ 6 \in Int
      BY <2>2
    <3> HIDE DEF C
    <3> QED BY <3>1, MostIsLargest, Zenon
  <2> HIDE DEF prec, scale
  <2>5. prec \in 1 .. 44 /\ scale \in 0 .. 6
    BY <2>2, <2>3, <2>4
  <2>6. t.name = "DECIMAL" /\ t.scale = scale
        /\ t.n = Least(prec, IF scale <= 4 /\ prec <= 18 THEN 18 ELSE 38)
    BY <2>1, <2>5 DEF Least
  <2>7. t.n \in Nat /\ t.n > 0 /\ (prec <= 38 => t.n = prec)
    BY <2>5, <2>6 DEF Least
  <2>8. ASSUME NEW d \in 1 .. 6, \A s \in S : s.size <= 9 /\ s.decimals = d
        PROVE  t.scale = d /\ \A s \in S : IntDigits(s) <= t.n - t.scale
    <3>1. \A s \in S : SampleScale(s) = d /\ SampleDigits(s, over) <= 19 + d
                       /\ IntDigits(s) + d <= SampleDigits(s, over)
      <4> SUFFICES ASSUME NEW s \in S
                   PROVE  SampleScale(s) = d /\ SampleDigits(s, over) <= 19 + d
                          /\ IntDigits(s) + d <= SampleDigits(s, over)
        OBVIOUS
      <4>1. s \in Values /\ s.size <= 9 /\ s.decimals = d
        BY <2>8
      <4>2. SampleScale(s) = d
        BY <4>1, SampleFacts
      <4> QED BY <4>1, <4>2, SampleFacts
    <3>2. scale = d
      BY <2>4, <3>1
    <3>3. prec <= 25
      <4>1. PICK s \in S : prec = SampleDigits(s, over)
        BY <2>3
      <4> QED BY <2>2, <3>1, <4>1
    <3>4. t.n = prec
      BY <2>5, <2>7, <3>3
    <3>5. \A s \in S : SampleDigits(s, over) <= prec
      BY <2>3
    <3>6. \A s \in S : IntDigits(s) \in Int
      BY ValueTypes
    <3> HIDE DEF P, C
    <3> QED BY <2>2, <2>5, <2>6, <3>1, <3>2, <3>4, <3>5, <3>6
  <2>9. \E s \in S : s.decimals # 0
    BY <1>2
  <2>10. Legal(t)
    BY <2>6, <2>7 DEF Legal
  <2> QED BY <2>5, <2>6, <2>7, <2>8, <2>9, <2>10
<1> QED BY <1>1, <1>2

\* A number arrives in a column whose type was inferred from samples like it.
LEMMA InferredNumberArrives ==
  ASSUME NEW c \in Columns, c.type = "NUMBER",
         NEW S, S \subseteq Values, S # {}, NEW over \in {0, 10},
         NEW t, t = InferNumeric(S, over),
         NEW v \in DomainOf(c), ~ LostSilently(c, v), LikeSamples(S, v)
  PROVE  Arrives(c, v, t)
<1>1. v \in Values
  BY DEF DomainOf
<1>2. Significant(v) <= 15
  BY <1>1, ValueTypes DEF LostSilently, Numbers
<1>3. PICK s \in S : v.size <= s.size
  BY DEF LikeSamples
<1>4. \A x \in S : x.size <= 9 /\ x.decimals = v.decimals /\ v.decimals <= 6
  BY DEF LikeSamples
<1> SUFFICES ASSUME NEW f \in InForms(v) PROVE NumberArrives(c, v, f, t)
  BY DEF Arrives, Numbers, Texts, Bytes, Times
<1>5. s \in Values /\ v.decimals \in Nat /\ v.size \in Int /\ s.size \in Int
  BY <1>1, <1>3, ValueTypes
<1>6. CASE t.name = "DECIMAL"
  <2>1. \E x \in S : x.decimals # 0
    BY <1>6, InferredNumber
  <2>2. v.decimals \in 1 .. 6
    BY <1>4, <1>5, <2>1
  <2>3. t.scale = v.decimals /\ IntDigits(s) <= t.n - t.scale
    BY <1>3, <1>4, <1>6, <2>2, InferredNumber
  <2>4. t.n \in Nat
    BY InferredNumber
  <2>5. IntDigits(v) <= IntDigits(s) /\ IntDigits(v) \in Int /\ IntDigits(s) \in Int
    BY <1>1, <1>3, <1>5, SizeAndDigits
  <2>6. IntDigits(v) <= t.n - t.scale /\ v.decimals <= t.scale
    BY <1>5, <2>3, <2>4, <2>5
  <2> QED BY <1>1, <1>2, <1>6, <2>6, DecimalTakes
<1>7. CASE t.name # "DECIMAL"
  <2>1. t.name \in {"SMALLINT", "INT", "BIGINT"} /\ s.decimals = 0 /\ s.size <= Widest[t.name]
    BY <1>3, <1>4, <1>7, InferredNumber
  <2>2. Widest[t.name] \in Int
    BY <2>1 DEF Widest
  <2>3. v.size <= Widest[t.name] /\ v.decimals = 0
    BY <1>3, <1>4, <1>5, <2>1, <2>2
  <2> QED BY <1>1, <1>2, <2>1, <2>3, IntegerTakes
<1> QED BY <1>6, <1>7

-----------------------------------------------------------------------------
\* The columns: texts, binary values and times.

LEMMA SizedTakes ==
  ASSUME NEW name, NEW l \in Nat, NEW limit \in Nat
  PROVE  LET t == Sized(name, l, limit) IN
         /\ t.name = name /\ t.scale = 0 /\ t.n \in Nat
         /\ t.n = l \/ t.n = Unlimited
         /\ l = 0 => t.n = Unlimited
<1>1. Sized(name, l, limit).name = name /\ Sized(name, l, limit).scale = 0
  BY DEF Sized
<1>2. Sized(name, l, limit).n = IF l \in 1 .. limit THEN l ELSE Unlimited
  BY DEF Sized
<1>3. Unlimited \in Nat
  BY DEF Unlimited
<1> QED BY <1>1, <1>2, <1>3

\* A text or binary value is no longer than its column allows.
LEMMA HeldLength ==
  ASSUME NEW c \in Columns, c.type \in Texts \cup Bytes, NEW v \in DomainOf(c)
  PROVE  /\ v.length \in Nat
         /\ c.type = "ROWID" => v.length <= 18
         /\ c.type \in {"CLOB", "NCLOB", "LONG", "XMLTYPE", "JSON", "LONG_RAW", "BLOB"} =>
              v.length <= Unlimited
         /\ c.type \in {"CHAR", "NCHAR", "VARCHAR2", "NVARCHAR2", "RAW"} =>
              v.length <= c.length
<1>1. v \in Values /\ Holds(c, v)
  BY DEF DomainOf
<1>2. v.length \in 1 .. (CASE c.type = "ROWID" -> 18
                          [] c.type \in {"CLOB", "NCLOB", "LONG", "XMLTYPE", "JSON",
                                         "LONG_RAW", "BLOB"} -> Unlimited
                          [] OTHER -> c.length)
  BY <1>1 DEF Holds, Numbers, Texts, Bytes
<1>3. v.length \in Nat /\ c.length \in Nat /\ Unlimited \in Nat
  BY <1>1, ValueTypes, ColumnFacts DEF Unlimited
<1>4. CASE c.type = "ROWID"
  <2>1. v.length \in 1 .. 18
    BY <1>2, <1>4
  <2> QED BY <1>3, <1>4, <2>1
<1>5. CASE c.type \in {"CLOB", "NCLOB", "LONG", "XMLTYPE", "JSON", "LONG_RAW", "BLOB"}
  <2>1. v.length \in 1 .. Unlimited
    BY <1>2, <1>5
  <2> QED BY <1>3, <1>5, <2>1
<1>6. CASE c.type \in {"CHAR", "NCHAR", "VARCHAR2", "NVARCHAR2", "RAW"}
  <2>1. v.length \in 1 .. c.length
    BY <1>2, <1>6
  <2> QED BY <1>3, <1>6, <2>1
<1> QED BY <1>3, <1>4, <1>5, <1>6

\* A text or binary value arrives in a column made from the catalog.
LEMMA CatalogTextArrives ==
  ASSUME NEW c \in Columns, c.type \in Texts \cup Bytes,
         NEW v \in DomainOf(c), ~ LostSilently(c, v), ~ ReportWarns(c)
  PROVE  Arrives(c, v, MapOracleType(c))
<1> DEFINE t == MapOracleType(c)
<1>1. SUFFICES v.length <= t.n
  BY DEF Arrives, Numbers, Texts, Bytes, Times
<1>2. c.length \in Nat /\ Declarable(c)
  BY ColumnFacts
<1>3. v.length \in Nat
  BY HeldLength
<1>4. Unlimited = 100000
  BY DEF Unlimited
<1>5. CASE c.type \in {"CLOB", "NCLOB", "XMLTYPE"}
  <2>1. t = Sized("NVARCHAR", 0, 4000)
    BY <1>5, SMTT(30) DEF MapOracleType
  <2>2. Sized("NVARCHAR", 0, 4000).n = Unlimited
    BY SizedTakes
  <2> HIDE DEF t
  <2> QED BY <1>5, <2>1, <2>2, HeldLength
<1>6. CASE c.type \in {"CHAR", "NCHAR"}
  <2>1. t = [name |-> "NCHAR", scale |-> 0, n |-> Most({1, Least(c.length, 4000)})]
    BY <1>6, SMTT(30) DEF MapOracleType
  <2>2. c.length <= 2000
    BY <1>2, <1>6 DEF Declarable
  <2>3. Least(c.length, 4000) = c.length
    BY <1>2, <2>2 DEF Least
  <2>4. c.length <= Most({1, c.length}) /\ Most({1, c.length}) \in Int
    <3>1. 1 \in Int /\ c.length \in Int
      BY <1>2
    <3>2. /\ Most({1, c.length}) = 1 \/ Most({1, c.length}) = c.length
          /\ c.length <= Most({1, c.length})
      BY <3>1, MostOfTwo, Zenon
    <3> QED BY <3>1, <3>2
  <2>5. v.length <= c.length
    BY <1>6, HeldLength
  <2>6. t.n = Most({1, c.length})
    BY <2>1, <2>3
  <2> HIDE DEF t
  <2> QED BY <1>2, <1>3, <2>4, <2>5, <2>6
<1>7. CASE c.type \in {"VARCHAR2", "NVARCHAR2", "RAW"}
  <2>1. t = Sized("NVARCHAR", c.length, 4000) \/ t = Sized("VARBINARY", c.length, 8000)
    BY <1>7, SMTT(30) DEF MapOracleType
  <2>2. c.length <= 32767
    BY <1>2, <1>7 DEF Declarable
  <2> HIDE DEF t
  <2>3. t.n = c.length \/ t.n = Unlimited
    BY <1>2, <2>1, SizedTakes
  <2>4. v.length <= c.length
    BY <1>7, HeldLength
  <2> QED BY <1>2, <1>3, <1>4, <2>2, <2>3, <2>4
<1>8. CASE c.type \in {"ROWID", "UROWID"}
  <2>1. t = [name |-> "CHAR", n |-> 18, scale |-> 0]
    BY <1>8, SMTT(30) DEF MapOracleType
  <2>2. v.length <= 18
    BY <1>3, <1>8, HeldLength DEF LostSilently
  <2> QED BY <2>1, <2>2
<1> QED BY <1>5, <1>6, <1>7, <1>8 DEF Texts, Bytes, ReportWarns

\* The type of a text column that was sampled.
LEMMA InferredText ==
  ASSUME NEW c \in Columns, c.type \in {"CHAR", "NCHAR", "VARCHAR2", "NVARCHAR2", "CLOB", "NCLOB"},
         NEW S, S \subseteq DomainOf(c)
  PROVE  LET t == InferString(c, S) IN
         /\ t.name \in {"NCHAR", "NVARCHAR"} /\ t.scale = 0 /\ t.n \in Nat
         /\ \A s \in S : s.length <= t.n
         /\ \A s \in DomainOf(c) : t.n = Unlimited => s.length <= t.n
<1> DEFINE L == {c.length} \cup {s.length : s \in S}
           longest == Most(L)
<1>1. c.length \in Nat /\ Declarable(c)
  BY ColumnFacts
<1>2. Unlimited = 100000
  BY DEF Unlimited
<1>3. \A s \in DomainOf(c) : s.length \in Nat /\ (s.length <= c.length \/ s.length <= Unlimited)
  <2>1. c.type \in Texts \cup Bytes
    BY DEF Texts
  <2> QED BY <2>1, HeldLength
<1>4. L \subseteq Nat /\ L # {} /\ \A x \in L : x <= c.length + 100000
  BY <1>1, <1>2, <1>3
<1>5. longest \in L /\ \A x \in L : x <= longest
  <2> DEFINE b == c.length + 100000
  <2>1. L \subseteq Int /\ b \in Int
    BY <1>1, <1>4
  <2>2. L # {} /\ \A x \in L : x <= b
    BY <1>4
  <2> HIDE DEF L, b
  <2> QED BY <2>1, <2>2, MostIsLargest, Zenon
<1>6. longest \in Nat
  BY <1>4, <1>5
<1>7. \A s \in S : s.length <= longest
  BY <1>5
<1>8. \A s \in DomainOf(c) : s.length <= Unlimited
  <2> SUFFICES ASSUME NEW s \in DomainOf(c) PROVE s.length <= Unlimited
    OBVIOUS
  <2>1. c.type \in Texts \cup Bytes
    BY DEF Texts
  <2>2. CASE c.type \in {"CLOB", "NCLOB"}
    BY <2>1, <2>2, HeldLength
  <2>3. CASE c.type \in {"CHAR", "NCHAR", "VARCHAR2", "NVARCHAR2"}
    <3>1. s.length <= c.length
      BY <2>1, <2>3, HeldLength
    <3>2. c.length <= 32767
      BY <1>1, <2>3 DEF Declarable
    <3> QED BY <1>1, <1>2, <1>3, <3>1, <3>2
  <2> QED BY <2>2, <2>3
<1> DEFINE t == InferString(c, S)
<1>9. t = IF longest > 4000 THEN Sized("NVARCHAR", 0, 4000)
          ELSE IF MapOracleType(c).name = "NCHAR"
               THEN [name |-> "NCHAR", n |-> longest, scale |-> 0]
          ELSE [name |-> "NVARCHAR", n |-> longest, scale |-> 0]
  BY DEF InferString
<1> HIDE DEF longest, t
<1>10. CASE longest > 4000
  <2>1. t = Sized("NVARCHAR", 0, 4000)
    BY <1>9, <1>10
  <2>2. t.name = "NVARCHAR" /\ t.scale = 0 /\ t.n = Unlimited
    BY <2>1, SizedTakes
  <2>3. \A s \in S : s.length <= t.n
    BY <1>8, <2>2
  <2>4. t.n \in Nat
    BY <1>2, <2>2
  <2> QED BY <1>8, <2>2, <2>3, <2>4 DEF t
<1>11. CASE ~ longest > 4000
  <2>1. t.name \in {"NCHAR", "NVARCHAR"} /\ t.scale = 0 /\ t.n = longest
    BY <1>9, <1>11
  <2>2. \A s \in DomainOf(c) : t.n = Unlimited => s.length <= t.n
    BY <1>8
  <2> QED BY <1>6, <1>7, <2>1, <2>2 DEF t
<1> QED BY <1>10, <1>11

\* A time arrives with the digits it has, up to seven.
LEMMA TimeArrives ==
  ASSUME NEW c \in Columns, c.type \in Times,
         NEW v \in DomainOf(c), ~ LostSilently(c, v), ~ ReportWarns(c)
  PROVE  Arrives(c, v, MapOracleType(c))
<1> DEFINE t == MapOracleType(c)
<1>1. v \in Values /\ Holds(c, v)
  BY DEF DomainOf
<1>2. v.decimals \in Nat /\ c.scale \in Int /\ Declarable(c)
  BY <1>1, ValueTypes, ColumnFacts
<1>3. v.decimals <= c.scale
  BY <1>1 DEF Holds, Numbers, Texts, Bytes, Times
<1>4. c.type \in {"DATE", "TIMESTAMP"}
  BY DEF Times, ReportWarns
<1>5. SUFFICES v.decimals <= t.scale
  BY <1>4 DEF Arrives, Numbers, Texts, Bytes, Times
<1>6. CASE c.type = "DATE"
  <2>1. t = [name |-> "DATETIME2", n |-> 0, scale |-> 0]
    BY <1>6, SMTT(30) DEF MapOracleType
  <2>2. c.scale = 0
    BY <1>2, <1>6 DEF Declarable
  <2> QED BY <1>3, <2>1, <2>2
<1>7. CASE c.type = "TIMESTAMP"
  <2>1. t = [name |-> "DATETIME2", n |-> 0, scale |-> Least(c.scale, 7)]
    BY <1>7, SMTT(30) DEF MapOracleType
  <2>2. v.decimals <= 7
    BY <1>2, <1>7 DEF LostSilently
  <2>3. v.decimals <= Least(c.scale, 7)
    BY <1>2, <1>3, <2>2 DEF Least
  <2> QED BY <2>1, <2>3
<1> QED BY <1>4, <1>6, <1>7

\* A text that is no longer than a sample fits.
LEMMA InferredTextArrives ==
  ASSUME NEW c \in Columns, c.type \in {"CHAR", "NCHAR", "VARCHAR2", "NVARCHAR2", "CLOB", "NCLOB"},
         NEW S, S \subseteq DomainOf(c),
         NEW v \in DomainOf(c), LikeSamples(S, v)
  PROVE  Arrives(c, v, InferString(c, S))
<1> DEFINE t == InferString(c, S)
<1>1. t.n \in Nat /\ \A s \in S : s.length <= t.n
  BY InferredText
<1>2. PICK s \in S : v.length <= s.length
  BY DEF LikeSamples
<1>3. v.length \in Nat /\ s.length \in Nat
  BY ValueTypes DEF DomainOf
<1> HIDE DEF t
<1>4. v.length <= t.n
  BY <1>1, <1>2, <1>3
<1> QED BY <1>4 DEF Arrives, Numbers, Texts, Bytes, Times, t

\* Every type from the catalog is one of those known, of a length and with a
\* scale that SQL Server has.  Only the type of a number of unknown precision
\* with a scale is none that SQL Server has.
LEMMA CatalogType ==
  ASSUME NEW c \in Columns
  PROVE  LET t == MapOracleType(c) IN
         /\ t.name \in {"SMALLINT", "INT", "BIGINT", "DECIMAL", "FLOAT", "REAL", "NCHAR",
                        "NVARCHAR", "CHAR", "VARBINARY", "DATETIME2"}
         /\ t.scale \in 0 .. 38 /\ t.n \in Nat
         /\ ~ Legal(t) =>
              c.type = "NUMBER" /\ c.prec = 0 /\ c.scale \notin {0, Unlimited}
<1> DEFINE t == MapOracleType(c)
<1>1. c.prec \in Nat /\ c.scale \in Int /\ c.length \in Nat /\ Declarable(c)
  BY ColumnFacts
<1>2. CASE c.type = "NUMBER"
  <2>1. c.prec <= 38
    BY <1>1, <1>2 DEF Declarable
  <2>2. CASE ~ KnownNumber(c)
    <3>1. t = [name |-> "FLOAT", n |-> 53, scale |-> 0]
      BY <1>2, <2>2, CatalogNumber
    <3> QED BY <3>1 DEF Legal
  <2>3. CASE KnownNumber(c) /\ c.scale = 0
    <3>1. t = IntegerType(c.prec)
      BY <1>2, <2>3, CatalogNumber
    <3>2. /\ IntegerType(c.prec).n \in Nat /\ IntegerType(c.prec).scale = 0
          /\ Legal(IntegerType(c.prec))
          /\ IntegerType(c.prec).name \in {"SMALLINT", "INT", "BIGINT", "DECIMAL"}
      BY <1>1, IntegerTypeFits
    <3> HIDE DEF t
    <3>3. t.n \in Nat /\ t.scale = 0 /\ Legal(t)
          /\ t.name \in {"SMALLINT", "INT", "BIGINT", "DECIMAL"}
      BY <3>1, <3>2
    <3> QED BY <3>3 DEF t
  <2>4. CASE KnownNumber(c) /\ c.scale # 0
    <3> DEFINE s == IF c.scale < 0 THEN 0 ELSE Least(c.scale, c.prec)
    <3>1. t = [name |-> "DECIMAL", n |-> c.prec, scale |-> s]
      BY <1>2, <2>4, CatalogNumber
    <3>2. s \in 0 .. 38
      BY <1>1, <2>1 DEF Least
    <3> HIDE DEF s, t
    <3>3. t.name = "DECIMAL" /\ t.n = c.prec /\ t.scale = s
      BY <3>1
    <3>4. ~ Legal(t) => c.prec = 0
      BY <1>1, <3>3 DEF Legal
    <3>5. c.prec = 0 => c.scale \notin {0, Unlimited}
      BY <2>4 DEF KnownNumber
    <3> QED BY <1>1, <1>2, <3>2, <3>3, <3>4, <3>5 DEF t
  <2> QED BY <2>2, <2>3, <2>4
<1>3. CASE c.type \in {"FLOAT", "BINARY_FLOAT", "BINARY_DOUBLE"}
  <2>1. \/ t = [name |-> "FLOAT", n |-> 53, scale |-> 0]
        \/ t = [name |-> "REAL", n |-> 0, scale |-> 0]
    <3>1. CASE c.type = "BINARY_FLOAT"
      <4>1. t = [name |-> "REAL", n |-> 0, scale |-> 0]
        BY <3>1, SMTT(30) DEF MapOracleType
      <4> QED BY <4>1
    <3>2. CASE c.type \in {"BINARY_DOUBLE", "FLOAT"}
      <4>1. t = [name |-> "FLOAT", n |-> 53, scale |-> 0]
        BY <3>2, SMTT(30) DEF MapOracleType
      <4> QED BY <4>1
    <3> QED BY <1>3, <3>1, <3>2
  <2> HIDE DEF t
  <2>2. t.name \in {"FLOAT", "REAL"} /\ t.n \in {0, 53} /\ t.scale = 0
    BY <2>1
  <2> QED BY <2>2 DEF Legal, t
<1>4. CASE c.type \in {"CHAR", "NCHAR"}
  <2>1. t = [name |-> "NCHAR", scale |-> 0, n |-> Most({1, Least(c.length, 4000)})]
    BY <1>4, SMTT(30) DEF MapOracleType
  <2>2. Least(c.length, 4000) \in Nat
    BY <1>1 DEF Least
  <2>3. Most({1, Least(c.length, 4000)}) \in Nat
    <3> DEFINE l == Least(c.length, 4000)
    <3>1. 1 \in Int /\ l \in Int
      BY <2>2
    <3> HIDE DEF l
    <3>2. Most({1, l}) = 1 \/ Most({1, l}) = l
      BY <3>1, MostOfTwo, Zenon
    <3>3. l \in Nat
      BY <2>2 DEF l
    <3>4. Most({1, l}) \in Nat
      BY <3>2, <3>3
    <3> QED BY <3>4 DEF l
  <2> HIDE DEF t
  <2>4. t.name = "NCHAR" /\ t.scale = 0 /\ t.n \in Nat
    BY <2>1, <2>3
  <2> QED BY <2>4 DEF Legal, t
<1>5. CASE c.type \in {"VARCHAR2", "NVARCHAR2", "RAW", "LONG_RAW", "CLOB", "NCLOB", "LONG",
                       "XMLTYPE", "JSON", "BLOB", "BFILE"}
  <2>1. \E l \in {0, c.length} :
          t = Sized("NVARCHAR", l, 4000) \/ t = Sized("VARBINARY", l, 8000)
    <3>1. CASE c.type \in {"VARCHAR2", "NVARCHAR2"}
      <4>1. t = Sized("NVARCHAR", c.length, 4000)
        BY <3>1, SMTT(30) DEF MapOracleType
      <4> HIDE DEF t
      <4> QED BY <4>1
    <3>2. CASE c.type \in {"RAW", "LONG_RAW"}
      <4>1. t = Sized("VARBINARY", c.length, 8000)
        BY <3>2, SMTT(30) DEF MapOracleType
      <4> HIDE DEF t
      <4> QED BY <4>1
    <3>3. CASE c.type \in {"CLOB", "NCLOB", "LONG", "XMLTYPE", "JSON"}
      <4>1. t = Sized("NVARCHAR", 0, 4000)
        BY <3>3, SMTT(30) DEF MapOracleType
      <4> HIDE DEF t
      <4> QED BY <4>1
    <3>4. CASE c.type \in {"BLOB", "BFILE"}
      <4>1. t = Sized("VARBINARY", 0, 8000)
        BY <3>4, SMTT(30) DEF MapOracleType
      <4> HIDE DEF t
      <4> QED BY <4>1
    <3> QED BY <1>5, <3>1, <3>2, <3>3, <3>4
  <2> HIDE DEF t
  <2>2. PICK l \in {0, c.length} :
          t = Sized("NVARCHAR", l, 4000) \/ t = Sized("VARBINARY", l, 8000)
    BY <2>1
  <2>3. l \in Nat
    BY <1>1
  <2>4. t.name \in {"NVARCHAR", "VARBINARY"} /\ t.scale = 0 /\ t.n \in Nat
    BY <2>2, <2>3, SizedTakes
  <2> QED BY <2>4 DEF Legal, t
<1>6. CASE c.type \in {"INTERVAL", "ROWID", "UROWID"}
  <2>1. \/ t = [name |-> "NVARCHAR", n |-> 50, scale |-> 0]
        \/ t = [name |-> "CHAR", n |-> 18, scale |-> 0]
    <3>1. CASE c.type = "INTERVAL"
      <4>1. t = [name |-> "NVARCHAR", n |-> 50, scale |-> 0]
        BY <3>1, SMTT(30) DEF MapOracleType
      <4> QED BY <4>1
    <3>2. CASE c.type \in {"ROWID", "UROWID"}
      <4>1. t = [name |-> "CHAR", n |-> 18, scale |-> 0]
        BY <3>2, SMTT(30) DEF MapOracleType
      <4> QED BY <4>1
    <3> QED BY <1>6, <3>1, <3>2
  <2> HIDE DEF t
  <2>2. t.name \in {"NVARCHAR", "CHAR"} /\ t.n \in {18, 50} /\ t.scale = 0
    BY <2>1
  <2> QED BY <2>2 DEF Legal, t
<1>7. CASE c.type \in Times
  <2>1. CASE c.type = "DATE"
    <3>1. t = [name |-> "DATETIME2", n |-> 0, scale |-> 0]
      BY <2>1, SMTT(30) DEF MapOracleType
    <3> QED BY <3>1 DEF Legal
  <2>2. CASE c.type \in {"TIMESTAMP", "TIMESTAMP_TZ"}
    <3>1. t = [name |-> "DATETIME2", n |-> 0, scale |-> Least(c.scale, 7)]
      BY <2>2, SMTT(30) DEF MapOracleType
    <3>2. Least(c.scale, 7) \in 0 .. 38
      BY <1>1, <2>2 DEF Declarable, Least
    <3> HIDE DEF t
    <3>3. t.name = "DATETIME2" /\ t.n = 0 /\ t.scale \in 0 .. 38
      BY <3>1, <3>2
    <3> QED BY <3>3 DEF Legal, t
  <2> QED BY <1>7, <2>1, <2>2 DEF Times
<1>8. c.type \in Numbers \cup Texts \cup Bytes \cup Times
  BY ColumnFacts
<1> QED BY <1>2, <1>3, <1>4, <1>5, <1>6, <1>7, <1>8 DEF Numbers, Texts, Bytes

\* The same of the types that samples give; and those are all legal.
LEMMA InferredType ==
  ASSUME NEW c \in Columns, NEW S, S \subseteq DomainOf(c), NEW t \in Infer(c, S)
  PROVE  /\ t.name \in {"SMALLINT", "INT", "BIGINT", "DECIMAL", "FLOAT", "REAL", "NCHAR",
                        "NVARCHAR", "CHAR", "VARBINARY", "DATETIME2"}
         /\ t.scale \in 0 .. 38 /\ t.n \in Nat
         /\ ~ Legal(t) =>
              c.type = "NUMBER" /\ c.prec = 0 /\ c.scale \notin {0, Unlimited}
<1>1. CASE S = {} \/ ~ SamplesCount(c)
  <2>1. t = MapOracleType(c)
    BY <1>1, Zenon DEF Infer
  <2> QED BY <2>1, CatalogType
<1>2. CASE ~ (S = {} \/ ~ SamplesCount(c)) /\ c.type = "NUMBER"
  <2>1. PICK over \in {0, 10} : t = InferNumeric(S, over)
    <3>1. t \in {InferNumeric(S, over) : over \in {0, 10}}
      BY <1>2, Zenon DEF Infer
    <3> QED BY <3>1
  <2>2. S \subseteq Values /\ S # {}
    BY <1>2 DEF DomainOf
  <2>3. Legal(t) /\ t.n \in Nat /\ t.scale \in 0 .. 6
        /\ t.name \in {"SMALLINT", "INT", "BIGINT", "DECIMAL"}
    BY <2>1, <2>2, InferredNumber
  <2> QED BY <2>3
<1>3. CASE ~ (S = {} \/ ~ SamplesCount(c)) /\ c.type # "NUMBER"
  <2>1. t = InferString(c, S)
    BY <1>3, Zenon DEF Infer
  <2>2. c.type \in {"CHAR", "NCHAR", "VARCHAR2", "NVARCHAR2", "CLOB", "NCLOB"}
    BY <1>3 DEF SamplesCount
  <2>3. t.name \in {"NCHAR", "NVARCHAR"} /\ t.scale = 0 /\ t.n \in Nat
    BY <2>1, <2>2, InferredText
  <2> QED BY <2>3 DEF Legal
<1> QED BY <1>1, <1>2, <1>3

-----------------------------------------------------------------------------
\* NUMBER(*,2) or NUMBER(*,-2): a scale, but no precision.
Undeclared(c) == c.type = "NUMBER" /\ c.prec = 0 /\ c.scale \notin {0, Unlimited}

\* A table's type is a legal one of those its column and the samples give.
ColInv ==
  /\ column \in Columns /\ stage \in {"new", "created", "ready", "refused"}
  /\ sampled \subseteq DomainOf(column)
  /\ stage \in {"new", "refused"} => sampled = {} /\ type = NoType
  /\ stage \in {"created", "ready"} => type \in Infer(column, sampled) /\ Legal(type)
  /\ stage = "refused" => Undeclared(column)

LEMMA ColInvAtFirst == ColInit => ColInv
BY DEF ColInit, ColInv

LEMMA ColInvAfterStep == ColInv /\ [ColNext]_colVars => ColInv'
<1> SUFFICES ASSUME ColInv, [ColNext]_colVars PROVE ColInv'
  OBVIOUS
<1>1. /\ column \in Columns /\ stage \in {"new", "created", "ready", "refused"}
      /\ sampled \subseteq DomainOf(column)
      /\ stage \in {"new", "refused"} => sampled = {} /\ type = NoType
      /\ stage \in {"created", "ready"} => type \in Infer(column, sampled) /\ Legal(type)
      /\ stage = "refused" => Undeclared(column)
  BY DEF ColInv
<1>2. CASE CreateFromCatalog
  <2>1. column' = column /\ sampled' = sampled /\ sampled = {} /\ stage = "new"
    BY <1>1, <1>2 DEF CreateFromCatalog
  <2>2. CASE Legal(MapOracleType(column))
    <3>1. stage' = "created" /\ type' = MapOracleType(column)
      BY <1>2, <2>2 DEF CreateFromCatalog
    <3>2. MapOracleType(column) \in Infer(column, {})
      BY Zenon DEF Infer
    <3>3. Legal(type') /\ type' \in Infer(column', sampled')
      BY <2>1, <2>2, <3>1, <3>2
    <3> QED BY <1>1, <2>1, <3>1, <3>3 DEF ColInv
  <2>3. CASE ~ Legal(MapOracleType(column))
    <3>1. stage' = "refused" /\ type' = type
      BY <1>2, <2>3 DEF CreateFromCatalog
    <3>2. Undeclared(column)
      BY <1>1, <2>3, CatalogType DEF Undeclared
    <3>3. type' = NoType /\ Undeclared(column')
      BY <1>1, <2>1, <3>1, <3>2
    <3> QED BY <1>1, <2>1, <3>1, <3>3 DEF ColInv
  <2> QED BY <2>2, <2>3
<1>3. CASE KeepType
  BY <1>1, <1>3 DEF KeepType, ColInv
<1>4. CASE CreateInferred
  <2>1. column' = column /\ stage = "new" /\ sampled = {} /\ type = NoType
    BY <1>1, <1>4 DEF CreateInferred
  <2>2. PICK S \in (IF SamplesCount(column) THEN Samples(column) ELSE {{}}) :
          \E t \in Infer(column, S) :
            IF Legal(t) THEN stage' = "ready" /\ type' = t /\ sampled' = S
            ELSE stage' = "refused" /\ UNCHANGED <<type, sampled>>
    BY <1>4 DEF CreateInferred
  <2>3. S \subseteq DomainOf(column)
    <3>1. CASE S = {}
      BY <3>1
    <3>2. CASE S \in Samples(column)
      <4> DEFINE D == {v \in DomainOf(column) : v.decimals = 0 \/ Significant(v) <= 15}
      <4>1. S = {} \/ \E f \in [1 .. MaxSamples -> D] : S = {f[i] : i \in 1 .. MaxSamples}
        BY <3>2, Zenon DEF Samples
      <4>2. D \subseteq DomainOf(column)
        OBVIOUS
      <4> HIDE DEF D
      <4> QED BY <4>1, <4>2
    <3> QED BY <2>2, <3>1, <3>2
  <2>4. PICK t \in Infer(column, S) :
          IF Legal(t) THEN stage' = "ready" /\ type' = t /\ sampled' = S
          ELSE stage' = "refused" /\ UNCHANGED <<type, sampled>>
    BY <2>2
  <2>5. CASE Legal(t)
    <3>1. stage' = "ready" /\ type' = t /\ sampled' = S
      BY <2>4, <2>5
    <3>2. Legal(type') /\ type' \in Infer(column', sampled') /\ sampled' \subseteq DomainOf(column')
      BY <2>1, <2>3, <2>5, <3>1
    <3> QED BY <1>1, <2>1, <3>1, <3>2 DEF ColInv
  <2>6. CASE ~ Legal(t)
    <3>1. stage' = "refused" /\ type' = NoType /\ sampled' = {}
      BY <2>1, <2>4, <2>6
    <3>2. Undeclared(column')
      BY <1>1, <2>1, <2>3, <2>6, InferredType DEF Undeclared
    <3> QED BY <1>1, <2>1, <3>1, <3>2 DEF ColInv
  <2> QED BY <2>5, <2>6
<1>5. CASE UNCHANGED colVars
  BY <1>1, <1>5 DEF colVars, ColInv
<1> QED BY <1>2, <1>3, <1>4, <1>5 DEF ColNext

LEMMA ColInvGivesTypes == ColInv => ColTypeOK
<1> SUFFICES ASSUME ColInv PROVE ColTypeOK
  OBVIOUS
<1>1. /\ column \in Columns /\ stage \in {"new", "created", "ready", "refused"}
      /\ sampled \subseteq DomainOf(column)
      /\ stage \in {"new", "refused"} => type = NoType
      /\ stage \in {"created", "ready"} => type \in Infer(column, sampled)
  BY DEF ColInv
<1>2. sampled \subseteq Values
  BY <1>1 DEF DomainOf
<1>3. CASE stage \in {"new", "refused"}
  <2>1. type = NoType
    BY <1>1, <1>3
  <2> QED BY <1>1, <1>2, <2>1 DEF ColTypeOK, NoType
<1>4. CASE stage \in {"created", "ready"}
  <2>1. /\ type.name \in {"SMALLINT", "INT", "BIGINT", "DECIMAL", "FLOAT", "REAL", "NCHAR",
                          "NVARCHAR", "CHAR", "VARBINARY", "DATETIME2"}
        /\ type.scale \in 0 .. 38 /\ type.n \in Nat
    BY <1>1, <1>4, InferredType
  <2> QED BY <1>1, <1>2, <2>1 DEF ColTypeOK
<1> QED BY <1>1, <1>3, <1>4

LEMMA ColInvGivesArrival == ColInv => ValuesArrive
<1> SUFFICES ASSUME ColInv PROVE ValuesArrive
  OBVIOUS
<1>1. /\ column \in Columns /\ sampled \subseteq DomainOf(column)
      /\ stage = "ready" => type \in Infer(column, sampled) /\ Legal(type)
      /\ stage = "refused" => Undeclared(column)
  BY DEF ColInv
<1>2. ASSUME stage = "ready", NEW v \in DomainOf(column),
             ~ LostSilently(column, v), ~ ReportWarns(column),
             ~ (sampled # {} /\ ~ LikeSamples(sampled, v))
      PROVE  Arrives(column, v, type)
  <2>1. type \in Infer(column, sampled) /\ Legal(type)
    BY <1>1, <1>2
  <2>2. CASE sampled = {} \/ ~ SamplesCount(column)
    <3>1. type = MapOracleType(column)
      BY <2>1, <2>2, Zenon DEF Infer
    <3>2. column.type \in Numbers \cup Texts \cup Bytes \cup Times
      BY <1>1, ColumnFacts
    <3>3. CASE column.type \in Numbers
      BY <1>1, <1>2, <2>1, <3>1, <3>3, CatalogNumberArrives
    <3>4. CASE column.type \in Texts \cup Bytes
      BY <1>1, <1>2, <3>1, <3>4, CatalogTextArrives
    <3>5. CASE column.type \in Times
      BY <1>1, <1>2, <3>1, <3>5, TimeArrives
    <3> QED BY <3>2, <3>3, <3>4, <3>5
  <2>3. CASE ~ (sampled = {} \/ ~ SamplesCount(column))
    <3>1. LikeSamples(sampled, v)
      BY <1>2, <2>3
    <3>2. CASE column.type = "NUMBER"
      <4>1. PICK over \in {0, 10} : type = InferNumeric(sampled, over)
        <5>1. type \in {InferNumeric(sampled, over) : over \in {0, 10}}
          BY <2>1, <2>3, <3>2, Zenon DEF Infer
        <5> QED BY <5>1
      <4>2. sampled \subseteq Values /\ sampled # {}
        BY <1>1, <2>3 DEF DomainOf
      <4> QED BY <1>1, <1>2, <3>1, <3>2, <4>1, <4>2, InferredNumberArrives
    <3>3. CASE column.type # "NUMBER"
      <4>1. type = InferString(column, sampled)
        BY <2>1, <2>3, <3>3, Zenon DEF Infer
      <4>2. column.type \in {"CHAR", "NCHAR", "VARCHAR2", "NVARCHAR2", "CLOB", "NCLOB"}
        BY <2>3, <3>3 DEF SamplesCount
      <4> QED BY <1>1, <1>2, <3>1, <4>1, <4>2, InferredTextArrives
    <3> QED BY <3>2, <3>3
  <2> QED BY <2>2, <2>3
<1> QED BY <1>1, <1>2 DEF ValuesArrive, Undeclared

\* The types chosen, and the columns refused, are always those of the
\* functions above (oracletypes.go, schema_infer.go), for any columns that
\* Oracle can declare, any values and any samples.
THEOREM ColumnInvariant == ColSpec => []ColInv
<1>1. ColInit => ColInv
  BY ColInvAtFirst
<1>2. ColInv /\ [ColNext]_colVars => ColInv'
  BY ColInvAfterStep
<1> QED BY <1>1, <1>2, PTL DEF ColSpec

\* Whatever the column, its values arrive as they are, but for the losses the
\* report warns of, the silent ones that LostSilently names, and values unlike
\* the samples their type was inferred from; and no column is refused but a
\* NUMBER of unknown precision with a scale (coerce.go, oracletypes.go).
THEOREM ColumnValuesArrive == ColSpec => []ValuesArrive
<1>1. ColInv => ValuesArrive
  BY ColInvGivesArrival
<1> QED BY <1>1, ColumnInvariant, PTL

-----------------------------------------------------------------------------
\* The four parts side by side.

\* The column and the schedule of a part that stands still are among those
\* considered.
CanStandStill == Number(4, 0) \in Columns /\ "@daily" \in Expressions /\ 0 \in Zones

PlanInv == DepInv /\ ColInv /\ ClockInv /\ EndInv

LEMMA PlanInvAtFirst == ASSUME CanStandStill PROVE Init => PlanInv
<1> SUFFICES ASSUME Init PROVE PlanInv
  OBVIOUS
<1>1. EndInv
  BY InitEndInv DEF Init
<1>2. DepParked => DepInv
  <2> SUFFICES ASSUME DepParked PROVE DepInv
    OBVIOUS
  <2>1. /\ edges = {} /\ selected = {} /\ frontier = <<>> /\ at = 1 /\ next = <<>>
        /\ closure = {} /\ depth = [t \in Tables |-> 0]
        /\ requiredBy = [t \in Tables |-> {}] /\ order = <<>>
    BY DEF DepParked
  <2>2. DOMAIN frontier = {} /\ DOMAIN next = {} /\ DOMAIN order = {}
    BY <2>1, SMT
  <2>3. frontier \in Seq(Tables) /\ next \in Seq(Tables) /\ order \in Seq(Tables)
        /\ Len(next) = 0
    BY <2>1
  <2>4. DepTypeOK
    BY <2>1, <2>3 DEF DepTypeOK, Edges
  <2>5. WalkInv
    BY <2>1, <2>2 DEF WalkInv
  <2>6. ChainInv
    BY <2>1, <2>3 DEF ChainInv
  <2>7. OrderInv
    BY <2>1, <2>2 DEF OrderInv, WellOrdered
  <2> QED BY <2>4, <2>5, <2>6, <2>7 DEF DepInv
<1>3. ColParked => ColInit
  BY DEF ColParked, ColInit, CanStandStill
<1>4. ClockParked => ClockInit
  BY DEF ClockParked, ClockInit, CanStandStill
<1> QED BY <1>1, <1>2, <1>3, <1>4, DepInvAtFirst, ColInvAtFirst, ClockInvAtFirst
        DEF Init, PlanInv

LEMMA PlanInvAfterStep ==
  PlanInv /\ [Next]_<<active, depVars, colVars, clockVars, endVars>> => PlanInv'
<1> SUFFICES ASSUME PlanInv, [Next]_<<active, depVars, colVars, clockVars, endVars>>
             PROVE  PlanInv'
  OBVIOUS
<1>1. [DepNext]_depVars /\ [ColNext]_colVars /\ [ClockNext]_clockVars /\ [EndNext]_endVars
  BY Zenon DEF Next
<1>2. DepInv'
  BY <1>1, DepInvAfterStep DEF PlanInv
<1>3. ColInv'
  BY <1>1, ColInvAfterStep DEF PlanInv
<1>4. ClockInv'
  BY <1>1, ClockInvAfterStep DEF PlanInv
<1>5. EndInv'
  BY <1>1, TypesStep, RunBelongsStep, NoTablesStep, CopiedStep, CursorsStep, BulkStep
     DEF PlanInv, EndInv
<1> QED BY <1>2, <1>3, <1>4, <1>5 DEF PlanInv

\* Each part keeps its invariant while another is at work: they share no
\* state, as the code they stand for shares none.
THEOREM PlanInvariant == ASSUME CanStandStill PROVE Spec => []PlanInv
<1>1. Init => PlanInv
  BY PlanInvAtFirst
<1>2. PlanInv /\ [Next]_<<active, depVars, colVars, clockVars, endVars>> => PlanInv'
  BY PlanInvAfterStep
<1> QED BY <1>1, <1>2, PTL DEF Spec

\* The variables of the four parts keep their types.
THEOREM PlanTypeCorrect == ASSUME CanStandStill PROVE Spec => []PlanTypeOK
<1>1. PlanInv => PlanTypeOK
  <2>1. PlanInv => DepTypeOK /\ ColInv /\ ClockTypeOK /\ EndTypeOK
    BY DEF PlanInv, DepInv, ClockInv, EndInv, EndTypes
  <2> QED BY <2>1, ColInvGivesTypes DEF PlanTypeOK
<1> QED BY <1>1, PlanInvariant, PTL
=============================================================================
