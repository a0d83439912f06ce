--------------------------- MODULE ScheduleClock ---------------------------
(***************************************************************************)
(* When a scheduled synchronisation is due, and when the dashboard says it *)
(* will be (CronDue and NextCronRun in internal/jobs/schedule.go, the      *)
(* scheduler's loop in runner.go, enrichDashboard in internal/api).        *)
(*                                                                         *)
(* Time is counted in minutes of UTC.  The scheduler asks CronDue about    *)
(* local time; NextCronRun asks it about UTC.                              *)
(***************************************************************************)
EXTENDS Integers

CONSTANTS Expressions,  \* schedules that can be set
          Zones,        \* local time less UTC, in minutes
          LastMinute    \* bound: minutes the clock runs

Day == 24 * 60
Never == -1             \* nothing announced

ASSUME ClockAssumption ==
  /\ \A z \in Zones : z \in Int /\ -Day < z /\ z < Day
  /\ LastMinute \in Nat

VARIABLES
  expr,       \* app_settings.schedule_cron
  zone,       \* local time less UTC
  clock,      \* the minute it is
  announced,  \* the next run the dashboard shows, until it is reached
  due         \* whether the scheduler's last tick found the schedule due

clockVars == <<expr, zone, clock, announced, due>>

ClockTypeOK ==
  /\ expr \in Expressions /\ zone \in Zones
  /\ clock \in 0 .. LastMinute
  /\ announced \in {Never} \cup 0 .. LastMinute + Day
  /\ due \in BOOLEAN

\* Minutes between two runs; any other expression counts as every four hours.
Period(e) ==
  CASE e = "@every5min"   -> 5
    [] e = "@hourly"      -> 60
    [] e = "0 */6 * * *"  -> 6 * 60
    [] e = "0 */12 * * *" -> 12 * 60
    [] e = "@daily"       -> Day
    [] OTHER              -> 4 * 60

Hour(t)   == (t \div 60) % 24
Minute(t) == t % 60

CronDue(e, t) ==
  CASE e = "@every5min" -> Minute(t) % 5 = 0
    [] e = "@hourly"    -> Minute(t) = 0
    [] e = "@daily"     -> Hour(t) = 2 /\ Minute(t) = 0
    [] OTHER            -> Minute(t) = 0 /\ Hour(t) % (Period(e) \div 60) = 0

-----------------------------------------------------------------------------
ClockInit ==
  /\ expr \in Expressions /\ zone \in Zones
  /\ clock = 0 /\ announced = Never /\ due = FALSE

\* A minute passes and the scheduler looks at the local time.  The dashboard
\* shows a run until its minute has come.
Tick ==
  /\ clock < LastMinute
  /\ clock' = clock + 1
  /\ due' = CronDue(expr, clock' + zone)
  /\ announced' = IF announced <= clock' THEN Never ELSE announced
  /\ UNCHANGED <<expr, zone>>

\* A faulty variant: the search starts at this minute, not at the next.
NextCronRun_FromNow(e, now) ==
  CHOOSE t \in now .. now + Day : CronDue(e, t) /\ \A u \in now .. t - 1 : ~ CronDue(e, u)

\* The search ends within a day.
NextCronRun(e, now) ==
  CHOOSE t \in now + 1 .. now + Day :
    CronDue(e, t) /\ \A u \in now + 1 .. t - 1 : ~ CronDue(e, u)

Announce ==
  /\ announced' = NextCronRun(expr, clock)
  /\ UNCHANGED <<expr, zone, clock, due>>

\* Summer time begins or ends.
ChangeZone ==
  /\ \E z \in Zones : zone' = z
  /\ UNCHANGED <<expr, clock, announced, due>>

ClockNext == Tick \/ Announce \/ ChangeZone
ClockSpec == ClockInit /\ [][ClockNext]_clockVars

-----------------------------------------------------------------------------
\* Up to the announced minute the scheduler finds the schedule due at that
\* minute and at no other, as long as local time and UTC differ by a multiple
\* of the period.  (A run at 2:00 local time is otherwise announced for 2:00
\* UTC, one every four hours in India at half past.)
AnnouncedIsReal ==
  [][clock' # clock /\ announced # Never /\ zone % Period(expr) = 0 =>
       clock' <= announced /\ (due' <=> clock' = announced)]_clockVars
=============================================================================
