-------------------------- MODULE AutomationSchedule --------------------------
(***************************************************************************)
(* When an automation fires (src/src/ash/automation/schedules.py).  Times  *)
(* are whole numbers: the code computes in seconds with microseconds.      *)
(*                                                                         *)
(* A schedule is a single instant, a fixed interval counted from an        *)
(* anchor, or a cron expression, of which croniter (a library) enumerates  *)
(* the instants: fires is the set of those instants.                       *)
(***************************************************************************)
EXTENDS Integers

\* The value of next_fire_time when there is none, a NULL next_run_at.
NoTime == -1

At    == [kind : {"at"}, at : Nat]
Every == [kind : {"every"}, anchor : Nat, seconds : Nat \ {0}]
Cron  == [kind : {"cron"}, fires : SUBSET Nat]

ScheduleSpec == At \cup Every \cup Cron

\* The first of a set of instants after a given one.
IsFirstAfter(fires, after, t) ==
  /\ t \in fires
  /\ t > after
  /\ \A u \in fires : u > after => t <= u

\* The schedule has a fire time after t.  build_schedule and _next_cron
\* refuse a cron expression without one; an interval always has one.
FiresAfter(spec, t) ==
  spec.kind = "cron" => \E u \in spec.fires : IsFirstAfter(spec.fires, t, u)

\* _next_interval.  An interval fires at its anchor plus a whole, positive
\* number of intervals.
NextInterval(anchor, seconds, now) ==
  LET elapsed == IF now > anchor THEN now - anchor ELSE 0
      steps   == elapsed \div seconds + 1
  IN anchor + steps * seconds

\* Variant: an instant counts as the next one after itself.
NextCronFrom(fires, after) ==
  CHOOSE t \in fires : t >= after /\ \A u \in fires : u >= after => t <= u

\* _next_cron: the first instant after a given one.
NextCron(fires, after) ==
  CHOOSE t \in fires : IsFirstAfter(fires, after, t)

FirstFireTime(spec, now) ==
  CASE spec.kind = "at"    -> spec.at
    [] spec.kind = "every" -> NextInterval(spec.anchor, spec.seconds, now)
    [] spec.kind = "cron"  -> NextCron(spec.fires, now)

\* Variant: the schedule advances by one occurrence, missed or not.
NextFireOneByOne(spec, previous, now) ==
  CASE spec.kind = "at"    -> NoTime
    [] spec.kind = "every" -> NextInterval(spec.anchor, spec.seconds, previous)
    [] spec.kind = "cron"  -> NextCron(spec.fires, previous)

NextFireTime(spec, previous, now) ==
  CASE spec.kind = "at"    -> NoTime
    [] spec.kind = "every" -> NextInterval(spec.anchor, spec.seconds, now)
    [] spec.kind = "cron"  ->
         NextCron(spec.fires, IF previous > now THEN previous ELSE now)
==============================================================================
