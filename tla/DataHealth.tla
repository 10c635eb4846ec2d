-------------------------------- MODULE DataHealth --------------------------------
(***************************************************************************)
(* The state of the data the admin page shows: per source the newest       *)
(* observation against the date it should have by now.  Days are numbered  *)
(* from a Thursday, day 1; a day is 0 where there is none.  The page gives *)
(* no closed dates, so every weekday is a business day.                    *)
(***************************************************************************)
EXTENDS Integers, FiniteSets

\* 0 is Sunday.
Weekday(d) == (d + 3) % 7

IsBusinessDay(d) == Weekday(d) \notin {0, 6}

BusinessDays(first, last) == {d \in first..last : IsBusinessDay(d)}

\* A defect: days are counted whatever day of the week they are.
PreviousDay(today, count) == today - count

PreviousBusinessDay(today, count) ==
  CHOOSE d \in (today - 3 * count - 2)..(today - 1) :
    IsBusinessDay(d) /\ Cardinality(BusinessDays(d, today - 1)) = count

\* The Thursday that ended the newest week Opinet has published: on Thursday
\* and on Friday morning that is still the week before.
ExpectedWeeklyDate(today, afternoon) ==
  LET since == (Weekday(today) + 3) % 7
  IN  IF since = 0 \/ (Weekday(today) = 5 /\ ~afternoon)
        THEN today - since - 7 ELSE today - since

\* The states a source can be in.
HealthStatus(collection, latest, expected) ==
  CASE collection = "failed" -> "error"
    [] collection # "failed" /\ latest = 0 -> "missing"
    [] collection # "failed" /\ latest # 0 /\ latest < expected -> "delayed"
    [] OTHER -> "healthy"

\* By how many business days a source is late.
DelayInDays(latest, expected) ==
  LET days == Cardinality(BusinessDays(latest + 1, expected))
  IN  IF days < 1 THEN 1 ELSE days

\* The worst of the sources, errors first.
Summary(statuses) ==
  CASE "error" \in statuses -> "error"
    [] "error" \notin statuses /\ "delayed" \in statuses -> "delayed"
    [] statuses \intersect {"error", "delayed"} = {} /\ "missing" \in statuses -> "missing"
    [] OTHER -> "healthy"
=============================================================================
