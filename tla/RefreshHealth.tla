--------------------------- MODULE RefreshHealth ---------------------------
(***************************************************************************)
(* Whether a page's refresh is healthy (internal/versions,                *)
(* refreshhealth.go): a schedule of fires on the page, the stamps of its  *)
(* versions, the last recorded check, and the verdict read from them.     *)
(* One page; a time is a small number, 0 where none is stored.            *)
(***************************************************************************)
EXTENDS Integers, Sequences, FiniteSets

CONSTANTS Schedules,      \* the fires of each schedule a page may have
          RefreshGrace, RefreshEarly, RefreshStaleSlack,
          Week,           \* the window of MaxGap
          UnscheduledStaleAfter,
          MaxTime,        \* bound
          MaxEvents,      \* bound: the schedule's fires and the page's versions
          MaxWait         \* bound: how long a call may wait for the page's lock

VARIABLES
  now,
  fires,    \* when the page's schedule fires
  page,     \* its schedule, gate and live version
  rows,     \* its versions
  check,    \* the last recorded check
  waiting,  \* a check whose transaction has not begun
  newest    \* the time of the newest check recorded so far

healthVars == <<now, fires, page, rows, check, waiting, newest>>

Epoch   == -1       \* source_as_of of a page created without data
Created == 1        \* when the page was
Times   == 0..MaxTime
Checks  == [at : Times, failed : BOOLEAN]
\* created: when the transaction that wrote it began. run: a refresh wrote it.
Rows    == [created : Times, refreshed : Times, source : {Epoch} \cup Times, run : BOOLEAN]
NoRow   == [created |-> Created, refreshed |-> 0, source |-> 0, run |-> FALSE]

HealthTypeOK ==
  /\ now \in Times
  /\ fires \in Schedules
  /\ rows \in Seq(Rows)
  /\ page \in [scheduled : BOOLEAN, gated : BOOLEAN, live : 0..Len(rows)]
  /\ check \in Checks /\ waiting \in Checks /\ newest \in Times

---------------------------------------------------------------------------
(* The schedule.                                                           *)

Latest(S) == IF S = {} THEN 0 ELSE CHOOSE t \in S : \A u \in S : u <= t
Soonest(S) == IF S = {} THEN 0 ELSE CHOOSE t \in S : \A u \in S : t <= u

Prev(t) == Latest({f \in fires : f <= t})
Next(t) == Soonest({f \in fires : f > t})

earlyTolerance_Uncapped(fire) == RefreshEarly
earlyTolerance(fire) ==
  LET prev == Prev(fire - 1)
      half == (fire - prev) \div 2
  IN IF prev # 0 /\ half < RefreshEarly THEN half ELSE RefreshEarly

covers(a, fire) == a # 0 /\ a >= fire - earlyTolerance(fire)

\* The longest interval between consecutive fires of the week that ends now,
\* or the one before the latest fire when there is no other.
MaxGap ==
  LET later == {f \in fires : f <= now /\ Prev(f - 1) # 0 /\ (f = Prev(now) \/ f > now - Week)}
  IN Latest({f - Prev(f - 1) : f \in later})

firstMissed(a, due) ==
  LET f == IF Next(a) # 0 /\ covers(a, Next(a)) THEN Next(Next(a)) ELSE Next(a)
  IN IF f = 0 \/ f > due THEN due ELSE f

---------------------------------------------------------------------------
(* The verdict.                                                            *)

Live == IF page.live = 0 THEN NoRow ELSE rows[page.live]

\* The stamp of the newest version that carries one, whatever its status: by
\* created_at, then by id.
NewestRefreshAt ==
  LET stamped == {i \in DOMAIN rows : rows[i].refreshed # 0}
      last    == Latest({rows[i].created : i \in stamped})
  IN IF stamped = {} THEN 0 ELSE rows[Latest({i \in stamped : rows[i].created = last})].refreshed

Verdict(health, since) == [health |-> health, since |-> since, stale |-> FALSE]

HealthOf ==
  LET lastRefresh == Latest({Live.refreshed, NewestRefreshAt})
      activity == Latest({lastRefresh, check.at})
      source   == IF Live.source = Epoch THEN 0 ELSE Live.source
      due      == Prev(now - RefreshGrace)
      quiet    == IF Live.source = Epoch THEN Created ELSE source
  IN CASE ~page.scheduled ->
            [Verdict("unscheduled", 0) EXCEPT
               !.stale = page.live # 0 /\ source # 0 /\ now - source > UnscheduledStaleAfter]
       [] page.scheduled /\ check.at # 0 /\ lastRefresh <= check.at /\ check.failed ->
            Verdict("blocked", check.at)
       [] OTHER ->
            CASE due # 0 /\ activity # 0 /\ ~covers(activity, due) -> Verdict("overdue", firstMissed(activity, due))
              [] due # 0 /\ activity = 0 /\ Created < due -> Verdict("overdue", Soonest({due, Next(Created)}))
              [] OTHER ->
                   IF quiet # 0 /\ MaxGap # 0 /\ now - quiet > MaxGap + RefreshStaleSlack THEN Verdict("source_stale", quiet)
                   ELSE Verdict("ok", 0)

---------------------------------------------------------------------------
(* What happens to the page.                                               *)

\* A page is created bare, with plain HTML, or from a template without data.
HealthInit ==
  /\ now = Created /\ fires \in Schedules
  /\ check = [at |-> 0, failed |-> FALSE] /\ waiting = check
  /\ newest = 0
  /\ rows \in {<<>>, <<NoRow>>, <<[created |-> Created, refreshed |-> Created, source |-> Epoch, run |-> TRUE]>>}
  /\ \E scheduled, gated \in BOOLEAN :
        page = [scheduled |-> scheduled, gated |-> gated, live |-> Len(rows)]

HealthTick ==
  /\ now < MaxTime /\ \E f \in fires : now <= f
  /\ (waiting.at # 0 => now < waiting.at + MaxWait)
  /\ now' = now + 1
  /\ UNCHANGED <<fires, page, rows, check, waiting, newest>>

\* A call reads the clock, begins its transaction, and waits for the page's
\* lock.
Begun == {t \in Times : t >= Created /\ t <= now /\ now - t <= MaxWait}

\* A version that publishes, unless the page is gated.
Insert(row, publish) ==
  /\ Cardinality(fires) + Len(rows) < MaxEvents
  /\ rows' = Append(rows, row)
  /\ page' = IF publish /\ ~page.gated THEN [page EXCEPT !.live = Len(rows) + 1] ELSE page

\* update_page_data on a managed page, not behind any version's coverage.
RefreshData(begun, source, publish) ==
  /\ page.live # 0 /\ Live.refreshed # 0
  /\ \A i \in DOMAIN rows : rows[i].source <= source
  /\ Insert([created |-> begun, refreshed |-> begun, source |-> source, run |-> TRUE], publish)
  /\ UNCHANGED <<now, fires, check, waiting, newest>>

\* A config edit keeps the live version's data and stamps.
EditConfig(begun) ==
  /\ page.live # 0 /\ Live.refreshed # 0
  /\ Insert([Live EXCEPT !.created = begun, !.run = FALSE], TRUE)
  /\ UNCHANGED <<now, fires, check, waiting, newest>>

\* A publish, an approval or a rollback.
PointAt(v) ==
  /\ v # page.live
  /\ page' = [page EXCEPT !.live = v]
  /\ UNCHANGED <<now, fires, rows, check, waiting, newest>>

\* record_refresh_check reads the clock before it waits for the page's lock.
StartCheck(failed) ==
  /\ MaxWait > 0 /\ waiting.at = 0
  /\ waiting' = [at |-> now, failed |-> failed]
  /\ UNCHANGED <<now, fires, page, rows, check, newest>>

RecordRefreshCheck(c) ==
  /\ check' = c
  /\ newest' = Latest({newest, c.at})
  /\ UNCHANGED <<now, fires, page, rows>>

CheckAtOnce(failed) == RecordRefreshCheck([at |-> now, failed |-> failed]) /\ UNCHANGED waiting
FinishCheck == waiting.at # 0 /\ RecordRefreshCheck(waiting) /\ waiting' = [at |-> 0, failed |-> FALSE]

SetRefreshSchedule ==
  /\ page' = [page EXCEPT !.scheduled = ~@]
  /\ UNCHANGED <<now, fires, rows, check, waiting, newest>>

SetGate ==
  /\ page' = [page EXCEPT !.gated = ~@]
  /\ UNCHANGED <<now, fires, rows, check, waiting, newest>>

HealthNext ==
  \/ HealthTick
  \/ \E begun \in Begun, source \in Times, publish \in BOOLEAN : source \in {1, begun} /\ RefreshData(begun, source, publish)
  \/ \E begun \in Begun : EditConfig(begun)
  \/ \E v \in DOMAIN rows : PointAt(v)
  \/ \E failed \in BOOLEAN : StartCheck(failed)
  \/ \E failed \in BOOLEAN : CheckAtOnce(failed)
  \/ FinishCheck
  \/ SetRefreshSchedule
  \/ SetGate

HealthSpec == HealthInit /\ [][HealthNext]_healthVars

---------------------------------------------------------------------------
(* Properties.                                                             *)

\* The latest fire whose grace has passed, and the earliest run that answers
\* a fire: at most RefreshEarly before it, and never halfway to the one before.
Due == Latest({f \in fires : f + RefreshGrace <= now})
Answering(fire) ==
  {t \in Times : /\ t >= fire - RefreshEarly
                 /\ \A f \in fires : f < fire => 2 * t >= f + fire}

\* The refreshes and checks that happened, and those the stored columns no
\* longer show: a refresh under a newer version with an older stamp, or a
\* check overwritten by an older one.
Runs == {rows[i].refreshed : i \in {j \in DOMAIN rows : rows[j].run}} \cup ({newest} \ {0})
Newer(w, i) == rows[w].created > rows[i].created \/ (rows[w].created = rows[i].created /\ w > i)
Hidden(t) ==
  /\ check.at < t
  /\ \A i \in DOMAIN rows : rows[i].run /\ rows[i].refreshed >= t =>
        \E w \in DOMAIN rows : Newer(w, i) /\ rows[w].refreshed # 0 /\ rows[w].refreshed < t

\* HealthOf: a scheduled page whose due fire was answered by a run that can
\* still be seen is not overdue, and one whose fire nothing answered is not
\* passed over.
OverdueTruthful ==
  page.scheduled /\ Due > Created =>
    LET answers == Runs \cap Answering(Due)
    IN /\ HealthOf.health = "overdue" => \A t \in answers : Hidden(t)
       /\ answers = {} => HealthOf.health \in {"overdue", "blocked"}

\* health_since of an overdue page is its first fire that no visible run
\* answered, however irregular the schedule is (firstMissed).
SinceFirstMissed ==
  HealthOf.health = "overdue" =>
    LET visible == {t \in {Live.refreshed, NewestRefreshAt, check.at} : t # 0}
        missed == {f \in fires : f > Created /\ \A t \in visible : t < f /\ t \notin Answering(f)}
    IN HealthOf.since = Soonest(missed)

\* The rule as refreshhealth.go words it: overdue means that a fire passed
\* and nothing happened since, no refresh on any version and no recorded check.
RuleThree ==
  HealthOf.health = "overdue" => Runs \cap Answering(Due) = {}
=============================================================================
