------------------------------- MODULE Health -------------------------------
(***************************************************************************)
(* Health snapshots and the report of ninety days of uptime: poll_health    *)
(* and poll_alerts of poller.rs, health_snapshots of db.rs, and the health  *)
(* and uptime handlers of routes.rs.                                        *)
(*                                                                         *)
(* A behaviour follows one component of health_components, sampled by the   *)
(* poller that writes it. What an outage leaves is the absence of samples,  *)
(* so the report stands on what ought to be there: the rows the retention   *)
(* left, the first of them, and the clock.                                  *)
(***************************************************************************)
EXTENDS Integers, FiniteSets, FiniteSetsExt

CONSTANTS
  Kinds,          \* the kinds of component a behaviour may follow
  Interval,       \* HEALTH_INTERVAL, in steps of the clock
  Day,            \* a UTC day, in steps of the clock
  Window,         \* DAYS of the report
  KeepDays,       \* keep_days of health_snapshots in RETENTION
  FetchWait,      \* longest fetch of the alerts, with its retries
  MaxVerdictAge,  \* max_verdict_age_secs of POLL_LIVENESS
  MaxNow,         \* bound: steps of the clock
  MaxFaults       \* bound: stops, dropped writes, bad samples and slow fetches

HealthAssumption ==
  /\ {FetchWait, MaxVerdictAge, MaxNow, MaxFaults} \subseteq Nat
  /\ {Interval, Day, Window, KeepDays} \subseteq Nat \ {0}
  /\ Window < KeepDays /\ Interval <= Day
  /\ Kinds \subseteq {"liveness", "health", "verdict"}

VARIABLES
  kind,     \* LIVENESS_ONLY, sampled by poll_health, or the verdict of poll_alerts
  now,      \* the clock
  poller,   \* the poll task
  run,      \* how often the process was started
  store,    \* health_snapshots
  taken,    \* history: every row that was ever written
  down,     \* history: the steps of the clock the process did not run in
  starts,   \* history: when the process was started, and which start it was
  fetched,  \* history: when the last fetch of the alerts that succeeded was begun
  faults    \* faults so far

vars == <<kind, now, poller, run, store, taken, down, starts, fetched, faults>>

Down == [at |-> "down"]

\* The start of the process stands for the second within a step of the clock, so that
\* the samples of two starts are two rows.
Samples == [ts : 0..MaxNow, run : Nat, ok : BOOLEAN]

TypeOK ==
  /\ kind \in Kinds /\ now \in 0..MaxNow /\ run \in 1..MaxFaults + 1
  /\ poller \in {Down} \cup [at : {"sleeping"}, until : 0..MaxNow + Interval]
                       \cup [at : {"probing"}, since : 0..MaxNow]
  /\ store \subseteq taken /\ taken \subseteq Samples
  /\ down \subseteq 0..MaxNow /\ starts \subseteq (0..MaxNow) \X (1..MaxFaults + 1)
  /\ fetched \in -1..MaxNow /\ faults \in 0..MaxFaults

Init ==
  /\ kind \in Kinds /\ now = 0 /\ run = 1
  /\ poller = [at |-> "sleeping", until |-> 0]
  /\ store = {} /\ taken = {} /\ down = {} /\ starts = {<<0, 1>>}
  /\ fetched = -1 /\ faults = 0

-----------------------------------------------------------------------------
(* The poll task                                                             *)

\* The time of the sample is that of the start of the cycle.
Probe ==
  /\ poller.at = "sleeping" /\ poller.until <= now
  /\ poller' = [at |-> "probing", since |-> now]
  /\ UNCHANGED <<kind, now, run, store, taken, down, starts, fetched, faults>>

\* insert_health_snapshot: a row of the same component and second is kept.
Insert(ok) ==
  LET s == [ts |-> poller.since, run |-> run, ok |-> ok]
  IN /\ store' = store \cup {s}
     /\ taken' = taken \cup {s}

Sleeps == poller' = [at |-> "sleeping", until |-> now + Interval]

\* health_samples and the verdict of poll_alerts: written every cycle, whatever it found.
\* A component that is only alive writes no verdict.
Sampled ==
  /\ poller.at = "probing"
  /\ Insert(TRUE)
  /\ fetched' = IF kind = "verdict" THEN poller.since ELSE fetched
  /\ Sleeps
  /\ UNCHANGED <<kind, now, run, down, starts, faults>>

SampledBad ==
  /\ poller.at = "probing" /\ kind # "liveness"
  /\ faults < MaxFaults /\ faults' = faults + 1
  /\ Insert(FALSE)
  /\ Sleeps
  /\ UNCHANGED <<kind, now, run, down, starts, fetched>>

\* The write meets a full channel.
SampleDropped ==
  /\ poller.at = "probing"
  /\ faults < MaxFaults /\ faults' = faults + 1
  /\ Sleeps
  /\ UNCHANGED <<kind, now, run, store, taken, down, starts, fetched>>

\* Mutant of Purge: the table keeps what the report shows and no more.
PurgeToWindow ==
  /\ store' = {s \in store : s.ts >= now - Window * Day}
  /\ UNCHANGED <<kind, now, poller, run, taken, down, starts, fetched, faults>>

\* purge_expired.
Purge ==
  /\ store' = {s \in store : s.ts >= now - KeepDays * Day}
  /\ UNCHANGED <<kind, now, poller, run, taken, down, starts, fetched, faults>>

-----------------------------------------------------------------------------
(* The rest of the world                                                     *)

Stop ==
  /\ poller # Down
  /\ faults < MaxFaults /\ faults' = faults + 1
  /\ poller' = Down
  /\ UNCHANGED <<kind, now, run, store, taken, down, starts, fetched>>

Start ==
  /\ poller = Down
  /\ run' = run + 1
  /\ starts' = starts \cup {<<now, run + 1>>}
  /\ poller' = [at |-> "sleeping", until |-> now]
  /\ UNCHANGED <<kind, now, store, taken, down, fetched, faults>>

\* A sleep ends in its step of the clock, a probe of the sidecar in the one it began in,
\* and a fetch of the alerts when its budget is spent.
Tick ==
  /\ now < MaxNow
  /\ poller.at = "sleeping" => now < poller.until
  /\ poller.at = "probing" =>
       kind = "verdict" /\ now - poller.since < FetchWait /\ faults < MaxFaults
  /\ faults' = IF poller.at = "probing" THEN faults + 1 ELSE faults
  /\ down' = IF poller = Down THEN down \cup {now} ELSE down
  /\ now' = now + 1
  /\ UNCHANGED <<kind, poller, run, store, taken, starts, fetched>>

Next ==
  \/ Probe \/ Sampled \/ SampledBad \/ SampleDropped \/ Purge
  \/ Stop \/ Start \/ Tick

Spec == Init /\ [][Next]_vars

-----------------------------------------------------------------------------
(* The report                                                                *)

DayOf(t) == t \div Day
Days == {d \in 0..DayOf(now) : d > DayOf(now) - Window}

\* health_first_sample.
FirstOf(S) == Min({s.ts : s \in S})

\* The part of the day after the first sample and before now, over the interval.
SamplesDue(S, d) ==
  LET from == Max({d * Day, FirstOf(S)})
      to == Min({(d + 1) * Day, now})
  IN IF to <= from THEN 0 ELSE (to - from) \div Interval

\* uptime_by_day: the rows of a day, of those of the last Window days of seconds.
Present(S, d) == {s \in S : DayOf(s.ts) = d /\ s.ts >= now - Window * Day}

\* Mutant of Due: the samples that are there, as the report once had it.
DueIfPresent(S, d) == IF S = {} THEN 0 ELSE Cardinality(Present(S, d))

Due(S, d) == IF S = {} THEN 0 ELSE SamplesDue(S, d)

Operational(S, d) ==
  Cardinality({s \in Present(S, d) : kind = "liveness" \/ s.ok})

\* uptime_report: one day's cell, "no_data" when nothing was due.
Status(S, d) ==
  LET due == Due(S, d)
      ok == Operational(S, d)
  IN IF due = 0 THEN "no_data"
     ELSE IF 100 * ok >= 99 * due THEN "operational"
     ELSE IF 100 * ok >= 90 * due THEN "degraded" ELSE "outage"

Newest(S) == {s \in S : \A q \in S : q.ts < s.ts \/ (q.ts = s.ts /\ q.run <= s.run)}

\* Mutant of PollLiveness: the newest verdict, however old.
VerdictOfAnyAge ==
  IF store = {} THEN "unknown"
  ELSE IF \E s \in Newest(store) : s.ok THEN "operational" ELSE "degraded"

\* poll_liveness: a verdict that is older than its limit is a fault.
PollLiveness ==
  IF store = {} THEN "unknown"
  ELSE IF \E s \in Newest(store) : s.ok /\ now - s.ts <= MaxVerdictAge
    THEN "operational" ELSE "degraded"

-----------------------------------------------------------------------------
(* Properties                                                                *)

Up(d) == Cardinality({t \in d * Day..((d + 1) * Day - 1) : t \notin down})
Starts(d) == Cardinality({s \in starts : DayOf(s[1]) = d})

\* A past day that is shown as operational was run through, but for the hundredth part the
\* status allows, an interval and one more for each time the process was started that day:
\* its absence is what an outage is seen by, and samples a restart adds can stand in for no
\* more than that.
DowntimeShows ==
  \A d \in Days \ {DayOf(now)} :
    Status(store, d) = "operational" =>
      99 * (SamplesDue(store, d) * Interval) <= 100 * (Up(d) + Interval * (1 + Starts(d)))

\* The report of what the retention left is that of all that was ever written, day by
\* day, as long as the component was heard of between the edge of the retention and that
\* of the report, or is younger than the report.
PastDaysStand ==
  LET edge == Min(Days) * Day
  IN (\/ \E s \in taken : s.ts >= now - KeepDays * Day /\ s.ts <= edge
      \/ \A s \in taken : s.ts > edge) =>
       \A d \in Days : Status(store, d) = Status(taken, d)

\* When the status page says that alerts are operational, a fetch begun no longer than the
\* limit ago brought a file with a recent product, across drops, failures and stops.
OperationalWasChecked ==
  kind = "verdict" /\ PollLiveness = "operational" =>
    fetched >= 0 /\ now - fetched <= MaxVerdictAge
=============================================================================
