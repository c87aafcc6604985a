------------------------------ MODULE MCPolling ------------------------------
(***************************************************************************)
(* Two components in one run: the loop every poller is (RetryPolicy), and   *)
(* what is seen of the loops from outside, the health snapshots and the     *)
(* report of uptime (Health). They share no state, so a behaviour is one of *)
(* the one or one of the other, as part says, and the rest stands still.    *)
(***************************************************************************)
EXTENDS MCRetryPolicy

CONSTANTS
  Kinds, Interval, Day, Window, KeepDays, FetchWait, MaxVerdictAge, MaxNow, MaxFaults

VARIABLES part, kind, now, poller, run, store, taken, down, starts, fetched, faults

loop == vars
health == <<kind, now, poller, run, store, taken, down, starts, fetched, faults>>

H == INSTANCE Health

ASSUME HealthConstants == H!HealthAssumption

\* The part that stands still starts in one of its states: any one will do.
MCInit ==
  /\ Init /\ H!Init
  /\ \/ part = "loop" /\ kind = CHOOSE k \in Kinds : TRUE
     \/ /\ part = "health"
        /\ source = CHOOSE s \in Sources : TRUE
        /\ policy = NewPolicy(1, 1, 1)

MCNext ==
  \/ part = "loop" /\ Next /\ UNCHANGED <<part, health>>
  \/ part = "health" /\ H!Next /\ UNCHANGED <<part, loop>>

allVars == <<part, loop, health>>

\* The fairness of FairSpec.
MCSpec ==
  /\ MCInit /\ [][MCNext]_allVars
  /\ WF_allVars(part = "loop" /\ Elapse /\ UNCHANGED <<part, health>>)
  /\ WF_allVars(part = "loop" /\ (Poll \/ Skip) /\ UNCHANGED <<part, health>>)
  /\ WF_allVars(part = "loop" /\ Retry /\ UNCHANGED <<part, health>>)
  /\ WF_allVars(part = "loop" /\ TimesOut /\ UNCHANGED <<part, health>>)

\* Whatever the source answers, and if it never does, a next cycle begins (the loops of
\* poller.rs, retry::run).
LoopForever == part = "loop" => PollsForever

\* A past day that is shown as operational was run through, but for the hundredth part the
\* status allows, an interval and one more for each start of the process (uptime_report).
DowntimeShows == H!DowntimeShows

\* What the retention removed changes no day of the report (purge_expired, uptime_by_day).
PastDaysStand == H!PastDaysStand

\* When the status page says that alerts are operational, a fetch begun within the limit
\* brought a file with a recent product (poll_liveness, poll_alerts).
OperationalWasChecked == H!OperationalWasChecked
=============================================================================
