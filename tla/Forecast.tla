------------------------------ MODULE Forecast ------------------------------
(***************************************************************************)
(* The Kp forecast and the response cache in front of it: call_ml_or_cached *)
(* and cached of routes.rs, poll_forecast of poller.rs, the forecasts of    *)
(* db.rs, and the ML sidecar they ask.                                      *)
(*                                                                         *)
(* A handler and the poller go through the same three awaits: how long an   *)
(* input the model wants, the newest readings, the prediction. Between them *)
(* the clock moves, the sidecar is retrained or goes away and the series    *)
(* grows; nothing holds a lock across two of them.                          *)
(***************************************************************************)
EXTENDS Integers, FiniteSets, FiniteSetsExt, Sequences

CONSTANTS
  Requests,     \* requests for the forecast, signed in or public: they share a key
  Poller,       \* the poll task
  Nothing,      \* no entry, no answer yet
  Horizons,     \* FORECAST_HORIZONS
  Lengths,      \* input lengths a checkpoint may want
  MaxAge,       \* max_age_secs of kp_3h
  Ttl,          \* how long an entry of the cache is served
  RequestWait,  \* longest wait of a handler for the sidecar
  PollerWait,   \* longest wait of the poll task, with its retries
  QueueCap,     \* room in the writer's channel
  MaxNow,       \* bound: steps of the clock
  MaxUpsets     \* bound: times the checkpoint changes or the process restarts

Tasks == Requests \cup {Poller}

ForecastAssumption ==
  /\ {MaxAge, Ttl, RequestWait, PollerWait, QueueCap, MaxNow, MaxUpsets} \subseteq Nat
  /\ Lengths \subseteq Nat \ {0} /\ IsFiniteSet(Lengths) /\ Lengths # {}
  /\ Horizons # {} /\ Poller \notin Requests

VARIABLES
  now,       \* the clock
  newest,    \* the newest period of kp_3h
  have,      \* how many periods kp_3h has
  well,      \* the sidecar is; if not it answers in part, with a 5xx or not at all
  wants,     \* seq_len of the loaded checkpoint
  upsets,    \* how often the checkpoint was changed or the process restarted
  task,      \* where a handler or the poller stands
  entry,     \* the cache under "kp-forecast"
  queue,     \* the writer's commands
  issues     \* kp_forecast: the rows of the newest issue; no task reads an older one

vars == <<now, newest, have, well, wants, upsets, task, entry, queue, issues>>

Idle == [at |-> "idle"]

Payloads == [obs : 0..MaxNow, given : Lengths, model : Lengths]

TypeOK ==
  /\ now \in 0..MaxNow /\ newest \in 0..now
  /\ have \in 1..Max(Lengths) /\ wants \in Lengths
  /\ well \in BOOLEAN /\ upsets \in 0..MaxUpsets
  /\ \A t \in Tasks :
       task[t] \in {Idle} \cup [at : {"sized"}, n : Lengths]
                   \cup [at : {"asking"}, n : Lengths, obs : 0..MaxNow, since : 0..MaxNow]
  /\ entry \in {Nothing} \cup [stamp : 0..MaxNow, obs : 0..MaxNow \cup {Nothing}]
  /\ queue \in Seq([at : 0..MaxNow, said : Payloads]) /\ Len(queue) <= QueueCap
  /\ issues \subseteq [at : 0..MaxNow, h : Horizons, said : Payloads]

Init ==
  /\ now = 0 /\ newest = 0 /\ have = Min(Lengths)
  /\ well = TRUE /\ wants = Min(Lengths) /\ upsets = 0
  /\ task = [t \in Tasks |-> Idle]
  /\ entry = Nothing /\ queue = <<>> /\ issues = {}

-----------------------------------------------------------------------------
(* What the tasks call                                                       *)

\* get_recent_kp_3h: a series that is short or has gone quiet is an error.
RecentKp3h(n) == have >= n /\ now - newest <= MaxAge

\* Mutant of Predicts: the window is padded, as the sidecar once did.
Pads(n) == well

\* /predict: a window shorter than the checkpoint wants is refused.
Predicts(n) == well /\ n >= wants

Said(t) == [obs |-> task[t].obs, given |-> task[t].n, model |-> wants]

\* A command for a full channel is dropped.
Fire(said) ==
  IF Len(queue) < QueueCap
    THEN Append(queue, [at |-> now, said |-> said])
    ELSE queue

\* get_kp_forecast_latest: the head of the newest issue, of any age.
Latest == {i \in issues : i.h = Min(Horizons)}

Goes(t, where) == task' = [task EXCEPT ![t] = where]

-----------------------------------------------------------------------------
(* The tasks                                                                 *)

\* Mutant of Hit: a hit renews the entry.
HitRenews(r) ==
  /\ task[r] = Idle
  /\ entry # Nothing /\ now - entry.stamp < Ttl
  /\ entry' = [entry EXCEPT !.stamp = now]
  /\ UNCHANGED <<now, newest, have, well, wants, upsets, task, queue, issues>>

\* cached: an entry that is young enough is the answer.
Hit(r) ==
  /\ task[r] = Idle
  /\ entry # Nothing /\ now - entry.stamp < Ttl
  /\ UNCHANGED vars

\* cached and ml_seq_len: the lock on the cache is given up for the fetch. A request
\* whose sidecar does not say is told so, and nothing changes.
Miss(r) ==
  /\ task[r] = Idle
  /\ entry # Nothing => now - entry.stamp >= Ttl
  /\ Goes(r, [at |-> "sized", n |-> wants])
  /\ UNCHANGED <<now, newest, have, well, wants, upsets, entry, queue, issues>>

\* Mutant of PollSized: the length is asked for once, when the task starts.
PollSizedOnce ==
  /\ task[Poller] = Idle
  /\ Goes(Poller, [at |-> "sized", n |-> Min(Lengths)])
  /\ UNCHANGED <<now, newest, have, well, wants, upsets, entry, queue, issues>>

\* poll_forecast: every cycle begins by asking for the length.
PollSized ==
  /\ task[Poller] = Idle
  /\ Goes(Poller, [at |-> "sized", n |-> wants])
  /\ UNCHANGED <<now, newest, have, well, wants, upsets, entry, queue, issues>>

\* The readings are read under the lock and asked about without it; 503 otherwise.
ReadSeries(t) ==
  /\ task[t].at = "sized"
  /\ Goes(t, IF RecentKp3h(task[t].n)
               THEN [at |-> "asking", n |-> task[t].n, obs |-> newest, since |-> now]
               ELSE Idle)
  /\ UNCHANGED <<now, newest, have, well, wants, upsets, entry, queue, issues>>

\* The entry is stamped when the answer comes, over whatever a faster fetch left there.
Answered(r) ==
  /\ task[r].at = "asking" /\ Predicts(task[r].n)
  /\ queue' = Fire(Said(r))
  /\ entry' = [stamp |-> now, obs |-> task[r].obs]
  /\ Goes(r, Idle)
  /\ UNCHANGED <<now, newest, have, well, wants, upsets, issues>>

\* A payload without every horizon is served and not stored: from_predict_payload.
AnsweredInPart(r) ==
  /\ task[r].at = "asking" /\ ~well
  /\ entry' = [stamp |-> now, obs |-> task[r].obs]
  /\ Goes(r, Idle)
  /\ UNCHANGED <<now, newest, have, well, wants, upsets, queue, issues>>

\* ml_cache_fallback: the last stored forecast, labelled degraded, or an error, which
\* is not cached.
FallsBack(r) ==
  /\ task[r].at = "asking" /\ ~Predicts(task[r].n)
  /\ entry' = IF Latest = {} THEN entry ELSE [stamp |-> now, obs |-> Nothing]
  /\ Goes(r, Idle)
  /\ UNCHANGED <<now, newest, have, well, wants, upsets, queue, issues>>

PollAnswered ==
  /\ task[Poller].at = "asking" /\ Predicts(task[Poller].n)
  /\ queue' = Fire(Said(Poller))
  /\ Goes(Poller, Idle)
  /\ UNCHANGED <<now, newest, have, well, wants, upsets, entry, issues>>

\* The retries are spent, or the sidecar answered with a status, which ends the cycle:
\* the status is looked at after the loop of retries and not in it.
PollGivesUp ==
  /\ task[Poller].at = "asking" /\ ~Predicts(task[Poller].n)
  /\ Goes(Poller, Idle)
  /\ UNCHANGED <<now, newest, have, well, wants, upsets, entry, queue, issues>>

RowsOf(c) == {[at |-> c.at, h |-> h, said |-> c.said] : h \in Horizons}

\* insert_kp_forecast: every horizon of an issue in one transaction, over an issue of
\* the same second.
Commit ==
  /\ queue # <<>>
  /\ issues' = RowsOf(Head(queue))
  /\ queue' = Tail(queue)
  /\ UNCHANGED <<now, newest, have, well, wants, upsets, task, entry>>

-----------------------------------------------------------------------------
(* The rest of the world                                                     *)

\* No task waits longer for the sidecar than its time out.
Tick ==
  /\ now < MaxNow
  /\ \A t \in Tasks : task[t].at = "asking" =>
       now - task[t].since < (IF t = Poller THEN PollerWait ELSE RequestWait)
  /\ now' = now + 1
  /\ UNCHANGED <<newest, have, well, wants, upsets, task, entry, queue, issues>>

Observe ==
  /\ newest < now \/ have < Max(Lengths)
  /\ newest' = now
  /\ have' = IF have < Max(Lengths) THEN have + 1 ELSE have
  /\ UNCHANGED <<now, well, wants, upsets, task, entry, queue, issues>>

SidecarTurns ==
  /\ well' = ~well
  /\ UNCHANGED <<now, newest, have, wants, upsets, task, entry, queue, issues>>

Retrain ==
  /\ upsets < MaxUpsets
  /\ \E n \in Lengths \ {wants} : wants' = n
  /\ upsets' = upsets + 1
  /\ UNCHANGED <<now, newest, have, well, task, entry, queue, issues>>

\* The process begins anew: the cache, the tasks and the queue are gone.
Restart ==
  /\ task' = [t \in Tasks |-> Idle]
  /\ entry' = Nothing /\ queue' = <<>>
  /\ upsets < MaxUpsets /\ upsets' = upsets + 1
  /\ UNCHANGED <<now, newest, have, well, wants, issues>>

Next ==
  \/ \E r \in Requests : Hit(r) \/ Miss(r) \/ Answered(r) \/ AnsweredInPart(r) \/ FallsBack(r)
  \/ \E t \in Tasks : ReadSeries(t)
  \/ PollSized \/ PollAnswered \/ PollGivesUp \/ Commit
  \/ Tick \/ Observe \/ SidecarTurns \/ Retrain \/ Restart

Spec == Init /\ [][Next]_vars

\* The poll task runs for ever and the writer commits what it is sent. Nothing is
\* assumed of requests, of the clock or of the sidecar.
FairSpec ==
  /\ Spec
  /\ WF_vars(PollSized \/ ReadSeries(Poller) \/ PollAnswered \/ PollGivesUp)
  /\ WF_vars(Commit)

-----------------------------------------------------------------------------
(* Properties                                                                *)

\* What is stored was predicted from a window as long as the checkpoint that answered
\* wants, whose newest reading was current when it was read: a retrain between the two
\* calls is refused and not padded, and no wait or retry carries old readings past its budget.
InputsWereFit ==
  \A i \in issues :
    /\ i.said.given >= i.said.model
    /\ i.at - i.said.obs <= MaxAge + Max({RequestWait, PollerWait})

\* No answer that is not labelled degraded comes from readings older than their limit, the
\* wait for the sidecar and the life of an entry together, whoever filled the cache.
ServedAge ==
  /\ \A r \in Requests : task[r].at = "asking" => now - task[r].obs <= MaxAge + RequestWait
  /\ (entry # Nothing /\ entry.obs # Nothing /\ now - entry.stamp < Ttl) =>
       now - entry.obs < MaxAge + RequestWait + Ttl

Healthy == well /\ RecentKp3h(wants)
Resumed == Latest # {} /\ \A i \in Latest : i.said.model = wants /\ i.said.obs = newest

\* Once the sidecar is well and the series current for good, the newest stored issue comes
\* to be one of the current checkpoint and the newest reading, after whatever retrains,
\* outages, restarts and dropped commands.
ForecastResumes == <>[]Healthy => <>[]Resumed
=============================================================================
