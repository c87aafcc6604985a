--------------------------- MODULE MCObservations ---------------------------
(***************************************************************************)
(* Two components in one run: the observation series (Series), and the      *)
(* forecast with the cache in front of it (Forecast). What the forecast     *)
(* reads of a series is in its own model, so a behaviour is one of the one  *)
(* or one of the other, as part says, and the rest stands still. They share *)
(* the clock.                                                               *)
(***************************************************************************)
EXTENDS Series

CONSTANTS
  Requests, Poller, Nothing, Horizons, Lengths, ForecastAge, Ttl, RequestWait,
  PollerWait, QueueCap, ForecastMaxNow, MaxUpsets

VARIABLES part, newest, have, well, wants, upsets, task, entry, queue, issues

series == <<feed, upstream, rows, published>>
forecast == <<newest, have, well, wants, upsets, task, entry, queue, issues>>

F == INSTANCE Forecast WITH MaxAge <- ForecastAge, MaxNow <- ForecastMaxNow

ASSUME ForecastConstants == F!ForecastAssumption

\* The feed means nothing to the forecast: any one will do.
MCInit ==
  /\ Init /\ F!Init
  /\ \/ part = "series"
     \/ part = "forecast" /\ feed = CHOOSE f \in Feeds : TRUE

MCNext ==
  \/ part = "series" /\ Next /\ UNCHANGED <<part, forecast>>
  \/ part = "forecast" /\ F!Next /\ UNCHANGED <<part, series>>

allVars == <<part, now, series, forecast>>

MCSpec == MCInit /\ [][MCNext]_allVars

\* The fairness of FairSpec in either module.
MCFairSpec ==
  /\ MCSpec
  /\ WF_allVars(part = "series" /\ Poll /\ UNCHANGED <<part, forecast>>)
  /\ WF_allVars(/\ part = "forecast"
                /\ F!PollSized \/ F!ReadSeries(Poller) \/ F!PollAnswered \/ F!PollGivesUp
                /\ UNCHANGED <<part, series>>)
  /\ WF_allVars(part = "forecast" /\ F!Commit /\ UNCHANGED <<part, series>>)

\* What is stored was predicted from a window as long as the checkpoint wants, whose
\* newest reading was current (poll_forecast, call_ml_or_cached, serve.py).
InputsWereFit == F!InputsWereFit

\* No answer that is not labelled degraded comes from readings older than their limit, the
\* wait for the sidecar and the life of an entry together (cached, call_ml_or_cached).
ServedAge == F!ServedAge

\* Once the sidecar is well and the series current for good, the newest stored issue comes
\* to be one of the current checkpoint and the newest reading (poll_forecast).
ForecastResumes == <>[](part = "forecast" /\ F!Healthy) => <>[]F!Resumed
=============================================================================
