--------------------------- MODULE Notifications ---------------------------
(***************************************************************************)
(* From a reading over its threshold to a row in the event feed and a POST  *)
(* to every subscribed webhook (poll_anomaly and detect_and_store, the      *)
(* Anomaly and WebhookDelivery arms of db_writer, webhook_sender,           *)
(* webhooks.rs).                                                            *)
(*                                                                         *)
(* Once a minute the detector runs its checks in order and fires one        *)
(* command for every finding.  The writer records the anomaly and spawns a  *)
(* task for each webhook; a task that is done fires the row for the         *)
(* delivery log.  Awaited writes commit at one moment, as AtomicWrites says. *)
(***************************************************************************)
EXTENDS Integers, Sequences, FiniteSets

CONSTANTS
  CheckOrder,   \* the kinds of anomaly in the order they are checked for
  RuleKinds,    \* those whose check queries once for each finding: custom rules
  Refs,         \* source_ref: which reading, asteroid or hour
  Hooks,
  Subscribed,   \* pairs of a webhook and a kind in its events
  QueueCap,     \* places in the writer's channel
  LogCap,       \* rows of the delivery log that are kept: 100
  Faults,       \* "dberror", "restart"
  MaxCycles     \* bound: detection cycles

Kinds == {CheckOrder[i] : i \in 1..Len(CheckOrder)}

ASSUME NotificationsAssumption ==
  /\ CheckOrder \in Seq(Kinds) /\ RuleKinds \subseteq Kinds
  /\ Subscribed \subseteq Hooks \X (Kinds \ RuleKinds)  \* VALID_EVENTS names no rule
  /\ QueueCap \in Nat \ {0} /\ LogCap \in Nat \ {0} /\ MaxCycles \in Nat
  /\ Faults \subseteq {"dberror", "restart"}

VARIABLES
  cycles,     \* how many cycles have begun
  turn,       \* the next check of the present cycle; 0 if it was cut short
  todo,       \* found by the present check and not fired yet
  queue,      \* the writer's channel, its anomaly and delivery commands
  anomalies,  \* alerts_anomaly, by its primary key
  hook,       \* webhooks: is there such a row
  batch,      \* how many anomaly commands have been recorded: stands for the time
  sends,      \* spawned tasks
  log,        \* webhook_deliveries: times of the attempts kept for each webhook
  logged,     \* history: every row the log of a webhook was ever given
  told,       \* history: pairs of a webhook and a finding it was sent, or tried
  failed,     \* history: those of them where an attempt did not succeed
  seen,       \* history: what some check found
  excused     \* history: findings that were lost for a reason the code logs

detector == <<cycles, turn, todo>>
store    == <<anomalies, hook, log>>
history  == <<logged, told, failed, seen, excused>>
vars == <<detector, queue, store, batch, sends, history>>

Finding == Kinds \X Refs
Attempt == [n : Nat, to : Hooks, about : Finding]
Found(f)     == [op |-> "anomaly", about |-> f]
Tried(h, n)  == [op |-> "delivery", to |-> h, n |-> n]

TypeOK ==
  /\ cycles \in Nat /\ turn \in 0..(Len(CheckOrder) + 1) /\ todo \in SUBSET Finding
  /\ \A i \in 1..Len(queue) :
       \/ \E f \in Finding : queue[i] = Found(f)
       \/ \E h \in Hooks : \E n \in 1..batch : queue[i] = Tried(h, n)
  /\ Len(queue) <= QueueCap
  /\ anomalies \in SUBSET Finding
  /\ hook \in [Hooks -> {"none", "active", "deleted"}]
  /\ batch \in Nat /\ sends \subseteq [n : 1..batch, to : Hooks, about : Finding]
  /\ log \in [Hooks -> SUBSET (1..batch)]
  /\ logged \in [Hooks -> SUBSET (1..batch)]
  /\ told \subseteq Hooks \X Finding /\ failed \subseteq told
  /\ seen \subseteq Finding /\ excused \subseteq Finding

Init ==
  /\ cycles = 0 /\ turn = 0 /\ todo = {}
  /\ queue = <<>>
  /\ anomalies = {} /\ hook = [h \in Hooks |-> "none"] /\ log = [h \in Hooks |-> {}]
  /\ batch = 0 /\ sends = {}
  /\ logged = [h \in Hooks |-> {}]
  /\ told = {} /\ failed = {} /\ seen = {} /\ excused = {}

-----------------------------------------------------------------------------
(* The detector                                                              *)

\* A cycle ends with its last check; then it sleeps.
StartCycle ==
  /\ turn \in {0, Len(CheckOrder) + 1} /\ todo = {}
  /\ cycles < MaxCycles
  /\ turn' = 1 /\ cycles' = cycles + 1
  /\ UNCHANGED <<todo, queue, store, batch, sends, history>>

\* The check for the next kind reads the store, where the feeds and the clock may
\* have changed anything since the last time, and finds some refs over a threshold.
RunCheck(refs) ==
  /\ turn \in 1..Len(CheckOrder) /\ todo = {}
  /\ todo' = {CheckOrder[turn]} \X refs
  /\ seen' = seen \cup todo'
  /\ turn' = turn + 1
  /\ UNCHANGED <<cycles, queue, store, batch, sends, logged, told, failed, excused>>

\* A query fails: detect_and_store returns, and the checks after it do not run.
CheckFails ==
  /\ "dberror" \in Faults
  /\ \/ turn \in 1..Len(CheckOrder) /\ todo = {}
     \/ todo \cap (RuleKinds \X Refs) # {}
  /\ turn' = 0 /\ todo' = {}
  /\ excused' = excused \cup todo
  /\ UNCHANGED <<cycles, queue, store, batch, sends, logged, told, failed, seen>>

HasRoom == Len(queue) < QueueCap

\* One finding is fired; a full channel drops it.
FireFinding(f) ==
  /\ f \in todo
  /\ todo' = todo \ {f}
  /\ IF HasRoom
       THEN queue' = Append(queue, Found(f)) /\ UNCHANGED excused
       ELSE UNCHANGED queue /\ excused' = excused \cup {f}
  /\ UNCHANGED <<cycles, turn, store, batch, sends, logged, told, failed, seen>>

-----------------------------------------------------------------------------
(* The writer                                                                *)

NextIs(op) == queue # <<>> /\ Head(queue).op = op /\ queue' = Tail(queue)

Recipients(kind) == {h \in Hooks : hook[h] = "active" /\ <<h, kind>> \in Subscribed}

Tasks(n, f) == {[n |-> n, to |-> h, about |-> f] : h \in Recipients(f[1])}

\* Mutant of RecordAnomaly: an anomaly nobody subscribed to is left out.
RecordsOnlyForSubscribers ==
  /\ NextIs("anomaly")
  /\ LET f == Head(queue).about
         tasks == Tasks(batch + 1, f)
     IN IF tasks = {}
          THEN UNCHANGED <<anomalies, batch, sends>>
          ELSE /\ anomalies' = anomalies \cup {f}
               /\ batch' = batch + 1
               /\ sends' = sends \cup tasks
  /\ UNCHANGED <<detector, hook, log, history>>

\* Mutant of RecordAnomaly: one webhook of those that want to know is told.
TellsOnlyOne ==
  /\ NextIs("anomaly")
  /\ LET f == Head(queue).about
         tasks == Tasks(batch + 1, f)
     IN /\ anomalies' = anomalies \cup {f}
        /\ batch' = batch + 1
        /\ IF tasks = {} THEN UNCHANGED sends ELSE sends' = sends \cup {CHOOSE s \in tasks : TRUE}
  /\ UNCHANGED <<detector, hook, log, history>>

\* insert_anomaly, Ok too if the row was there already, then a task for every
\* webhook that wants to know.
RecordAnomaly ==
  /\ NextIs("anomaly")
  /\ LET f == Head(queue).about
     IN /\ anomalies' = anomalies \cup {f}
        /\ batch' = batch + 1
        /\ \/ /\ sends' = sends \cup Tasks(batch', f)
              /\ UNCHANGED excused
           \/ \* the query for the webhooks fails
              /\ "dberror" \in Faults
              /\ excused' = excused \cup {f}
              /\ UNCHANGED sends
  /\ UNCHANGED <<detector, hook, log, logged, told, failed, seen>>

\* Mutant of RecordFails: the webhooks are told before the insert is known to be Ok.
TellsOfWhatFailed ==
  /\ "dberror" \in Faults
  /\ NextIs("anomaly")
  /\ LET f == Head(queue).about
     IN /\ batch' = batch + 1
        /\ sends' = sends \cup Tasks(batch', f)
        /\ excused' = excused \cup {f}
  /\ UNCHANGED <<detector, store, logged, told, failed, seen>>

\* The insert fails.
RecordFails ==
  /\ "dberror" \in Faults
  /\ NextIs("anomaly")
  /\ excused' = excused \cup {Head(queue).about}
  /\ UNCHANGED <<detector, store, batch, sends, logged, told, failed, seen>>

\* The newest LogCap of a webhook's rows.
Newest(rows) == {x \in rows : Cardinality({y \in rows : y > x}) < LogCap}

\* Mutant of LogDelivery: what is kept is what was logged last.
KeepsTheLastLogged ==
  /\ NextIs("delivery")
  /\ LET h == Head(queue).to
         n == Head(queue).n
     IN /\ logged' = [logged EXCEPT ![h] = @ \cup {n}]
        /\ log' = [log EXCEPT ![h] = IF Cardinality(@) < LogCap THEN @ \cup {n}
                                    ELSE (@ \ {CHOOSE x \in @ : TRUE}) \cup {n}]
  /\ UNCHANGED <<detector, anomalies, hook, batch, sends, told, failed, seen, excused>>

\* insert_webhook_delivery: a row, and then another statement that trims.
LogDelivery ==
  /\ NextIs("delivery")
  /\ LET h == Head(queue).to
         rows == log[h] \cup {Head(queue).n}
     IN \/ /\ logged' = [logged EXCEPT ![h] = @ \cup {Head(queue).n}]
           /\ \/ log' = [log EXCEPT ![h] = Newest(rows)]
              \/ "dberror" \in Faults /\ log' = [log EXCEPT ![h] = rows]
        \/ "dberror" \in Faults /\ UNCHANGED <<log, logged>>
  /\ UNCHANGED <<detector, anomalies, hook, batch, sends, told, failed, seen, excused>>

\* create_webhook and delete_webhook commit; ids are random and never used again.
CreateWebhook(h) ==
  /\ hook[h] = "none"
  /\ hook' = [hook EXCEPT ![h] = "active"]
  /\ UNCHANGED <<detector, queue, anomalies, log, batch, sends, history>>

DeleteWebhook(h) ==
  /\ hook[h] = "active"
  /\ hook' = [hook EXCEPT ![h] = "deleted"]
  /\ UNCHANGED <<detector, queue, anomalies, log, batch, sends, history>>

-----------------------------------------------------------------------------
\* A task has its answer, or its refusal, timeout or connection failure, and fires
\* the row for the log.
Send(s, ok) ==
  /\ s \in sends
  /\ sends' = sends \ {s}
  /\ told' = told \cup {<<s.to, s.about>>}
  /\ failed' = IF ok THEN failed ELSE failed \cup {<<s.to, s.about>>}
  /\ IF HasRoom THEN queue' = Append(queue, Tried(s.to, s.n)) ELSE UNCHANGED queue
  /\ UNCHANGED <<detector, store, batch, logged, seen, excused>>

Queued == {f \in Finding : \E i \in 1..Len(queue) : queue[i] = Found(f)}

\* The channel, the tasks and the cycle are gone.
Restart ==
  /\ "restart" \in Faults
  /\ turn' = 0 /\ todo' = {} /\ queue' = <<>> /\ sends' = {}
  /\ excused' = excused \cup todo \cup Queued \cup {s.about : s \in sends}
  /\ UNCHANGED <<cycles, store, batch, logged, told, failed, seen>>

Next ==
  \/ StartCycle \/ CheckFails
  \/ \E refs \in SUBSET Refs : RunCheck(refs)
  \/ \E f \in todo : FireFinding(f)
  \/ RecordAnomaly \/ RecordFails \/ LogDelivery
  \/ \E h \in Hooks : CreateWebhook(h) \/ DeleteWebhook(h)
  \/ \E s \in sends : \E ok \in BOOLEAN : Send(s, ok)
  \/ Restart

Spec == Init /\ [][Next]_vars

\* The writer task and the spawned tasks are scheduled, and every request of the
\* delivery client ends within its five seconds.
Fairness ==
  /\ WF_vars(RecordAnomaly) /\ WF_vars(LogDelivery)
  /\ WF_vars(\E s \in sends : \E ok \in BOOLEAN : Send(s, ok))

FairSpec == Spec /\ Fairness

-----------------------------------------------------------------------------
\* A webhook is told of nothing its owner cannot find in the event feed.
EveryNoticeIsOnRecord ==
  {s.about : s \in sends} \cup {t[2] : t \in told} \subseteq anomalies

\* What a check found is recorded, or on its way, unless the channel was full, a
\* statement failed or the process went down meanwhile.
NothingSilentlyLost ==
  seen \subseteq anomalies \cup todo \cup Queued \cup excused

\* The delivery log of a webhook never lacks one of its newest attempts, however late
\* each of them ended and was logged.
LogHoldsTheNewest ==
  \A h \in Hooks : Newest(logged[h]) \subseteq log[h]

\* An anomaly that got into the channel reaches every webhook that is subscribed to
\* it, or is known to have been lost.
SubscribersAreTold ==
  \A h \in Hooks : \A f \in Finding :
    f \in Queued /\ hook[h] = "active" /\ <<h, f[1]>> \in Subscribed
      ~> <<h, f>> \in told \/ hook[h] = "deleted" \/ f \in excused

\* What the documentation says of webhooks: a delivery that failed is not tried again.
FailedNotRetried ==
  [][\A s \in sends' \ sends : <<s.to, s.about>> \notin failed]_vars
=============================================================================
