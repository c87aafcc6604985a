---------------------------- MODULE AlertsProofs ----------------------------
(***************************************************************************)
(* Proofs about anomalies, webhooks and alerts by mail, for any kinds,      *)
(* webhooks, users and sizes of the channel and of the log.                 *)
(*                                                                         *)
(* Of webhooks: a finding moves from the detector to the channel, the       *)
(* table and the tasks without a gap. Of mails: how a stamp, the mail it    *)
(* stands for and the command between them belong together.                 *)
(***************************************************************************)
EXTENDS MCAlerts, FiniteSetTheorems, SequenceTheorems, TLAPS

-----------------------------------------------------------------------------
(* The channel of the webhooks                                               *)

Command == {Found(f) : f \in Finding} \cup {Tried(h, n) : h \in Hooks, n \in Nat}

LEMMA CommandCases ==
  ASSUME NEW c \in Command
  PROVE  \/ c.op = "anomaly" /\ c.about \in Finding /\ c = Found(c.about)
         \/ c.op = "delivery" /\ c.to \in Hooks /\ c.n \in Nat /\ c = Tried(c.to, c.n)
BY DEF Command, Found, Tried

LEMMA FoundCases ==
  ASSUME NEW f \in Finding
  PROVE  /\ Found(f) \in Command /\ Found(f).op = "anomaly" /\ Found(f).about = f
         /\ \A h, n : Tried(h, n) # Found(f)
<1>1. Found(f).op = "anomaly" /\ Found(f).about = f
  BY DEF Found
<1>2. \A h, n : Tried(h, n).op = "delivery"
  BY DEF Tried
<1>3. QED
  BY <1>1, <1>2 DEF Command

LEMMA Appended ==
  ASSUME queue \in Seq(Command), NEW c \in Command, queue' = Append(queue, c)
  PROVE  /\ queue' \in Seq(Command) /\ Len(queue) \in Nat /\ Len(queue') = Len(queue) + 1
         /\ \A i \in 1..Len(queue') : (i \in 1..Len(queue) /\ queue'[i] = queue[i]) \/ queue'[i] = c
         /\ \A i \in 1..Len(queue) : i \in 1..Len(queue') /\ queue'[i] = queue[i]
         /\ Len(queue') \in 1..Len(queue') /\ queue'[Len(queue')] = c
<1>1. /\ queue' \in Seq(Command) /\ Len(queue) \in Nat /\ Len(queue') = Len(queue) + 1
      /\ \A i \in 1..Len(queue) : queue'[i] = queue[i]
      /\ queue'[Len(queue) + 1] = c
  BY AppendProperties
<1>2. \A i \in 1..Len(queue') : i \in 1..Len(queue) \/ i = Len(queue) + 1
  BY <1>1
<1>3. QED
  BY <1>1, <1>2

LEMMA Taken ==
  ASSUME queue \in Seq(Command), queue # <<>>, queue' = Tail(queue)
  PROVE  /\ Head(queue) \in Command /\ queue' \in Seq(Command)
         /\ Len(queue) \in Nat /\ Len(queue') = Len(queue) - 1
         /\ 1 \in 1..Len(queue) /\ Head(queue) = queue[1]
         /\ \A i \in 1..Len(queue') : i + 1 \in 1..Len(queue) /\ queue'[i] = queue[i + 1]
         /\ \A i \in 1..Len(queue) : i # 1 => i - 1 \in 1..Len(queue') /\ queue[i] = queue'[i - 1]
<1>1. /\ Head(queue) \in Command /\ queue' \in Seq(Command) /\ Len(queue') = Len(queue) - 1
      /\ \A i \in 1..Len(queue') : queue'[i] = queue[i + 1]
  BY HeadTailProperties
<1>2. Len(queue) \in Nat \ {0} /\ Head(queue) = queue[1]
  OBVIOUS
<1>3. /\ \A i \in 1..Len(queue') : i + 1 \in 1..Len(queue)
      /\ \A i \in 1..Len(queue) : i # 1 => i - 1 \in 1..Len(queue') /\ (i - 1) + 1 = i
  BY <1>1, <1>2
<1>4. QED
  BY <1>1, <1>2, <1>3

-----------------------------------------------------------------------------
(* Types                                                                     *)

ChannelOK ==
  /\ queue \in Seq(Command) /\ Len(queue) <= QueueCap
  /\ \A i \in 1..Len(queue) : queue[i].op = "delivery" => queue[i].n \in 1..batch

DetectorOK ==
  /\ cycles \in Nat /\ turn \in 0..(Len(CheckOrder) + 1) /\ todo \in SUBSET Finding
  /\ seen \subseteq Finding /\ excused \subseteq Finding /\ anomalies \subseteq Finding

DeliveryOK ==
  /\ batch \in Nat /\ sends \subseteq [n : 1..batch, to : Hooks, about : Finding]
  /\ hook \in [Hooks -> {"none", "active", "deleted"}]
  /\ log \in [Hooks -> SUBSET (1..batch)] /\ logged \in [Hooks -> SUBSET (1..batch)]
  /\ told \subseteq Hooks \X Finding /\ failed \subseteq told

WebhookTypes == ChannelOK /\ DetectorOK /\ DeliveryOK

LEMMA ChannelTypes ==
  ASSUME ChannelOK
  PROVE  \A i \in 1..Len(queue) :
           \/ \E f \in Finding : queue[i] = Found(f)
           \/ \E h \in Hooks : \E n \in 1..batch : queue[i] = Tried(h, n)
<1> SUFFICES ASSUME NEW i \in 1..Len(queue)
             PROVE  \/ \E f \in Finding : queue[i] = Found(f)
                    \/ \E h \in Hooks : \E n \in 1..batch : queue[i] = Tried(h, n)
  OBVIOUS
<1>1. queue[i] \in Command
  BY DEF ChannelOK
<1>2. QED
  BY <1>1, CommandCases DEF ChannelOK

\* What leaves the channel alone, or cuts it short, keeps it well formed as more is recorded.
LEMMA ChannelKept ==
  ASSUME WebhookTypes, batch' \in Nat, batch <= batch',
         queue' = queue \/ (queue # <<>> /\ queue' = Tail(queue)) \/ queue' = <<>>
  PROVE  ChannelOK'
<1>1. /\ queue \in Seq(Command) /\ Len(queue) <= QueueCap /\ QueueCap \in Nat /\ batch \in Nat
      /\ \A i \in 1..Len(queue) : queue[i].op = "delivery" => queue[i].n \in 1..batch'
  BY NotificationsAssumption DEF WebhookTypes, ChannelOK, DeliveryOK
<1>2. CASE queue' = queue
  BY <1>1, <1>2 DEF ChannelOK
<1>3. CASE queue # <<>> /\ queue' = Tail(queue)
  <2>1. /\ queue' \in Seq(Command) /\ Len(queue) \in Nat /\ Len(queue') = Len(queue) - 1
        /\ \A i \in 1..Len(queue') : i + 1 \in 1..Len(queue) /\ queue'[i] = queue[i + 1]
    BY <1>1, <1>3, Taken
  <2>2. Len(queue') <= QueueCap
    BY <1>1, <2>1
  <2>3. QED
    BY <1>1, <2>1, <2>2 DEF ChannelOK
<1>4. CASE queue' = <<>>
  BY <1>1, <1>4 DEF ChannelOK
<1>5. QED
  BY <1>2, <1>3, <1>4

LEMMA ChannelGrows ==
  ASSUME WebhookTypes, NEW c \in Command, c.op = "delivery" => c.n \in 1..batch,
         HasRoom, queue' = Append(queue, c), batch' = batch
  PROVE  ChannelOK'
<1>1. /\ queue \in Seq(Command) /\ Len(queue) < QueueCap /\ QueueCap \in Nat
      /\ \A i \in 1..Len(queue) : queue[i].op = "delivery" => queue[i].n \in 1..batch
  BY NotificationsAssumption DEF WebhookTypes, ChannelOK, HasRoom
<1>2. /\ queue' \in Seq(Command) /\ Len(queue) \in Nat /\ Len(queue') = Len(queue) + 1
      /\ \A i \in 1..Len(queue') : (i \in 1..Len(queue) /\ queue'[i] = queue[i]) \/ queue'[i] = c
  BY <1>1, Appended
<1>3. QED
  BY <1>1, <1>2 DEF ChannelOK

\* A command of the writer's that is taken from the channel.
LEMMA NextCommand ==
  ASSUME WebhookTypes, NEW op, NextIs(op)
  PROVE  /\ queue # <<>> /\ queue' = Tail(queue) /\ Head(queue) \in Command /\ Head(queue).op = op
         /\ op = "anomaly" => Head(queue).about \in Finding /\ Head(queue) = Found(Head(queue).about)
         /\ op = "delivery" => Head(queue).to \in Hooks /\ Head(queue).n \in 1..batch
<1>1. queue # <<>> /\ queue' = Tail(queue) /\ Head(queue).op = op
  BY DEF NextIs
<1>2. queue \in Seq(Command)
  BY DEF WebhookTypes, ChannelOK
<1>3. Head(queue) \in Command /\ Head(queue) = queue[1] /\ 1 \in 1..Len(queue)
  BY <1>1, <1>2, Taken
<1>4. op = "delivery" => Head(queue).n \in 1..batch
  BY <1>1, <1>3 DEF WebhookTypes, ChannelOK
<1>5. QED
  BY <1>1, <1>3, <1>4, CommandCases

LEMMA TasksTypes ==
  ASSUME NEW k, NEW f \in Finding
  PROVE  \A s \in Tasks(k, f) : s.n = k /\ s.about = f /\ s \in [n : {k}, to : Hooks, about : Finding]
<1> SUFFICES ASSUME NEW h \in Recipients(f[1])
             PROVE  [n |-> k, to |-> h, about |-> f] \in [n : {k}, to : Hooks, about : Finding]
  BY DEF Tasks
<1>1. h \in Hooks
  BY DEF Recipients
<1>2. QED
  BY <1>1

\* Deliveries that were numbered before are well numbered as more is recorded.
LEMMA BatchGrows ==
  ASSUME WebhookTypes, batch' = batch + 1
  PROVE  /\ batch' \in Nat /\ batch' \in 1..batch' /\ 1..batch \subseteq 1..batch'
         /\ sends \subseteq [n : 1..batch', to : Hooks, about : Finding]
         /\ log \in [Hooks -> SUBSET (1..batch')] /\ logged \in [Hooks -> SUBSET (1..batch')]
<1>1. batch' \in Nat /\ batch' \in 1..batch' /\ 1..batch \subseteq 1..batch'
  BY DEF WebhookTypes, DeliveryOK
<1>2. \A s \in sends : s \in [n : 1..batch', to : Hooks, about : Finding]
  BY <1>1 DEF WebhookTypes, DeliveryOK
<1>3. QED
  BY <1>1, <1>2 DEF WebhookTypes, DeliveryOK

LEMMA WebhookTypesStep ==
  ASSUME WebhookTypes, [Next]_vars
  PROVE  WebhookTypes'
<1> USE NotificationsAssumption
<1>1. batch \in Nat /\ Len(CheckOrder) \in Nat
  BY DEF WebhookTypes, DeliveryOK
<1>2. CASE UNCHANGED vars
  BY <1>1, <1>2, ChannelKept DEF vars, detector, store, history, WebhookTypes, DetectorOK, DeliveryOK
<1>3. CASE StartCycle
  <2>1. DetectorOK'
    BY <1>1, <1>3 DEF StartCycle, store, history, WebhookTypes, DetectorOK
  <2>2. QED
    BY <1>1, <1>3, <2>1, ChannelKept DEF StartCycle, store, history, WebhookTypes, DeliveryOK
<1>4. ASSUME NEW refs \in SUBSET Refs, RunCheck(refs) PROVE WebhookTypes'
  <2>1. CheckOrder[turn] \in Kinds
    BY <1>4 DEF RunCheck, Kinds
  <2>2. todo' \subseteq Finding
    BY <1>4, <2>1 DEF RunCheck, Finding
  <2>3. turn' \in 0..(Len(CheckOrder) + 1)
    BY <1>1, <1>4 DEF RunCheck
  <2>4. DetectorOK'
    BY <1>4, <2>2, <2>3 DEF RunCheck, store, WebhookTypes, DetectorOK
  <2>5. QED
    BY <1>1, <1>4, <2>4, ChannelKept DEF RunCheck, store, WebhookTypes, DeliveryOK
<1>5. CASE CheckFails
  <2>1. DetectorOK'
    BY <1>1, <1>5 DEF CheckFails, store, WebhookTypes, DetectorOK
  <2>2. QED
    BY <1>1, <1>5, <2>1, ChannelKept DEF CheckFails, store, WebhookTypes, DeliveryOK
<1>6. ASSUME NEW f \in todo, FireFinding(f) PROVE WebhookTypes'
  <2>1. f \in Finding
    BY DEF WebhookTypes, DetectorOK
  <2>2. ChannelOK'
    BY <1>1, <1>6, <2>1, FoundCases, ChannelKept, ChannelGrows DEF FireFinding
  <2>3. DetectorOK'
    BY <1>6, <2>1 DEF FireFinding, store, WebhookTypes, DetectorOK
  <2>4. QED
    BY <1>6, <2>2, <2>3 DEF FireFinding, store, WebhookTypes, DeliveryOK
<1>7. CASE RecordAnomaly
  <2> DEFINE f == Head(queue).about
  <2>1. f \in Finding /\ queue # <<>> /\ queue' = Tail(queue)
    BY <1>7, NextCommand DEF RecordAnomaly
  <2>2. /\ batch' = batch + 1 /\ anomalies' = anomalies \cup {f}
        /\ sends' = sends \cup Tasks(batch', f) \/ sends' = sends
        /\ excused' = excused \/ excused' = excused \cup {f}
        /\ UNCHANGED <<cycles, turn, todo, hook, log, logged, told, failed, seen>>
    BY <1>7 DEF RecordAnomaly, detector
  <2> HIDE DEF f
  <2>3. ChannelOK'
    BY <1>1, <2>1, <2>2, ChannelKept
  <2>4. DetectorOK'
    BY <2>1, <2>2 DEF WebhookTypes, DetectorOK
  <2>5. \A s \in Tasks(batch', f) : s \in [n : 1..batch', to : Hooks, about : Finding]
    BY <2>1, <2>2, TasksTypes, BatchGrows
  <2>6. sends' \subseteq [n : 1..batch', to : Hooks, about : Finding]
    BY <2>2, <2>5, BatchGrows
  <2>7. DeliveryOK'
    BY <2>2, <2>6, BatchGrows DEF WebhookTypes, DeliveryOK
  <2>8. QED
    BY <2>3, <2>4, <2>7 DEF WebhookTypes
<1>8. CASE RecordFails
  <2>1. Head(queue).about \in Finding /\ queue # <<>> /\ queue' = Tail(queue)
    BY <1>8, NextCommand DEF RecordFails
  <2>2. /\ excused' = excused \cup {Head(queue).about}
        /\ UNCHANGED <<cycles, turn, todo, anomalies, hook, log, batch, sends, logged, told, failed, seen>>
    BY <1>8 DEF RecordFails, detector, store
  <2>3. DetectorOK'
    BY <2>1, <2>2 DEF WebhookTypes, DetectorOK
  <2>4. QED
    BY <1>1, <2>1, <2>2, <2>3, ChannelKept DEF WebhookTypes, DeliveryOK
<1>9. CASE LogDelivery
  <2> DEFINE h == Head(queue).to
             n == Head(queue).n
  <2>1. h \in Hooks /\ n \in 1..batch /\ queue # <<>> /\ queue' = Tail(queue)
    BY <1>9, NextCommand DEF LogDelivery
  <2>2. /\ \/ logged' = [logged EXCEPT ![h] = @ \cup {n}]
           \/ logged' = logged
        /\ \/ log' = [log EXCEPT ![h] = Newest(log[h] \cup {n})]
           \/ log' = [log EXCEPT ![h] = log[h] \cup {n}]
           \/ log' = log
        /\ UNCHANGED <<cycles, turn, todo, anomalies, hook, batch, sends, told, failed, seen, excused>>
    BY <1>9 DEF LogDelivery, detector
  <2> HIDE DEF h, n
  <2>3. Newest(log[h] \cup {n}) \subseteq log[h] \cup {n} /\ log[h] \cup {n} \subseteq 1..batch
    BY <2>1 DEF Newest, WebhookTypes, DeliveryOK
  <2>4. log' \in [Hooks -> SUBSET (1..batch)] /\ logged' \in [Hooks -> SUBSET (1..batch)]
    BY <2>1, <2>2, <2>3 DEF WebhookTypes, DeliveryOK
  <2>5. QED
    BY <1>1, <2>1, <2>2, <2>4, ChannelKept DEF WebhookTypes, DetectorOK, DeliveryOK
<1>10. ASSUME NEW h \in Hooks, CreateWebhook(h) \/ DeleteWebhook(h) PROVE WebhookTypes'
  <2>1. /\ hook' \in [Hooks -> {"none", "active", "deleted"}]
        /\ UNCHANGED <<cycles, turn, todo, queue, anomalies, log, batch, sends, logged, told, failed,
                       seen, excused>>
    BY <1>10 DEF CreateWebhook, DeleteWebhook, detector, history, WebhookTypes, DeliveryOK
  <2>2. QED
    BY <1>1, <2>1, ChannelKept DEF WebhookTypes, DetectorOK, DeliveryOK
<1>11. ASSUME NEW s \in sends, NEW ok \in BOOLEAN, Send(s, ok) PROVE WebhookTypes'
  <2> DEFINE c == Tried(s.to, s.n)
  <2>1. s.n \in 1..batch /\ s.to \in Hooks /\ s.about \in Finding
    BY DEF WebhookTypes, DeliveryOK
  <2>2. /\ sends' = sends \ {s} /\ told' = told \cup {<<s.to, s.about>>}
        /\ failed' = failed \/ failed' = failed \cup {<<s.to, s.about>>}
        /\ queue' = queue \/ (HasRoom /\ queue' = Append(queue, c))
        /\ UNCHANGED <<cycles, turn, todo, anomalies, hook, log, batch, logged, seen, excused>>
    BY <1>11 DEF Send, detector, store
  <2>3. c \in Command /\ c.n = s.n
    BY <1>1, <2>1 DEF Command, Tried
  <2> HIDE DEF c
  <2>4. ChannelOK'
    BY <1>1, <2>1, <2>2, <2>3, ChannelKept, ChannelGrows
  <2>5. DeliveryOK'
    BY <2>1, <2>2 DEF WebhookTypes, DeliveryOK
  <2>6. QED
    BY <2>2, <2>4, <2>5 DEF WebhookTypes, DetectorOK
<1>12. CASE Restart
  <2>1. \A s \in sends : s.about \in Finding
    BY DEF WebhookTypes, DeliveryOK
  <2>2. DetectorOK'
    BY <1>1, <1>12, <2>1 DEF Restart, store, WebhookTypes, DetectorOK, Queued
  <2>3. QED
    BY <1>1, <1>12, <2>2, ChannelKept DEF Restart, store, WebhookTypes, DeliveryOK
<1>13. QED
  BY <1>2, <1>3, <1>4, <1>5, <1>6, <1>7, <1>8, <1>9, <1>10, <1>11, <1>12 DEF Next

LEMMA WebhookTypesHold == Spec => []WebhookTypes
<1>1. Init => WebhookTypes
  BY NotificationsAssumption DEF Init, WebhookTypes, ChannelOK, DetectorOK, DeliveryOK
<1>2. WebhookTypes /\ [Next]_vars => WebhookTypes'
  BY WebhookTypesStep
<1>3. QED
  BY <1>1, <1>2, PTL DEF Spec

\* Whatever is found, recorded, sent and lost, every command in the channel, task and row
\* of the delivery log belongs to an anomaly that was recorded before it.
THEOREM NotificationsTypes == Spec => []TypeOK
<1>1. WebhookTypes => TypeOK
  BY ChannelTypes DEF WebhookTypes, ChannelOK, DetectorOK, DeliveryOK, TypeOK
<1>2. QED
  BY <1>1, WebhookTypesHold, PTL

-----------------------------------------------------------------------------
(* Webhooks                                                                  *)

\* A task is spawned, and a POST made, for what the table has: inductive as it stands.
LEMMA RecordStep ==
  ASSUME WebhookTypes, EveryNoticeIsOnRecord, [Next]_vars
  PROVE  EveryNoticeIsOnRecord'
<1>1. /\ \A s \in sends : s.about \in anomalies
      /\ \A t \in told : t[2] \in anomalies
  BY DEF EveryNoticeIsOnRecord
<1>2. ASSUME \A s \in sends' : s.about \in anomalies', \A t \in told' : t[2] \in anomalies'
      PROVE  EveryNoticeIsOnRecord'
  BY <1>2 DEF EveryNoticeIsOnRecord
<1>3. CASE RecordAnomaly
  <2> DEFINE f == Head(queue).about
  <2>1. f \in Finding
    BY <1>3, NextCommand DEF RecordAnomaly
  <2>2. /\ anomalies' = anomalies \cup {f} /\ told' = told
        /\ sends' = sends \cup Tasks(batch', f) \/ sends' = sends
    BY <1>3 DEF RecordAnomaly
  <2> HIDE DEF f
  <2>3. \A s \in Tasks(batch', f) : s.about = f
    BY <2>1, TasksTypes
  <2>4. QED
    BY <1>1, <1>2, <2>2, <2>3
<1>4. ASSUME NEW s \in sends, NEW ok \in BOOLEAN, Send(s, ok) PROVE EveryNoticeIsOnRecord'
  <2>1. /\ sends' = sends \ {s} /\ told' = told \cup {<<s.to, s.about>>} /\ anomalies' = anomalies
    BY <1>4 DEF Send, store
  <2>2. QED
    BY <1>1, <1>2, <2>1
<1>5. CASE Restart
  BY <1>1, <1>2, <1>5 DEF Restart, store
<1>6. CASE UNCHANGED <<anomalies, sends, told>>
  BY <1>1, <1>2, <1>6
<1>7. \/ UNCHANGED <<anomalies, sends, told>>
      \/ RecordAnomaly \/ Restart
      \/ \E s \in sends : \E ok \in BOOLEAN : Send(s, ok)
  BY DEF vars, store, history, Next, StartCycle, RunCheck, CheckFails, FireFinding, RecordFails,
     LogDelivery, CreateWebhook, DeleteWebhook
<1>8. QED
  BY <1>3, <1>4, <1>5, <1>6, <1>7

\* For any webhooks, subscriptions and failures, nobody is told of an anomaly that its
\* owner cannot find in the event feed.
THEOREM NoticesAreOnRecord == Spec => []EveryNoticeIsOnRecord
<1>1. Init => EveryNoticeIsOnRecord
  BY DEF Init, EveryNoticeIsOnRecord
<1>2. WebhookTypes /\ EveryNoticeIsOnRecord /\ [Next]_vars => EveryNoticeIsOnRecord'
  BY RecordStep
<1>3. QED
  BY <1>1, <1>2, WebhookTypesHold, PTL DEF Spec

\* Findings that are queued stay queued as the channel grows, and all but the first
\* as it is drained.
LEMMA QueuedGrows ==
  ASSUME WebhookTypes, NEW c \in Command, queue' = Append(queue, c)
  PROVE  Queued \subseteq Queued' /\ (c.op = "anomaly" => c.about \in Queued')
<1>1. /\ \A i \in 1..Len(queue) : i \in 1..Len(queue') /\ queue'[i] = queue[i]
      /\ Len(queue') \in 1..Len(queue') /\ queue'[Len(queue')] = c
  BY Appended DEF WebhookTypes, ChannelOK
<1>2. QED
  BY <1>1, CommandCases DEF Queued

LEMMA QueuedShrinks ==
  ASSUME WebhookTypes, queue # <<>>, queue' = Tail(queue), NEW f \in Queued
  PROVE  f \in Queued' \/ Head(queue) = Found(f)
<1>1. /\ Head(queue) = queue[1]
      /\ \A i \in 1..Len(queue) : i # 1 => i - 1 \in 1..Len(queue') /\ queue[i] = queue'[i - 1]
  BY Taken DEF WebhookTypes, ChannelOK
<1>2. QED
  BY <1>1 DEF Queued

LEMMA LostStep ==
  ASSUME WebhookTypes, NothingSilentlyLost, [Next]_vars
  PROVE  NothingSilentlyLost'
<1> SUFFICES ASSUME NEW f \in seen'
             PROVE  f \in anomalies' \cup todo' \cup Queued' \cup excused'
  BY DEF NothingSilentlyLost
<1> DEFINE Goal == f \in anomalies' \cup todo' \cup Queued' \cup excused'
<1>1. f \in seen => f \in anomalies \cup todo \cup Queued \cup excused
  BY DEF NothingSilentlyLost
<1>2. queue' = queue => Queued' = Queued
  BY DEF Queued
<1>3. ASSUME NEW refs \in SUBSET Refs, RunCheck(refs) PROVE Goal
  BY <1>1, <1>2, <1>3 DEF RunCheck, store
<1>4. CASE CheckFails
  BY <1>1, <1>2, <1>4 DEF CheckFails, store
<1>5. ASSUME NEW g \in todo, FireFinding(g) PROVE Goal
  <2>1. g \in Finding
    BY DEF WebhookTypes, DetectorOK
  <2>2. todo' = todo \ {g} /\ anomalies' = anomalies /\ seen' = seen
    BY <1>5 DEF FireFinding, store
  <2>3. CASE HasRoom
    <3>1. queue' = Append(queue, Found(g)) /\ excused' = excused
      BY <1>5, <2>3 DEF FireFinding
    <3>2. Queued \subseteq Queued' /\ g \in Queued'
      BY <2>1, <3>1, FoundCases, QueuedGrows
    <3>3. QED
      BY <1>1, <2>2, <3>1, <3>2
  <2>4. CASE ~HasRoom
    <3>1. queue' = queue /\ excused' = excused \cup {g}
      BY <1>5, <2>4 DEF FireFinding
    <3>2. QED
      BY <1>1, <1>2, <2>2, <3>1
  <2>5. QED
    BY <2>3, <2>4
<1>6. CASE RecordAnomaly \/ RecordFails
  <2>1. /\ queue # <<>> /\ queue' = Tail(queue)
        /\ Head(queue).about \in anomalies' \cup excused'
        /\ anomalies \subseteq anomalies' /\ excused \subseteq excused'
        /\ todo' = todo /\ seen' = seen
    BY <1>6, NextCommand DEF RecordAnomaly, RecordFails, detector, store
  <2>2. ASSUME f \in Queued PROVE f \in Queued' \/ f = Head(queue).about
    <3>1. f \in Finding
      BY <2>2 DEF Queued
    <3>2. QED
      BY <2>1, <2>2, <3>1, QueuedShrinks, FoundCases
  <2>3. QED
    BY <1>1, <2>1, <2>2
<1>7. CASE LogDelivery
  <2>1. /\ queue # <<>> /\ queue' = Tail(queue) /\ Head(queue).op = "delivery"
    BY <1>7, NextCommand DEF LogDelivery
  <2>2. UNCHANGED <<todo, anomalies, seen, excused>>
    BY <1>7 DEF LogDelivery, detector
  <2>3. ASSUME f \in Queued PROVE f \in Queued'
    <3>1. f \in Finding
      BY <2>3 DEF Queued
    <3>2. Head(queue) # Found(f)
      BY <2>1, <3>1, FoundCases
    <3>3. QED
      BY <2>1, <2>3, <3>2, QueuedShrinks
  <2>4. QED
    BY <1>1, <2>2, <2>3
<1>8. ASSUME NEW s \in sends, NEW ok \in BOOLEAN, Send(s, ok) PROVE Goal
  <2> DEFINE c == Tried(s.to, s.n)
  <2>1. c \in Command
    BY DEF WebhookTypes, DeliveryOK, Command
  <2>2. /\ queue' = queue \/ queue' = Append(queue, c)
        /\ UNCHANGED <<todo, anomalies, seen, excused>>
    BY <1>8 DEF Send, detector, store
  <2> HIDE DEF c
  <2>3. Queued \subseteq Queued'
    BY <1>2, <2>1, <2>2, QueuedGrows
  <2>4. QED
    BY <1>1, <2>2, <2>3
<1>9. CASE Restart
  BY <1>1, <1>9 DEF Restart, store
<1>10. CASE UNCHANGED <<queue, todo, anomalies, seen, excused>>
  BY <1>1, <1>2, <1>10
<1>11. \/ UNCHANGED <<queue, todo, anomalies, seen, excused>>
       \/ CheckFails \/ RecordAnomaly \/ RecordFails \/ LogDelivery \/ Restart
       \/ \E refs \in SUBSET Refs : RunCheck(refs)
       \/ \E g \in todo : FireFinding(g)
       \/ \E s \in sends : \E ok \in BOOLEAN : Send(s, ok)
  BY DEF vars, detector, store, history, Next, StartCycle, CreateWebhook, DeleteWebhook
<1>12. QED
  BY <1>3, <1>4, <1>5, <1>6, <1>7, <1>8, <1>9, <1>10, <1>11

\* For any checks and any size of the channel, what a check found is recorded or on its
\* way, but for what a full channel, a failed statement or a restart took.
THEOREM NothingIsSilentlyLost == Spec => []NothingSilentlyLost
<1>1. Init => NothingSilentlyLost
  BY DEF Init, NothingSilentlyLost
<1>2. WebhookTypes /\ NothingSilentlyLost /\ [Next]_vars => NothingSilentlyLost'
  BY LostStep
<1>3. QED
  BY <1>1, <1>2, WebhookTypesHold, PTL DEF Spec

-----------------------------------------------------------------------------
(* The delivery log                                                          *)

\* One of the newest of a set is one of the newest of any part of it that has it.
LEMMA NewestOfPart ==
  ASSUME NEW b \in Nat, NEW R \in SUBSET (1..b), NEW S \in SUBSET R, NEW x \in S, x \in Newest(R)
  PROVE  x \in Newest(S)
<1> DEFINE A == {y \in S : y > x}
           B == {y \in R : y > x}
<1>1. IsFiniteSet(1..b)
  BY FS_Interval
<1>2. B \subseteq 1..b /\ A \subseteq B
  OBVIOUS
<1>3. Cardinality(B) < LogCap
  BY DEF Newest
<1> HIDE DEF A, B
<1>4. IsFiniteSet(B)
  BY <1>1, <1>2, FS_Subset
<1>5. IsFiniteSet(A) /\ Cardinality(A) <= Cardinality(B)
  BY <1>2, <1>4, FS_Subset
<1>6. Cardinality(A) \in Nat /\ Cardinality(B) \in Nat /\ LogCap \in Nat
  BY <1>4, <1>5, FS_CardinalityType, NotificationsAssumption
<1>7. Cardinality(A) < LogCap
  BY <1>3, <1>5, <1>6
<1>8. QED
  BY <1>7 DEF Newest, A

\* The log of a webhook has only what was logged, and of that the newest.
LogOK == \A h \in Hooks : log[h] \subseteq logged[h] /\ Newest(logged[h]) \subseteq log[h]

LEMMA LogStep ==
  ASSUME WebhookTypes, LogOK, [Next]_vars
  PROVE  LogOK'
<1>1. CASE UNCHANGED <<log, logged>>
  BY <1>1 DEF LogOK, Newest
<1>2. CASE LogDelivery /\ ~UNCHANGED <<log, logged>>
  <2> DEFINE h == Head(queue).to
             n == Head(queue).n
             R == logged[h] \cup {n}
             S == log[h] \cup {n}
  <2>1. h \in Hooks /\ n \in 1..batch
    BY <1>2, NextCommand DEF LogDelivery
  <2>2. /\ logged' = [logged EXCEPT ![h] = R]
        /\ log' = [log EXCEPT ![h] = Newest(S)] \/ log' = [log EXCEPT ![h] = S]
    BY <1>2 DEF LogDelivery
  <2>3. /\ log[h] \subseteq logged[h] /\ Newest(logged[h]) \subseteq log[h]
        /\ batch \in Nat /\ logged[h] \subseteq 1..batch
    BY <2>1 DEF LogOK, WebhookTypes, DeliveryOK
  <2>4. S \subseteq R /\ R \subseteq 1..batch /\ logged[h] \subseteq R /\ n \in S
    BY <2>1, <2>3
  \* A newest row is the one just logged or was one of the newest before.
  <2>5. Newest(R) \subseteq S
    <3> SUFFICES ASSUME NEW x \in Newest(R), x # n PROVE x \in log[h]
      OBVIOUS
    <3>1. x \in logged[h]
      BY DEF Newest
    <3> HIDE DEF R
    <3>2. x \in Newest(logged[h])
      BY <2>3, <2>4, <3>1, NewestOfPart
    <3>3. QED
      BY <2>3, <3>2
  <2> HIDE DEF h, n, R, S
  <2>6. Newest(R) \subseteq Newest(S)
    BY <2>3, <2>4, <2>5, NewestOfPart
  <2>7. Newest(S) \subseteq S
    BY DEF Newest
  <2>8. /\ logged'[h] = R
        /\ log'[h] = Newest(S) \/ log'[h] = S
        /\ \A g \in Hooks : g # h => log'[g] = log[g] /\ logged'[g] = logged[g]
    BY <2>1, <2>2 DEF WebhookTypes, DeliveryOK
  <2> SUFFICES ASSUME NEW g \in Hooks
               PROVE  log'[g] \subseteq logged'[g] /\ Newest(logged'[g]) \subseteq log'[g]
    BY DEF LogOK, Newest
  <2>9. CASE g # h
    BY <2>8, <2>9 DEF LogOK
  <2>10. CASE g = h
    BY <2>4, <2>5, <2>6, <2>7, <2>8, <2>10, Zenon
  <2>11. QED
    BY <2>9, <2>10
<1>3. UNCHANGED <<log, logged>> \/ LogDelivery
  BY DEF vars, store, history, Next, StartCycle, RunCheck, CheckFails, FireFinding, RecordAnomaly,
     RecordFails, CreateWebhook, DeleteWebhook, Send, Restart
<1>4. QED
  BY <1>1, <1>2, <1>3

\* For any length of the log, however late each attempt ended and whichever trims failed,
\* the log of a webhook has its newest attempts.
THEOREM LogHoldsNewest == Spec => []LogHoldsTheNewest
<1>1. Init => LogOK
  BY DEF Init, LogOK, Newest
<1>2. WebhookTypes /\ LogOK /\ [Next]_vars => LogOK'
  BY LogStep
<1>3. LogOK => LogHoldsTheNewest
  BY DEF LogOK, LogHoldsTheNewest
<1>4. QED
  BY <1>1, <1>2, <1>3, WebhookTypesHold, PTL DEF Spec

-----------------------------------------------------------------------------
(* Alerts by mail: how many commands about a user are in the channel         *)

Places(q, u) == {i \in 1..Len(q) : q[i] = u}
Count(q, u)  == Cardinality(Places(q, u))

LEMMA CountNat ==
  ASSUME NEW q \in Seq(Users), NEW u
  PROVE  IsFiniteSet(Places(q, u)) /\ Count(q, u) \in Nat
<1>1. IsFiniteSet(1..Len(q))
  BY FS_Interval
<1>2. Places(q, u) \subseteq 1..Len(q)
  BY DEF Places
<1>3. QED
  BY <1>1, <1>2, FS_Subset, FS_CardinalityType DEF Count

LEMMA CountAppended ==
  ASSUME NEW q \in Seq(Users), NEW v \in Users, NEW u
  PROVE  Count(Append(q, v), u) = IF v = u THEN Count(q, u) + 1 ELSE Count(q, u)
<1> DEFINE r == Append(q, v)
           n == Len(q) + 1
<1>1. /\ Len(q) \in Nat /\ Len(r) = n /\ r[n] = v
      /\ \A i \in 1..Len(q) : r[i] = q[i]
  BY AppendProperties
<1> HIDE DEF r
<1>2. \A i : i \in 1..n <=> i \in 1..Len(q) \/ i = n
  BY <1>1
<1>3. n \notin 1..Len(q)
  BY <1>1
<1>4. n \notin Places(q, u) /\ IsFiniteSet(Places(q, u))
  BY <1>3, CountNat DEF Places
<1> HIDE DEF n
<1>5. CASE v = u
  <2>1. Places(r, u) = Places(q, u) \cup {n}
    BY <1>1, <1>2, <1>5 DEF Places
  <2>2. QED
    BY <1>4, <1>5, <2>1, FS_AddElement DEF Count, r
<1>6. CASE v # u
  <2>1. Places(r, u) = Places(q, u)
    BY <1>1, <1>2, <1>6 DEF Places
  <2>2. QED
    BY <1>6, <2>1 DEF Count, r
<1>7. QED
  BY <1>5, <1>6

LEMMA CountTaken ==
  ASSUME NEW q \in Seq(Users), q # <<>>, NEW u
  PROVE  Count(Tail(q), u) = IF Head(q) = u THEN Count(q, u) - 1 ELSE Count(q, u)
<1> DEFINE r == Tail(q)
           S == Places(q, u) \ {1}
           T == Places(r, u)
           f == [i \in S |-> i - 1]
<1>1. /\ r \in Seq(Users) /\ Len(r) = Len(q) - 1 /\ Len(q) \in Nat \ {0} /\ Head(q) = q[1]
      /\ \A i \in 1..Len(r) : r[i] = q[i + 1]
  BY HeadTailProperties
<1> HIDE DEF r
<1>2. \A i \in S : i \in 2..Len(q) /\ i - 1 \in 1..Len(r) /\ r[i - 1] = u
  <2> SUFFICES ASSUME NEW i \in S PROVE i \in 2..Len(q) /\ i - 1 \in 1..Len(r) /\ r[i - 1] = u
    OBVIOUS
  <2>1. i \in 1..Len(q) /\ i # 1 /\ q[i] = u
    BY DEF Places
  <2>2. i \in 2..Len(q) /\ i - 1 \in 1..Len(r) /\ (i - 1) + 1 = i
    BY <1>1, <2>1
  <2>3. QED
    BY <1>1, <2>1, <2>2
<1>3. \A i \in S : i - 1 \in T
  BY <1>2 DEF Places
<1>4. \A j \in T : j + 1 \in S /\ (j + 1) - 1 = j
  <2> SUFFICES ASSUME NEW j \in T PROVE j + 1 \in S /\ (j + 1) - 1 = j
    OBVIOUS
  <2>1. j \in 1..Len(r) /\ r[j] = u
    BY DEF Places
  <2>2. j + 1 \in 1..Len(q) /\ j + 1 # 1 /\ (j + 1) - 1 = j
    BY <1>1, <2>1
  <2>3. QED
    BY <1>1, <2>1, <2>2 DEF Places
<1>5. \A i, j \in S : i - 1 = j - 1 => i = j
  BY <1>2
<1> HIDE DEF S, T
<1>6. f \in [S -> T] /\ (\A i, j \in S : f[i] = f[j] => i = j) /\ (\A j \in T : \E i \in S : f[i] = j)
  BY <1>3, <1>4, <1>5
<1> HIDE DEF f
<1>7. f \in Bijection(S, T)
  BY <1>6 DEF Bijection, Injection, Surjection, IsInjective
<1>8. IsFiniteSet(Places(q, u)) /\ Count(q, u) \in Nat
  BY CountNat
<1>9. IsFiniteSet(S)
  BY <1>8, FS_RemoveElement DEF S
<1>10. Cardinality(T) = Cardinality(S)
  BY <1>7, <1>9, FS_Bijection DEF ExistsBijection
<1>11. Cardinality(S) = IF 1 \in Places(q, u) THEN Count(q, u) - 1 ELSE Count(q, u)
  BY <1>8, FS_RemoveElement DEF S, Count
<1>12. 1 \in Places(q, u) <=> Head(q) = u
  BY <1>1 DEF Places
<1>13. QED
  BY <1>10, <1>11, <1>12 DEF Count, T, r

-----------------------------------------------------------------------------
(* Alerts by mail: stamps                                                    *)

LEMMA MailNumbers ==
  /\ Cooldown \in Nat /\ Interval \in Nat /\ QueueCap \in Nat \ {0} /\ MaxTime \in Nat
  /\ None \notin Nat
BY EmailConstants DEF E!EmailAlertsAssumption

\* A user whose latest mail has a stamp was stamped no earlier than it left.
StampOK ==
  \A u \in Users : lastMail[u] # None =>
    /\ lastMail[u] <= clock
    /\ u \notin unstamped => last[u] # None /\ last[u] >= lastMail[u]

\* Who will be mailed was last mailed long enough ago, unless that was in doubt.
CooledOK == \A u \in mails \ doubt : lastMail[u] # None => clock - lastMail[u] >= Cooldown

\* Every stamp to come is one of a mail that left.
CreditOK == \A u \in Users : credit[u] >= Count(touches, u)

\* Who will be mailed, and whom a command is about, has a row.
RowsOK ==
  /\ \A u \in mails : alert[u] # "none"
  /\ \A i \in 1..Len(touches) : alert[touches[i]] # "none"

MailInv == E!TypeOK /\ RowsOK /\ StampOK /\ CooledOK /\ CreditOK

LEMMA MailTypesParts ==
  ASSUME E!TypeOK
  PROVE  /\ clock \in Nat /\ clock <= MaxTime
         /\ last \in [Users -> 0..MaxTime \cup {None}]
         /\ lastMail \in [Users -> 0..MaxTime \cup {None}]
         /\ credit \in [Users -> Int] /\ touches \in Seq(Users) /\ Len(touches) <= QueueCap
         /\ mails \subseteq Users /\ wake \in Nat
         /\ \A u \in Users : (last[u] # None => last[u] \in Nat) /\ (lastMail[u] # None => lastMail[u] \in Nat)
BY MailNumbers DEF E!TypeOK, E!Time

\* The commands after one was fired or dropped.
LEMMA Fired ==
  ASSUME MailInv, NEW u \in Users, E!Fire(u)
  PROVE  /\ touches' \in Seq(Users) /\ Len(touches') <= QueueCap
         /\ \A v \in Users : Count(touches', v) <= IF v = u THEN Count(touches, v) + 1 ELSE Count(touches, v)
<1>1. touches \in Seq(Users) /\ Len(touches) <= QueueCap /\ QueueCap \in Nat
  BY MailTypesParts, MailNumbers DEF MailInv
<1>2. CASE touches' = touches
  <2>1. \A v \in Users : Count(touches, v) \in Nat
    BY <1>1, CountNat
  <2>2. QED
    BY <1>1, <1>2, <2>1
<1>3. CASE Len(touches) < QueueCap /\ touches' = Append(touches, u)
  <2>1. touches' \in Seq(Users) /\ Len(touches') = Len(touches) + 1 /\ Len(touches) \in Nat
    BY <1>1, <1>3, AppendProperties
  <2>2. \A v \in Users : Count(touches', v) = IF u = v THEN Count(touches, v) + 1 ELSE Count(touches, v)
    BY <1>1, <1>3, CountAppended
  <2>3. \A v \in Users : Count(touches, v) \in Nat
    BY <1>1, CountNat
  <2>4. QED
    BY <1>1, <1>3, <2>1, <2>2, <2>3
<1>4. QED
  BY <1>2, <1>3 DEF E!Fire

\* Who a fired command is about has a row, if the one it is fired for has.
LEMMA FiredRows ==
  ASSUME MailInv, NEW u \in mails, E!Fire(u), mails' = mails \ {u}, UNCHANGED alert
  PROVE  RowsOK'
<1>1. touches \in Seq(Users) /\ u \in Users /\ alert[u] # "none" /\ RowsOK
  BY MailTypesParts DEF MailInv, RowsOK
<1>2. CASE touches' = touches
  BY <1>1, <1>2 DEF RowsOK
<1>3. CASE touches' = Append(touches, u)
  <2>1. /\ Len(touches') = Len(touches) + 1 /\ Len(touches) \in Nat
        /\ touches'[Len(touches) + 1] = u
        /\ \A i \in 1..Len(touches) : touches'[i] = touches[i]
    BY <1>1, <1>3, AppendProperties
  <2>2. \A i \in 1..Len(touches') : i \in 1..Len(touches) \/ i = Len(touches) + 1
    BY <2>1
  <2>3. \A i \in 1..Len(touches') : alert[touches'[i]] # "none"
    BY <1>1, <2>1, <2>2 DEF RowsOK
  <2>4. QED
    BY <1>1, <2>3 DEF RowsOK
<1>4. QED
  BY <1>2, <1>3 DEF E!Fire

\* The latest mail of a user becomes the one that leaves now, or no mail leaves.
LEMMA MailLeft ==
  ASSUME MailInv, NEW u \in Users, mails' = mails \ {u}, UNCHANGED <<clock, last, doubt>>,
         E!MailLeaves(u) \/ UNCHANGED <<lastMail, unstamped>>
  PROVE  /\ StampOK' /\ CooledOK'
         /\ lastMail' \in [Users -> E!Time \cup {None}] /\ (unstamped \subseteq Users => unstamped' \subseteq Users)
<1>1. /\ clock \in Nat /\ clock <= MaxTime /\ lastMail \in [Users -> 0..MaxTime \cup {None}]
      /\ mails \subseteq Users /\ MaxTime \in Nat
  BY MailTypesParts, MailNumbers DEF MailInv
<1>2. CASE UNCHANGED <<lastMail, unstamped>>
  BY <1>1, <1>2 DEF MailInv, StampOK, CooledOK, E!Time
<1>3. CASE E!MailLeaves(u)
  <2>1. lastMail' = [lastMail EXCEPT ![u] = clock] /\ unstamped' = unstamped \cup {u}
    BY <1>3 DEF E!MailLeaves
  <2>2. \A v \in Users : lastMail'[v] = IF v = u THEN clock ELSE lastMail[v]
    BY <1>1, <2>1
  <2>3. lastMail' \in [Users -> E!Time \cup {None}]
    BY <1>1, <2>1 DEF E!Time
  <2>4. StampOK'
    BY <1>1, <2>1, <2>2 DEF MailInv, StampOK
  <2>5. CooledOK'
    BY <1>1, <2>2 DEF MailInv, CooledOK
  <2>6. QED
    BY <2>1, <2>3, <2>4, <2>5
<1>4. QED
  BY <1>2, <1>3

LEMMA MailStep ==
  ASSUME MailInv, [E!Next]_(E!vars)
  PROVE  MailInv'
<1>1. /\ clock \in Nat /\ clock <= MaxTime /\ MaxTime \in Nat
      /\ last \in [Users -> 0..MaxTime \cup {None}] /\ lastMail \in [Users -> 0..MaxTime \cup {None}]
      /\ credit \in [Users -> Int] /\ touches \in Seq(Users) /\ Len(touches) <= QueueCap
      /\ mails \subseteq Users /\ wake \in Nat /\ Interval \in Nat
      /\ \A u \in Users : (last[u] # None => last[u] \in Nat) /\ (lastMail[u] # None => lastMail[u] \in Nat)
  BY MailTypesParts, MailNumbers DEF MailInv
<1>2. \A u \in Users : Count(touches, u) \in Nat /\ credit[u] >= Count(touches, u)
  BY <1>1, CountNat DEF MailInv, CreditOK
<1>3. E!TypeOK
  BY DEF MailInv
<1>4. CASE UNCHANGED E!vars
  BY <1>4 DEF E!vars, E!table, E!dispatch, E!history, MailInv, E!TypeOK, RowsOK, StampOK, CooledOK, CreditOK,
       Count, Places
<1>5. CASE E!Tick
  <2>1. /\ clock' = clock + 1 /\ clock' \in E!Time
        /\ UNCHANGED <<alert, last, asleep, wake, mails, touches, lastMail, unstamped, doubt, credit>>
    BY <1>1, <1>5 DEF E!Tick, E!table, E!dispatch, E!history, E!Time
  <2>2. RowsOK' /\ StampOK' /\ CooledOK' /\ CreditOK'
    BY <1>1, <2>1, MailNumbers DEF MailInv, RowsOK, StampOK, CooledOK, CreditOK, Count, Places
  <2>3. QED
    BY <1>3, <2>1, <2>2 DEF MailInv, E!TypeOK
<1>6. ASSUME NEW u \in Users, NEW to \in {"on", "off"}, E!Upsert(u, to) PROVE MailInv'
  <2>1. /\ alert' = [alert EXCEPT ![u] = to]
        /\ UNCHANGED <<clock, last, asleep, wake, mails, touches, lastMail, unstamped, doubt, credit>>
    BY <1>6 DEF E!Upsert, E!dispatch
  <2>2. StampOK' /\ CooledOK' /\ CreditOK'
    BY <2>1 DEF MailInv, StampOK, CooledOK, CreditOK, Count, Places
  <2>3. /\ alert' \in [Users -> {"none", "on", "off"}]
        /\ \A v \in Users : alert'[v] = "none" => alert[v] = "none"
    BY <1>3, <2>1 DEF E!TypeOK
  <2>4. RowsOK'
    <3>1. \A i \in 1..Len(touches) : touches[i] \in Users
      BY <1>1
    <3>2. QED
      BY <1>1, <2>1, <2>3, <3>1 DEF MailInv, RowsOK
  <2>5. E!TypeOK'
    BY <1>3, <2>1, <2>3 DEF E!TypeOK
  <2>6. QED
    BY <2>2, <2>5, <2>4 DEF MailInv
<1>7. ASSUME NEW crossed \in SUBSET Users, E!Gather(crossed) PROVE MailInv'
  <2>1. /\ mails' = {u \in crossed : alert[u] = "on" /\ E!Cooled(u)} /\ doubt' = unstamped /\ asleep' = FALSE
        /\ UNCHANGED <<clock, alert, last, wake, touches, lastMail, unstamped, credit>>
    BY <1>7 DEF E!Gather, E!table
  <2>2. RowsOK' /\ StampOK' /\ CreditOK'
    BY <2>1 DEF MailInv, RowsOK, StampOK, CreditOK, Count, Places
  <2>3. CooledOK'
    <3> SUFFICES ASSUME NEW u \in mails', u \notin unstamped, lastMail[u] # None
                 PROVE  clock - lastMail[u] >= Cooldown
      BY <2>1 DEF CooledOK
    <3>1. u \in Users /\ E!Cooled(u)
      BY <2>1
    <3>2. last[u] # None /\ last[u] >= lastMail[u]
      BY <3>1 DEF MailInv, StampOK
    <3>3. clock - last[u] >= Cooldown
      BY <3>1, <3>2 DEF E!Cooled
    <3>4. QED
      BY <1>1, <3>1, <3>2, <3>3, MailNumbers
  <2>4. E!TypeOK'
    BY <1>3, <2>1 DEF E!TypeOK
  <2>5. QED
    BY <2>2, <2>3, <2>4 DEF MailInv
<1>8. ASSUME NEW u \in Users, E!Sent(u) PROVE MailInv'
  <2>1. /\ u \in mails /\ mails' = mails \ {u} /\ E!Fire(u) /\ E!MailLeaves(u)
        /\ credit' = [credit EXCEPT ![u] = @ + 1]
        /\ UNCHANGED <<clock, alert, last, asleep, wake, doubt>>
    BY <1>8 DEF E!Sent, E!table
  <2>2. /\ touches' \in Seq(Users) /\ Len(touches') <= QueueCap
        /\ \A v \in Users : Count(touches', v) <= IF v = u THEN Count(touches, v) + 1 ELSE Count(touches, v)
    BY <2>1, Fired
  <2>3. /\ StampOK' /\ CooledOK' /\ lastMail' \in [Users -> E!Time \cup {None}]
        /\ unstamped \subseteq Users => unstamped' \subseteq Users
    BY <2>1, MailLeft
  <2>4. \A v \in Users : credit'[v] = IF v = u THEN credit[v] + 1 ELSE credit[v]
    BY <1>1, <2>1
  <2>5. \A v \in Users : Count(touches', v) \in Nat
    BY <2>2, CountNat
  <2>6. CreditOK'
    <3>1. \A v \in Users : /\ credit[v] \in Int /\ Count(touches, v) \in Nat /\ Count(touches', v) \in Nat
                           /\ credit[v] >= Count(touches, v)
      BY <1>1, <1>2, <2>5
    <3>2. \A v \in Users : credit'[v] >= Count(touches', v)
      BY <2>2, <2>4, <3>1
    <3>3. QED
      BY <3>2 DEF CreditOK, Count, Places
  <2>7. RowsOK'
    BY <1>1, <2>1, FiredRows DEF MailInv, RowsOK
  <2>8. credit' \in [Users -> Int]
    BY <1>1, <2>1
  <2>9. E!TypeOK'
    BY <1>1, <1>3, <2>1, <2>2, <2>3, <2>8 DEF E!TypeOK
  <2>10. QED
    BY <2>3, <2>6, <2>9, <2>7 DEF MailInv
<1>9. ASSUME NEW u \in Users, E!NotSent(u) PROVE MailInv'
  <2>1. /\ mails' = mails \ {u}
        /\ E!MailLeaves(u) \/ UNCHANGED <<lastMail, unstamped>>
        /\ UNCHANGED <<clock, alert, last, asleep, wake, touches, doubt, credit>>
    BY <1>9 DEF E!NotSent, E!table
  <2>2. /\ StampOK' /\ CooledOK' /\ lastMail' \in [Users -> E!Time \cup {None}]
        /\ unstamped \subseteq Users => unstamped' \subseteq Users
    BY <2>1, MailLeft
  <2>3. RowsOK' /\ CreditOK'
    BY <2>1 DEF MailInv, RowsOK, CreditOK, Count, Places
  <2>4. E!TypeOK'
    BY <1>1, <1>3, <2>1, <2>2 DEF E!TypeOK
  <2>5. QED
    BY <2>2, <2>3, <2>4 DEF MailInv
<1>10. CASE E!EndDispatch
  <2>1. /\ asleep' = TRUE /\ wake' = clock + Interval
        /\ UNCHANGED <<clock, alert, last, mails, touches, lastMail, unstamped, doubt, credit>>
    BY <1>10 DEF E!EndDispatch, E!table, E!history
  <2>2. RowsOK' /\ StampOK' /\ CooledOK' /\ CreditOK'
    BY <2>1 DEF MailInv, RowsOK, StampOK, CooledOK, CreditOK, Count, Places
  <2>3. wake' \in Nat
    BY <1>1, <2>1
  <2>4. E!TypeOK'
    BY <1>3, <2>1, <2>3 DEF E!TypeOK
  <2>5. QED
    BY <2>2, <2>4 DEF MailInv
<1>11. CASE E!Touch
  <2> DEFINE u == Head(touches)
  <2>1. /\ touches # <<>> /\ touches' = Tail(touches)
        /\ \/ /\ last' = [last EXCEPT ![u] = clock] /\ unstamped' = unstamped \ {u}
              /\ credit' = [credit EXCEPT ![u] = @ - 1]
           \/ UNCHANGED <<last, unstamped, credit>>
        /\ UNCHANGED <<clock, alert, asleep, wake, mails, lastMail, doubt>>
    BY <1>11 DEF E!Touch, E!dispatch
  <2>2. u \in Users /\ touches' \in Seq(Users) /\ Len(touches') = Len(touches) - 1 /\ Len(touches) \in Nat
    BY <1>1, <2>1, HeadTailProperties
  <2>3. \A v \in Users : Count(touches', v) = IF u = v THEN Count(touches, v) - 1 ELSE Count(touches, v)
    BY <1>1, <2>1, CountTaken
  <2> HIDE DEF u
  <2>4. \A v \in Users : last'[v] = last[v] \/ (v = u /\ last'[v] = clock)
    BY <1>1, <2>1, <2>2
  <2>5. \A v \in Users : v \notin unstamped' => v \notin unstamped \/ (v = u /\ last'[v] = clock)
    BY <1>1, <2>1, <2>2
  <2>6. StampOK'
    <3> SUFFICES ASSUME NEW v \in Users, lastMail[v] # None
                 PROVE  /\ lastMail[v] <= clock
                        /\ v \notin unstamped' => last'[v] # None /\ last'[v] >= lastMail[v]
      BY <2>1 DEF StampOK
    <3>1. lastMail[v] <= clock /\ (v \notin unstamped => last[v] # None /\ last[v] >= lastMail[v])
      BY DEF MailInv, StampOK
    <3>2. clock # None
      BY <1>1, MailNumbers
    <3>3. QED
      BY <1>1, <2>4, <2>5, <3>1, <3>2
  <2>7. CooledOK'
    BY <2>1 DEF MailInv, CooledOK
  <2>8. \A v \in Users : credit'[v] = credit[v] \/ (v = u /\ credit'[v] = credit[v] - 1)
    BY <1>1, <2>1, <2>2
  <2>9. \A v \in Users : credit'[v] >= Count(touches', v)
    <3>1. \A v \in Users : /\ credit[v] \in Int /\ Count(touches, v) \in Nat
                           /\ credit[v] >= Count(touches, v)
      BY <1>1, <1>2
    <3>2. \A v \in Users : Count(touches', v) \in Nat
      BY <2>2, CountNat
    <3>3. \A v \in Users : u # v => credit'[v] = credit[v]
      BY <2>8
    <3>4. QED
      BY <2>3, <2>8, <3>1, <3>2, <3>3
  <2>10. CreditOK'
    BY <2>9 DEF CreditOK, Count, Places
  <2>11. last' \in [Users -> E!Time \cup {None}] /\ credit' \in [Users -> Int]
    <3>1. clock \in 0..MaxTime /\ E!Time = 0..MaxTime
      BY <1>1 DEF E!Time
    <3>2. last' = [last EXCEPT ![u] = clock] \/ last' = last
      BY <2>1
    <3>3. credit' = [credit EXCEPT ![u] = credit[u] - 1] \/ credit' = credit
      BY <2>1
    <3>4. last' \in [Users -> E!Time \cup {None}]
      BY <1>1, <3>1, <3>2
    <3>5. credit' \in [Users -> Int]
      BY <1>1, <2>2, <3>3
    <3>6. QED
      BY <3>4, <3>5
  <2>12. alert[u] # "none"
    <3>1. 1 \in 1..Len(touches) /\ u = touches[1]
      BY <1>1, <2>1, HeadTailProperties DEF u
    <3>2. QED
      BY <3>1 DEF MailInv, RowsOK
  <2>13. \A v \in Users : alert[v] = "none" => last'[v] = None
    BY <1>3, <2>4, <2>12 DEF E!TypeOK
  <2>14. RowsOK'
    <3>1. \A i \in 1..Len(touches') : i + 1 \in 1..Len(touches) /\ touches'[i] = touches[i + 1]
      BY <1>1, <2>1, <2>2, HeadTailProperties
    <3>2. QED
      BY <2>1, <3>1 DEF MailInv, RowsOK
  <2>15. unstamped' \subseteq Users /\ Len(touches') <= QueueCap
    BY <1>1, <1>3, <2>1, <2>2, MailNumbers DEF E!TypeOK
  <2>16. E!TypeOK'
    BY <1>3, <2>1, <2>2, <2>11, <2>13, <2>15 DEF E!TypeOK
  <2>17. QED
    BY <2>6, <2>7, <2>10, <2>16, <2>14 DEF MailInv
<1>12. CASE E!Restart
  <2>1. /\ asleep' = TRUE /\ wake' = clock /\ mails' = {} /\ touches' = <<>>
        /\ UNCHANGED <<clock, alert, last, lastMail, unstamped, doubt, credit>>
    BY <1>12 DEF E!Restart, E!table, E!history
  <2>2. RowsOK' /\ StampOK' /\ CooledOK'
    BY <2>1 DEF MailInv, RowsOK, StampOK, CooledOK
  <2>3. \A u \in Users : Places(<<>>, u) = {}
    BY DEF Places
  <2>4. \A u \in Users : Count(touches', u) = 0
    BY <2>1, <2>3, FS_EmptySet DEF Count
  <2>5. CreditOK'
    <3>1. \A u \in Users : credit[u] >= 0
      BY <1>1, <1>2
    <3>2. \A u \in Users : credit'[u] >= Count(touches', u)
      BY <2>1, <2>4, <3>1
    <3>3. QED
      BY <3>2 DEF CreditOK, Count, Places
  <2>6. E!TypeOK'
    BY <1>1, <1>3, <2>1, MailNumbers DEF E!TypeOK
  <2>7. QED
    BY <2>2, <2>5, <2>6 DEF MailInv
<1>13. QED
  BY <1>4, <1>5, <1>6, <1>7, <1>8, <1>9, <1>10, <1>11, <1>12 DEF E!Next

LEMMA MailInvariant == E!Spec => []MailInv
<1>1. E!Init => MailInv
  <2> SUFFICES ASSUME E!Init PROVE MailInv
    OBVIOUS
  <2>1. \A u \in Users : Places(touches, u) = {} /\ lastMail[u] = None /\ credit[u] = 0
    BY DEF E!Init, Places
  <2>2. CreditOK
    BY <2>1, FS_EmptySet DEF CreditOK, Count
  <2>3. RowsOK /\ StampOK /\ CooledOK
    BY <2>1 DEF E!Init, RowsOK, StampOK, CooledOK
  <2>4. E!TypeOK
    BY MailNumbers DEF E!Init, E!TypeOK, E!Time
  <2>5. QED
    BY <2>2, <2>3, <2>4 DEF MailInv
<1>2. MailInv /\ [E!Next]_(E!vars) => MailInv'
  BY MailStep
<1>3. QED
  BY <1>1, <1>2, PTL DEF E!Spec

\* For any users, cooldown and channel, every mail, stamp and command keeps its type, and
\* who has no row was never stamped.
THEOREM MailTypes == E!Spec => []E!TypeOK
<1>1. MailInv => E!TypeOK
  BY DEF MailInv
<1>2. QED
  BY <1>1, MailInvariant, PTL

LEMMA MailCardinality == \A S : E!Cardinality(S) = Cardinality(S)
BY DEF E!Cardinality, Cardinality

\* For any cooldown, interval and number of users, whatever is dropped, fails or restarts:
\* two mails to a user are a cooldown apart, unless the first was not stamped when the
\* dispatch of the second read the table, and only a mail that was sent buys silence.
THEOREM CooldownHolds == E!Spec => []CooldownIsKept
<1>1. MailInv => CooldownIsKept
  BY MailCardinality DEF MailInv, CooledOK, CreditOK, Count, Places, CooldownIsKept, E!CooldownIsKept
<1>2. QED
  BY <1>1, MailInvariant, PTL


-----------------------------------------------------------------------------
\* Each behaviour of the run that takes the two together is one of either.
THEOREM AlertsAreBoth == MCSpec => Spec /\ E!Spec
<1>1. MCInit => Init /\ E!Init
  BY DEF MCInit
<1>2. [MCNext]_allVars => [Next]_vars /\ [E!Next]_(E!vars)
  <2>1. UNCHANGED allVars => UNCHANGED vars /\ UNCHANGED E!vars
    BY DEF allVars, webhooks, email, vars, detector, store, history, E!vars, E!table, E!dispatch, E!history
  <2>2. MCNext => [Next]_vars /\ [E!Next]_(E!vars)
    BY DEF MCNext, webhooks, email, vars, detector, store, history, E!vars, E!table, E!dispatch, E!history
  <2>3. QED
    BY <2>1, <2>2
<1>3. QED
  BY <1>1, <1>2, PTL DEF MCSpec, Spec, E!Spec
=============================================================================
