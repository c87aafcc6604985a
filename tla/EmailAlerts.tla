---------------------------- MODULE EmailAlerts ----------------------------
(***************************************************************************)
(* Mail alerts (dispatch_email_alerts in poller.rs, the email_alerts table  *)
(* in db.rs, email_alerts.rs, mailer.rs).                                   *)
(*                                                                         *)
(* A dispatch reads the readings and the subscriptions under the handler    *)
(* lock, gives the lock up, and sends one mail after the other.  What keeps *)
(* two mails an hour apart is last_notified_at, written by a command that   *)
(* is fired after the mail has left, and that may be dropped or lost.       *)
(***************************************************************************)
EXTENDS Integers, Sequences, FiniteSets

CONSTANTS
  Users,
  None,
  Cooldown,   \* COOLDOWN_SECS
  Interval,   \* ANOMALY_INTERVAL
  QueueCap,   \* places in the writer's channel
  Faults,     \* "full": others fill the channel; "dberror"; "unsure": a mail that left
              \* is reported as failed; "restart"
  MaxTime,    \* bound: the clock
  MaxCredit   \* bound: mails to a user without a stamp

EmailAlertsAssumption ==
  /\ Cooldown \in Nat /\ Interval \in Nat /\ QueueCap \in Nat \ {0}
  /\ MaxTime \in Nat /\ MaxCredit \in Nat
  /\ Faults \subseteq {"full", "dberror", "unsure", "restart"}
  /\ None \notin Nat

VARIABLES
  clock,
  alert,      \* email_alerts: "none" without a row, else its enabled column
  last,       \* email_alerts.last_notified_at
  asleep,     \* the polling task sleeps
  wake,       \* when it may wake
  todo,       \* subscriptions the present dispatch will mail
  queue,      \* the writer's channel: whom its touch commands are about
  lastMail,   \* history: when a user's latest mail left
  unstamped,  \* history: users whose latest mail has not been stamped
  doubt,      \* history: of those the dispatch will mail, who was unstamped as it read
  credit      \* history: mails that count towards a stamp and have none yet

table    == <<alert, last>>
dispatch == <<asleep, wake, todo>>
history  == <<lastMail, unstamped, doubt, credit>>
vars == <<clock, table, dispatch, queue, history>>

Time == 0..MaxTime

TypeOK ==
  /\ clock \in Time
  /\ alert \in [Users -> {"none", "on", "off"}]
  /\ last \in [Users -> Time \cup {None}]
  /\ \A u \in Users : alert[u] = "none" => last[u] = None
  /\ asleep \in BOOLEAN /\ wake \in Nat /\ todo \subseteq Users
  /\ queue \in Seq(Users) /\ Len(queue) <= QueueCap
  /\ lastMail \in [Users -> Time \cup {None}]
  /\ unstamped \subseteq Users /\ doubt \subseteq Users
  /\ credit \in [Users -> Int]

Init ==
  /\ clock = 0
  /\ alert = [u \in Users |-> "none"] /\ last = [u \in Users |-> None]
  /\ asleep = TRUE /\ wake = 0 /\ todo = {}
  /\ queue = <<>>
  /\ lastMail = [u \in Users |-> None] /\ unstamped = {} /\ doubt = {}
  /\ credit = [u \in Users |-> 0]

-----------------------------------------------------------------------------
Tick ==
  /\ clock < MaxTime
  /\ clock' = clock + 1
  /\ UNCHANGED <<table, dispatch, queue, history>>

\* Mutant of Upsert: the row is replaced, last_notified_at with it.
Replace(u, to) ==
  /\ alert[u] # to
  /\ alert' = [alert EXCEPT ![u] = to]
  /\ last' = [last EXCEPT ![u] = None]
  /\ UNCHANGED <<clock, dispatch, queue, lastMail, unstamped, doubt, credit>>

\* upsert_email_alert commits: the row is made, or its columns are set, all but
\* last_notified_at.
Upsert(u, to) ==
  /\ alert[u] # to
  /\ alert' = [alert EXCEPT ![u] = to]
  /\ UNCHANGED <<clock, last, dispatch, queue, lastMail, unstamped, doubt, credit>>

Cooled(u) == last[u] = None \/ clock - last[u] >= Cooldown

\* A dispatch begins.  Who is over a threshold with a current reading (alert_lines),
\* who is enabled and who has cooled down is decided here, for all of its mails.
Gather(crossed) ==
  /\ asleep /\ clock >= wake
  /\ asleep' = FALSE
  /\ todo' = {u \in crossed : alert[u] = "on" /\ Cooled(u)}
  /\ doubt' = unstamped
  /\ UNCHANGED <<clock, table, wake, queue, lastMail, unstamped, credit>>

\* fire: the command may be dropped, and is if the channel has no room.
Fire(u) ==
  \/ Len(queue) < QueueCap /\ queue' = Append(queue, u)
  \/ (Len(queue) = QueueCap \/ "full" \in Faults) /\ UNCHANGED queue

MailLeaves(u) ==
  /\ lastMail' = [lastMail EXCEPT ![u] = clock]
  /\ unstamped' = unstamped \cup {u}

\* send_text returns Sent.
Sent(u) ==
  /\ u \in todo /\ credit[u] < MaxCredit
  /\ todo' = todo \ {u}
  /\ Fire(u)
  /\ MailLeaves(u)
  /\ credit' = [credit EXCEPT ![u] = @ + 1]
  /\ UNCHANGED <<clock, table, asleep, wake, doubt>>

\* send_text returns Suppressed or Failed, the latter also for a mail that left
\* before the connection to the server was lost.
NotSent(u) ==
  /\ u \in todo /\ credit[u] < MaxCredit
  /\ todo' = todo \ {u}
  /\ \/ UNCHANGED <<lastMail, unstamped>>
     \/ "unsure" \in Faults /\ MailLeaves(u)
  /\ UNCHANGED <<clock, table, asleep, wake, queue, doubt, credit>>

EndDispatch ==
  /\ ~asleep /\ todo = {}
  /\ asleep' = TRUE /\ wake' = clock + Interval
  /\ UNCHANGED <<clock, table, todo, queue, history>>

-----------------------------------------------------------------------------
\* The writer gets to a touch command and stamps the row with the time it is then.
Touch ==
  /\ queue # <<>>
  /\ queue' = Tail(queue)
  /\ LET u == Head(queue)
     IN \/ /\ last' = [last EXCEPT ![u] = clock]
           /\ unstamped' = unstamped \ {u}
           /\ credit' = [credit EXCEPT ![u] = @ - 1]
        \/ "dberror" \in Faults /\ UNCHANGED <<last, unstamped, credit>>
  /\ UNCHANGED <<clock, alert, dispatch, lastMail, doubt>>

\* The rows survive; the dispatch and the commands do not.
Restart ==
  /\ "restart" \in Faults
  /\ asleep' = TRUE /\ wake' = clock /\ todo' = {} /\ queue' = <<>>
  /\ UNCHANGED <<clock, table, history>>

Next ==
  \/ Tick
  \/ \E u \in Users :
       \/ \E to \in {"on", "off"} : Upsert(u, to)
       \/ Sent(u) \/ NotSent(u)
  \/ \E crossed \in SUBSET Users : Gather(crossed)
  \/ EndDispatch \/ Touch \/ Restart

Spec == Init /\ [][Next]_vars

-----------------------------------------------------------------------------
\* Two mails to a user are an hour apart, unless the first was not yet stamped, or
\* never, when the dispatch that sends the second read the table; and only a mail that was
\* sent buys silence: there are never more stamps, made or on their way, than mails.
CooldownIsKept ==
  /\ \A u \in todo \ doubt : lastMail[u] # None => clock - lastMail[u] >= Cooldown
  /\ \A u \in Users : credit[u] >= Cardinality({i \in 1..Len(queue) : queue[i] = u})
=============================================================================
