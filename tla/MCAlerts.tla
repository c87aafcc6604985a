------------------------------ MODULE MCAlerts ------------------------------
(***************************************************************************)
(* Two components in one run: anomalies and webhooks (Notifications), and   *)
(* alerts by mail (EmailAlerts). They share no state but the writer's       *)
(* channel, which each meets as one that others may fill, so a behaviour is *)
(* one of the one or one of the other, as part says, and the rest stands    *)
(* still. One subscription to mails: another only makes a dispatch take     *)
(* longer and the channel fuller, and both may be so anyway.                *)
(***************************************************************************)
EXTENDS MCNotifications

CONSTANTS Users, None, Cooldown, Interval, MailFaults, MaxTime, MaxCredit

VARIABLES
  part,
  clock, alert, last, asleep, wake, mails, touches, lastMail, unstamped, doubt, credit

webhooks == vars
email == <<clock, alert, last, asleep, wake, mails, touches, lastMail, unstamped, doubt,
           credit>>

E == INSTANCE EmailAlerts WITH todo <- mails, queue <- touches, Faults <- MailFaults

ASSUME EmailConstants == E!EmailAlertsAssumption

MCInit == part \in {"webhooks", "email"} /\ Init /\ E!Init

MCNext ==
  \/ part = "webhooks" /\ Next /\ UNCHANGED <<part, email>>
  \/ part = "email" /\ E!Next /\ UNCHANGED <<part, webhooks>>

allVars == <<part, webhooks, email>>

\* The fairness of FairSpec.
MCSpec ==
  /\ MCInit /\ [][MCNext]_allVars
  /\ WF_allVars(part = "webhooks" /\ RecordAnomaly /\ UNCHANGED <<part, email>>)
  /\ WF_allVars(part = "webhooks" /\ LogDelivery /\ UNCHANGED <<part, email>>)
  /\ WF_allVars(/\ part = "webhooks"
                /\ \E s \in sends : \E ok \in BOOLEAN : Send(s, ok)
                /\ UNCHANGED <<part, email>>)

\* Two mails to a user are an hour apart, unless the first was not stamped when the
\* dispatch that sends the second read the table, and only a mail that was sent buys
\* silence (dispatch_email_alerts, touch_email_alert_notified).
CooldownIsKept == E!CooldownIsKept
=============================================================================
