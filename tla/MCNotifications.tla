-------------------------- MODULE MCNotifications --------------------------
(***************************************************************************)
(* Instances of Notifications for TLC: one built-in kind that the webhooks  *)
(* subscribe to and one custom rule, which none can.                        *)
(***************************************************************************)
EXTENDS Notifications

CONSTANTS Storm, Rule

MCCheckOrder == <<Storm, Rule>>
MCRuleKinds == {Rule}
MCSubscribed == Hooks \X {Storm}
=============================================================================
