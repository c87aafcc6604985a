SPECIFICATION MCSpec
CONSTANTS
  Storm = Storm
  Rule = Rule
  CheckOrder <- MCCheckOrder
  RuleKinds <- MCRuleKinds
  Refs = {1}
  Hooks = {h1, h2}
  Subscribed <- MCSubscribed
  QueueCap = 2
  LogCap = 1
  Faults = {"dberror", "restart"}
  MaxCycles = 2
  None = None
  Users = {u1}
  Cooldown = 3
  Interval = 1
  MailFaults = {"full", "dberror", "unsure", "restart"}
  MaxTime = 8
  MaxCredit = 3
INVARIANTS
  EveryNoticeIsOnRecord
  NothingSilentlyLost
  LogHoldsTheNewest
  
PROPERTIES
  SubscribersAreTold
