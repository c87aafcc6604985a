SPECIFICATION Spec
CONSTANTS
  Storm = Storm
  Rule = Rule
  CheckOrder <- MCCheckOrder
  RuleKinds <- MCRuleKinds
  Refs = {1}
  Hooks = {h1, h2}
  Subscribed <- MCSubscribed
  QueueCap = 2
  LogCap = 1
  Faults = {}
  MaxCycles = 2
PROPERTIES
  FailedNotRetried
CHECK_DEADLOCK FALSE
