SPECIFICATION Spec
CONSTANTS
  m1 = m1
  l1 = l1
  l2 = l2
  Mails <- OneMail
  Listeners <- OneListener
  Cooldowns = 2
  MaxRelays = 1
  MaxCrashes = 0
  MaxReplays = 0
INVARIANTS
  NoDoubleSends
CHECK_DEADLOCK FALSE
