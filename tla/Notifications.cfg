SPECIFICATION FairSpec
CONSTANTS
  m1 = m1
  l1 = l1
  l2 = l2
  Mails <- OneMail
  Listeners <- TwoListeners
  Cooldowns = 2
  MaxRelays = 2
  MaxCrashes = 1
  MaxReplays = 1
INVARIANTS
  TypeOK
  TwiceOnlyAfterLateFailure
  Accounted
  ClaimServed
PROPERTIES
  MailGoesOn
  CommittedIsDelivered
CHECK_DEADLOCK FALSE
