SPECIFICATION Spec
CONSTANTS
  staff = staff
  push = push
  reminder = reminder
  w1 = w1
  w2 = w2
  phone = phone
  Intent = {staff, push}
  Worker = {w1, w2}
  Subscription = {phone}
  NoSubscription = NoSubscription
  NoWorker = NoWorker
  Push <- MCPush
  Reminder <- MCReminder
  SubscriptionOf <- MCSubscriptionOf
  Mode <- MCMode
  Outcome <- MCOutcome
  MaxAttempts = 2
  BatchSize = 2
  MaxFaults = 1
  Punctual = {push}
SYMMETRY MCWorkers
INVARIANTS
  TypeOK
  LeaseIsNewestAttempt
  HistoryAgreesWithIntent
  InboxMatchesOutcome
  NoResendAfterUnknown
PROPERTIES
  TerminalIsFinal
