SPECIFICATION Spec
CONSTANTS
  s1 = s1
  s2 = s2
  v1 = v1
  v2 = v2
  Tabs = {t1, t2}
  Users = {u1}
  Nil = Nil
  Pages = {"dashboard", "orders"}
  DraftFields = {"orderId"}
  InitialDrafts <- MCInitialDrafts
  DraftChoices <- MCDraftChoices
  HistoryLimit = 2
  MaxGestures = 4
  MaxCalls = 3
  Requests = {s1, s2}
  Continuations <- MCContinuations
  Services <- MCServices
INVARIANTS HealthTypeOK StoredIsShown
PROPERTIES BadgesTellOutcomes CheckAllReachesEveryService
CHECK_DEADLOCK FALSE
