SPECIFICATION Spec
CONSTANTS
  k1 = k1
  k2 = k2
  x1 = x1
  h1 = h1
  Tabs = {t1}
  Users = {u1}
  Nil = Nil
  Pages = {"dashboard", "booking", "orders", "inventory"}
  DraftFields <- MCFields
  InitialDrafts <- MCInitialDrafts
  DraftChoices <- MCDraftChoices
  HistoryLimit = 2
  MaxGestures = 5
  MaxCalls = 2
  MaxClock = 2
  MaxTroubles = 1
  Requests <- MCRequests
  Continuations <- MCContinuations
INVARIANTS FlowTypeOK OkMeansDone FlowsAreApart
PROPERTIES ReplayChangesNothing AnswersKeepTheRest
CHECK_DEADLOCK FALSE
