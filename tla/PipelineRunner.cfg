\* One execution and one request, foreign run or pause; or requests alone.
SPECIFICATION FairSpec
CONSTANTS
  a = a
  b = b
  c = c
  Job <- MCJob
  None = None
  EdgeLists <- MCEdgeLists
  SentLists <- MCSent
  SentStatus = {"paused"}
  Caller = {q1, q2}
  Exec = {e1}
  Budgets <- MCBudgets
INVARIANTS TypeOK EdgesObeyed ResultNotStale PipelinesAsAnswered
PROPERTIES ImplementsWalk ArchivedStays EveryNodeDecided
CHECK_DEADLOCK FALSE
