SPECIFICATION Spec
CONSTANTS
  e = e
  f = f
  p = p
  q = q
  task = task
  Tasks = {task}
  Events = {e, f}
  Framed = {e}
  Handlers <- MCHandlers
  Details <- MCDetails
  Blank = Blank
  Answers <- MCAnswers
  Async = {"remote", "lookup"}
  Calls <- MCCalls
  Requests = {p, q}
  Carries <- MCCarries
  Stamp <- MCStamp
  Unstamped = Unstamped
  Tolerance = 1
  MaxTime = 3
  MaxAdapters = 2
  Updates <- MCUpdates
  Ignored = Ignored
  MaxConns = 2
  MaxNext = 1
INVARIANTS TypeOK Connected PicksAsDocumented EmittedOnce
PROPERTIES NothingBeginsStale DispatchEnds
