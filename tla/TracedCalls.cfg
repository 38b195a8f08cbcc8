CONSTANTS
  a = a
  b = b
  s = s
  app = app
  t1 = t1
  t2 = t2
  Calls = {a, b, s}
  ContextCalls = {s}
  Threads = {t1, t2}
  Base <- OneTraced
  MaxDepth = 2
SPECIFICATION Spec
INVARIANTS FinishesCounted ScopesRestored
CHECK_DEADLOCK FALSE
