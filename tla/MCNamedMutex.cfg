SPECIFICATION FairSpec
CONSTANTS
  o1 = o1
  o2 = o2
  t1 = t1
  t2 = t2
  t3 = t3
  Objects = {o1, o2}
  Threads = {t1, t2, t3}
  Home <- MCHome
  None = None
  MaxCalls = 3
  MaxCrashes = 1
  Reopen = TRUE
  Renew = FALSE
INVARIANT OneHolder
PROPERTY CallsReturn
CHECK_DEADLOCK FALSE
