SPECIFICATION MCSpec
CONSTANTS
  Caller = {t1, t2, t3}
  MaxCalls = 2
  MaxNesting = 2
  Client = {t1, t2}
  Us = 2
  Ms = 4
  MaxWait = 3
  Initial = 0
  Start = 3
  Deadlines = {2, 7, 13}
  LastCall = 4
  MaxDelay = 1
  Horizon = 11
  MaxPosts = 1
  Waiter = {t1, t2}
  Notifier = {t3, t4}
  Native = {c1, c2, c3, c4, c5, c6}
  Null = Null
  Raw = Raw
  NoThread = NoThread
  Thread = {t1, t2, t3}
  NoOne = none
  Level = {info, warn, error}
  Compiled = {warn, error}
INVARIANTS OnceInv SemInv CondInv LogInv
PROPERTIES EveryCallReturns WaitsEnd MessagesEnd
CHECK_DEADLOCK FALSE
