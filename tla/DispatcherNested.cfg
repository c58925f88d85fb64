\* A guest's HandleEvent starts a server while RefreshSubscriptions waits
\* for the lock.  The system really stops here: the run checks the liveness
\* of the Refresh, and deadlock states are the subject, not an error.
SPECIFICATION SpecNested
CONSTANTS
  a = a  b = b  c = c  pre = pre  post = post  d1 = d1  d2 = d2
  Plugins = {a, b, c}
  Order <- MCOrder
  Enabled <- MCEnabled
  Subscribes <- MCSubscribes
  Events = {pre, post}
  Cancellable <- MCCancellable
  Dispatchers = {d1}
  Outcomes <- MCOutcomesSmall
  MaxLoads <- MCLoadsOnce
  NONE = NONE
CHECK_DEADLOCK FALSE
PROPERTY RefreshCompletes
