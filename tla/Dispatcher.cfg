\* Two dispatching goroutines, the refresher and the Manager interleaved;
\* the disabled plugin c may be loaded again after an Unload, a and b once (all
\* re-loads: DispatcherUnloaded.cfg).  Two readers can overlap, so a waiting Refresh
\* meets a read lock that is never free unless new readers are held back.
SPECIFICATION Spec
CONSTANTS
  a = a  b = b  c = c  pre = pre  post = post  d1 = d1  d2 = d2
  Plugins = {a, b, c}
  Order <- MCOrder
  Enabled <- MCEnabled
  Subscribes <- MCSubscribes
  Events = {pre, post}
  Cancellable <- MCCancellable
  Dispatchers = {d1, d2}
  Outcomes <- MCOutcomesSmall
  MaxLoads <- MCLoadsReloadC
  NONE = NONE
INVARIANTS
  TypeOK
  SnapshotConsistent
  DispatchFollowsReference
  SubscriptionsSound
PROPERTIES
  RefreshCompletes
