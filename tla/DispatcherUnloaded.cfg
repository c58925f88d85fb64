\* A plugin unloaded after a Refresh, then an event dispatched.
SPECIFICATION Spec
CONSTANTS
  a = a  b = b  c = c  pre = pre  post = post  d1 = d1  d2 = d2
  Plugins = {a, b, c}
  Order <- MCOrder
  Enabled <- MCEnabled
  Subscribes <- MCSubscribes
  Events = {pre, post}
  Cancellable <- MCCancellable
  Dispatchers = {d1}
  Outcomes <- MCOutcomes
  MaxLoads <- MCLoadsTwice
  NONE = NONE
PROPERTY NoInvokeUnloaded
