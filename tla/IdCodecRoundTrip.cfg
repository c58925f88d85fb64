\* ParsePluginID(CompactPluginID(n)) = n, as spec 8.3 states it.
SPECIFICATION Spec
CONSTANT MaxN = 1023
INVARIANT CompactRoundTrip
