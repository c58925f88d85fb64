\* Guest strings of up to two code units ('A', 'é', 'α', '€' and the two
\* halves of U+1F600) in 8 bytes of memory; headers of an odd length and of
\* one past the 1 MiB guard.
SPECIFICATION Spec
CONSTANTS
  MemSize = 8
  CodeUnits = {65, 233, 945, 8364, 55357, 56832}
  MaxUnits = 2
  Lengths = {1, 1048578}
  MaxWrites = 2
INVARIANT ReadsAsSpecified
