\* Size 5 rounds to a capacity of 8.  Offsets 0, 2, 4 and 6 put 16-, 32- and
\* 64-bit slices and 3-byte ranges inside the vector, at its end and past it.
CONSTANTS
  Size = 5
  Positions = {0, 2, 4, 6}
  Lengths = {3}
  MaxCalls = 2
INIT Init
NEXT Next
INVARIANT InContractNoPanic
\* The caller makes MaxCalls calls, or panics, and stops.
CHECK_DEADLOCK FALSE
