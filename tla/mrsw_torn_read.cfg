\* One reader and a writer that adds two events and commits three times.
CONSTANTS
  Readers = {r1}
  MaxEvents = 2
  MaxCommits = 3
  MaxReads = 2
  Dangling = Dangling
SPECIFICATION Spec
INVARIANT NoTornRead
CHECK_DEADLOCK FALSE
