\* Two readers and a writer that adds two events and commits three times.
\* The threads make a bounded number of calls and then stop, so the final
\* states have no successor.
CONSTANTS
  Readers = {r1, r2}
  MaxEvents = 2
  MaxCommits = 3
  MaxReads = 2
  Dangling = Dangling
SPECIFICATION Spec
INVARIANT TypeOK
INVARIANT ReplicasConverge
INVARIANT CommittedVisible
CHECK_DEADLOCK FALSE
