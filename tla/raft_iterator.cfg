\* An iterator over two message files, from message 1 or 3, committed up to
\* message 3 or 4, reading two or three messages.
CONSTANTS
  Files <- MCFiles
  Contents <- MCContents
  Numbers = {2, 3}
  StartIds = {1, 3}
  MaxCommitIds = {3, 4}
SPECIFICATION Spec
INVARIANT IteratorReadsLog
CHECK_DEADLOCK FALSE
