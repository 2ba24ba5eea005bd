\* One producer; the consumer polls, drains in batches of three and peeks,
\* dropping each peek reference before its next poll or drain.
CONSTANTS
  Capacity = 4
  MaxOffers = 9
  DrainLimit = 3
  ConsumerOps = {"poll", "drain", "peek"}
  PollWhilePeeked = FALSE
  None = None
  NoRef = NoRef
SPECIFICATION Spec
INVARIANT TypeOK
INVARIANT BoundedOccupancy
PROPERTY FifoRefinement
PROPERTY AllDelivered
