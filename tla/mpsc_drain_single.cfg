\* One producer (as in the code's drain test); the consumer mixes poll and
\* drain with a batch limit of three.
CONSTANTS
  Producers = {p1}
  Capacity = 4
  MaxOffers = 9
  DrainLimit = 3
  ConsumerOps = {"poll", "drain"}
  None = None
SPECIFICATION Spec
INVARIANT TypeOK
INVARIANT BoundedOccupancy
PROPERTY FifoRefinement
PROPERTY AllDelivered
