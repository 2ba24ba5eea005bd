\* Three producers racing for the slots of a two-slot ring; the consumer polls.
CONSTANTS
  Producers = {p1, p2, p3}
  Capacity = 2
  MaxOffers = 2
  DrainLimit = 2
  ConsumerOps = {"poll"}
  None = None
SPECIFICATION Spec
INVARIANT BoundedOccupancy
PROPERTY FifoRefinement
PROPERTY AllDelivered
