\* Two producers and a draining consumer: drain reserves a slot whose
\* producer has claimed it but not yet stamped it.
CONSTANTS
  Producers = {p1, p2}
  Capacity = 2
  MaxOffers = 2
  DrainLimit = 2
  ConsumerOps = {"drain"}
  None = None
SPECIFICATION Spec
PROPERTY FifoRefinement
