\* One producer, one polling consumer, two slots and three offers.  Both
\* Relaxed id stores may become visible before the payload access that
\* precedes them: offer's stamp, and poll's clear.
CONSTANTS
  Capacity = 2
  MaxOffers = 3
  DrainLimit = 1
  ConsumerOps = {"poll"}
  PollWhilePeeked = FALSE
  None = None
  NoRef = NoRef
  Reorders = {"stamp", "clear"}
SPECIFICATION SpecRelaxed
INVARIANT ReceivedInOrder
CHECK_DEADLOCK FALSE
