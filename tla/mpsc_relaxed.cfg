\* One producer (so the multi-producer drain race of mpsc_drain_race cannot
\* occur), a consumer that polls and drains, two slots and three offers.
\* Offer's stamp and the consumer's clears may become visible before the
\* payload access that precedes them.
CONSTANTS
  Producers = {p1}
  Capacity = 2
  MaxOffers = 3
  DrainLimit = 2
  ConsumerOps = {"poll", "drain"}
  None = None
  Reorders = {"stamp", "clear"}
SPECIFICATION SpecRelaxed
INVARIANT ProducerOrderKept
CHECK_DEADLOCK FALSE
