----------------------------- MODULE SpscQueue -----------------------------
(***************************************************************************)
(* The single-producer / single-consumer ring queue of                     *)
(* a19_concurrent/src/queue/spsc_queue.rs, reached through                 *)
(* SpscQueueSendWrap (offer) and SpscQueueReceiveWrap (poll, drain, peek). *)
(*                                                                         *)
(* The producer is the only writer of the producer cursor, so its load of *)
(* that cursor is exact and its slot-id check and cursor store form one   *)
(* step.  Its payload write and its id stamp are further steps: the       *)
(* cursor is advanced before the payload is there.  The consumer's steps  *)
(* are those of the MPSC queue.  peek hands the caller a reference into   *)
(* the slot; `held` is that reference while the caller keeps it.          *)
(***************************************************************************)
EXTENDS Naturals, Sequences, Bitwise

CONSTANTS
  Capacity,     \* ring size after round_to_power_of_two
  MaxOffers,    \* successful offers (bounds the model)
  DrainLimit,   \* the `limit` argument of drain
  ConsumerOps,  \* calls the consumer thread makes: subset of {"poll", "drain", "peek"}
  PollWhilePeeked, \* may the consumer poll or drain while holding a peek reference?
  None,         \* Option::None in a slot's value
  NoRef         \* no peek reference held

ASSUME Capacity \in {2^k : k \in 0..8}
ASSUME MaxOffers \in Nat \ {0} /\ DrainLimit \in Nat \ {0}
ASSUME ConsumerOps \subseteq {"poll", "drain", "peek"}
ASSUME PollWhilePeeked \in BOOLEAN

\* The k-th successful offer carries value k.
Values == 1..MaxOffers

VARIABLES
  producer,   \* producer.counter
  sequence,   \* sequence_number.counter
  ring,       \* ring_buffer: slot -> [id, value]
  ppc,        \* producer program counter
  sent,       \* successful offers
  cpc,        \* consumer program counter
  sIndex,     \* consumer's local s_index
  request,    \* drain's local request
  i,          \* drain's loop variable
  received,   \* values returned by poll or passed to drain's act
  held        \* [slot, value] behind the reference peek returned, or NoRef

vars == <<producer, sequence, ring, ppc, sent, cpc, sIndex, request, i,
          received, held>>

mask == Capacity - 1

pos(index) == index & mask

Slots == 0..mask

MinOf(a, b) == IF a < b THEN a ELSE b

-----------------------------------------------------------------------------
Init ==
  /\ producer = 1
  /\ sequence = 1
  /\ ring = [s \in Slots |-> [id |-> 0, value |-> None]]
  /\ ppc = "capacity"
  /\ sent = 0
  /\ cpc = "idle"
  /\ sIndex = 0
  /\ request = 0
  /\ i = 0
  /\ received = <<>>
  /\ held = NoRef

ConsumerVars == <<cpc, sIndex, request, i, received, held>>

-----------------------------------------------------------------------------
(* offer                                                                   *)

HasRoom(p, c) == p < Capacity \/ p - Capacity < c

\* The queue is full: offer returns false and the caller offers again.
OfferFull ==
  /\ ppc = "capacity"
  /\ sent < MaxOffers
  /\ ~HasRoom(producer, sequence)
  /\ UNCHANGED vars

\* Room, but the slot still carries the previous lap's stamp: yield, loop.
SlotBusy ==
  /\ ppc = "capacity"
  /\ sent < MaxOffers
  /\ HasRoom(producer, sequence)
  /\ ring[pos(producer)].id /= 0
  /\ UNCHANGED vars

\* Mutant of Claim: the wait for a zero slot id dropped.
ClaimUnchecked ==
  /\ ppc = "capacity"
  /\ sent < MaxOffers
  /\ HasRoom(producer, sequence)
  /\ producer' = producer + 1
  /\ ppc' = "write"
  /\ UNCHANGED <<sequence, ring, sent>> /\ UNCHANGED ConsumerVars

\* Room and the slot id is 0: producer.counter.store(p_index + 1).
Claim ==
  /\ ppc = "capacity"
  /\ sent < MaxOffers
  /\ HasRoom(producer, sequence)
  /\ ring[pos(producer)].id = 0
  /\ producer' = producer + 1
  /\ ppc' = "write"
  /\ UNCHANGED <<sequence, ring, sent>> /\ UNCHANGED ConsumerVars

\* node.value = Some(value), at the slot of the index just claimed.
Write ==
  /\ ppc = "write"
  /\ ring' = [ring EXCEPT ![pos(producer - 1)].value = sent + 1]
  /\ ppc' = "stamp"
  /\ UNCHANGED <<producer, sequence, sent>> /\ UNCHANGED ConsumerVars

\* node.id.store(p_index); offer returns true.
Stamp ==
  /\ ppc = "stamp"
  /\ ring' = [ring EXCEPT ![pos(producer - 1)].id = producer - 1]
  /\ sent' = sent + 1
  /\ ppc' = "capacity"
  /\ UNCHANGED <<producer, sequence>> /\ UNCHANGED ConsumerVars

-----------------------------------------------------------------------------
(* poll, drain, peek                                                       *)

\* The consumer may start a poll or drain now.
MayConsume == cpc = "idle" /\ (PollWhilePeeked \/ held = NoRef)

ConsumeEmpty ==
  /\ cpc = "idle"
  /\ producer <= sequence
  /\ UNCHANGED vars

\* Mutant of PollTake: the stamp check node_id == s_index dropped.
PollTakeUnchecked ==
  /\ MayConsume
  /\ "poll" \in ConsumerOps
  /\ producer > sequence
  /\ sequence' = sequence + 1
  /\ sIndex' = sequence
  /\ ring' = [ring EXCEPT ![pos(sequence)].value = None]
  /\ received' = IF ring[pos(sequence)].value = None THEN received
                 ELSE Append(received, ring[pos(sequence)].value)
  /\ cpc' = "pollClear"
  /\ UNCHANGED <<producer, ppc, sent, request, i, held>>

PollTake ==
  /\ MayConsume
  /\ "poll" \in ConsumerOps
  /\ producer > sequence
  /\ ring[pos(sequence)].id = sequence
  /\ sequence' = sequence + 1
  /\ sIndex' = sequence
  /\ ring' = [ring EXCEPT ![pos(sequence)].value = None]
  /\ received' = IF ring[pos(sequence)].value = None THEN received
                 ELSE Append(received, ring[pos(sequence)].value)
  /\ cpc' = "pollClear"
  /\ UNCHANGED <<producer, ppc, sent, request, i, held>>

\* Mutant of PollClear: the slot id is never reset to 0.
PollClearNoReset ==
  /\ cpc = "pollClear"
  /\ cpc' = "idle"
  /\ UNCHANGED <<producer, sequence, ring, ppc, sent, sIndex, request, i, received, held>>

PollClear ==
  /\ cpc = "pollClear"
  /\ ring' = [ring EXCEPT ![pos(sIndex)].id = 0]
  /\ cpc' = "idle"
  /\ UNCHANGED <<producer, sequence, ppc, sent, sIndex, request, i, received, held>>

\* Mutant of DrainReserve: the batch is the limit, not limit.min(elements_left).
DrainReserveNoMin ==
  /\ MayConsume
  /\ "drain" \in ConsumerOps
  /\ producer > sequence
  /\ request' = DrainLimit
  /\ sIndex' = sequence
  /\ sequence' = sequence + DrainLimit
  /\ i' = 0
  /\ cpc' = "drainTake"
  /\ UNCHANGED <<producer, ring, ppc, sent, received, held>>

DrainReserve ==
  /\ MayConsume
  /\ "drain" \in ConsumerOps
  /\ producer > sequence
  /\ request' = MinOf(DrainLimit, producer - sequence)
  /\ sIndex' = sequence
  /\ sequence' = sequence + MinOf(DrainLimit, producer - sequence)
  /\ i' = 0
  /\ cpc' = "drainTake"
  /\ UNCHANGED <<producer, ring, ppc, sent, received, held>>

DrainTake ==
  LET idx == sIndex + i
      v   == ring[pos(idx)].value
  IN /\ cpc = "drainTake"
     /\ ring[pos(idx)].id = idx
     /\ ring' = [ring EXCEPT ![pos(idx)].value = None]
     /\ IF v = None
          THEN cpc' = "panicked" /\ UNCHANGED received
          ELSE cpc' = "drainClear" /\ received' = Append(received, v)
     /\ UNCHANGED <<producer, sequence, ppc, sent, sIndex, request, i, held>>

DrainClear ==
  /\ cpc = "drainClear"
  /\ ring' = [ring EXCEPT ![pos(sIndex + i)].id = 0]
  /\ i' = i + 1
  /\ cpc' = IF i + 1 = request THEN "idle" ELSE "drainTake"
  /\ UNCHANGED <<producer, sequence, ppc, sent, sIndex, request, received, held>>

\* peek returns Some(&value) when the oldest slot carries the stamp
\* s_index; the caller keeps the reference.
Peek ==
  /\ cpc = "idle"
  /\ "peek" \in ConsumerOps
  /\ held = NoRef
  /\ producer > sequence
  /\ ring[pos(sequence)].id = sequence
  /\ ring[pos(sequence)].value /= None
  /\ held' = [slot |-> pos(sequence), value |-> ring[pos(sequence)].value]
  /\ UNCHANGED <<producer, sequence, ring, ppc, sent, cpc, sIndex, request, i, received>>

\* The caller drops the reference peek returned.
DropPeek ==
  /\ held /= NoRef
  /\ held' = NoRef
  /\ UNCHANGED <<producer, sequence, ring, ppc, sent, cpc, sIndex, request, i, received>>

-----------------------------------------------------------------------------
Producer == OfferFull \/ SlotBusy \/ Claim \/ Write \/ Stamp

Consumer ==
  \/ ConsumeEmpty \/ PollTake \/ PollClear \/ DrainReserve \/ DrainTake
  \/ DrainClear \/ Peek \/ DropPeek

Next == Producer \/ Consumer

\* The steps that hand values over, as opposed to peeking at them.
Consume == PollTake \/ PollClear \/ DrainReserve \/ DrainTake \/ DrainClear

(* Both sides are OS threads that yield while they spin.  The consumer's  *)
(* loop drops a peek reference and goes on to poll or drain: between two   *)
(* of its polls it peeks only finitely often, so consuming is strongly     *)
(* fair (peeking can disable it again and again).                          *)
Fairness ==
  /\ WF_vars(Producer)
  /\ WF_vars(DropPeek)
  /\ SF_vars(Consume)

Spec == Init /\ [][Next]_vars /\ Fairness

-----------------------------------------------------------------------------
(* Refinement mapping to FifoQueue: index k carries value k, in the       *)
(* producer's hands until Write and in its slot afterwards.               *)
Item(idx) ==
  IF ppc = "write" /\ idx = producer - 1 THEN sent + 1 ELSE ring[pos(idx)].value

AbsQueue == [k \in 1..(producer - 1 - Len(received)) |-> Item(Len(received) + k)]

Abstract == INSTANCE FifoQueue WITH queue <- AbsQueue, received <- received

-----------------------------------------------------------------------------
TypeOK ==
  /\ producer \in 1..(MaxOffers + 1)
  /\ sequence \in 1..(MaxOffers + 1)
  /\ ring \in [Slots -> [id : 0..MaxOffers, value : Values \cup {None}]]
  /\ ppc \in {"capacity", "write", "stamp"}
  /\ sent \in 0..MaxOffers
  /\ cpc \in {"idle", "pollClear", "drainTake", "drainClear", "panicked"}
  /\ received \in Seq(Values)
  /\ held \in {NoRef} \cup [slot : Slots, value : Values]

(* Claimed and not yet handed over never exceeds the capacity: offer's     *)
(* capacity check and its wait for a zero slot id keep the producer off a  *)
(* slot the consumer has reserved (by drain) but not yet taken.            *)
BoundedOccupancy == producer - 1 - Len(received) <= Capacity

(* Every offered value reaches the consumer exactly once, in offer order:  *)
(* spsc_queue.rs refines FifoQueue.                                        *)
FifoRefinement == Abstract!Spec

(* Every offered value is eventually returned by poll or passed to act:   *)
(* no spin of poll, drain or offer goes on forever.                        *)
AllDelivered == <>(Len(received) = MaxOffers)

(* While the caller holds the reference peek returned, the value behind   *)
(* it is the value peek saw: it is neither moved out by poll or drain nor  *)
(* overwritten by the producer.                                            *)
PeekStable == held /= NoRef => ring[held.slot].value = held.value

=============================================================================
