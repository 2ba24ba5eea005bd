----------------------------- MODULE MpscQueue -----------------------------
(***************************************************************************)
(* The multi-producer / single-consumer ring queue of                      *)
(* a19_concurrent/src/queue/mpsc_queue.rs.                                 *)
(*                                                                         *)
(* Every atomic access of the code is its own step where another thread   *)
(* could observe the difference: a producer loads the producer cursor,    *)
(* then checks capacity against the consumer cursor, then loads the slot  *)
(* id, then tries compare_exchange_weak, then writes the payload, then    *)
(* stamps the slot id.  The consumer's poll claims (advance the sequence  *)
(* and take the payload) and then clears the slot id; drain reserves a    *)
(* batch by advancing the sequence once and then takes and clears each    *)
(* slot.  Spin loops are waits: a step that would only spin is disabled.  *)
(* The value a producer offers on its k-th successful offer is <<q, k>>,  *)
(* so loss, duplication and reordering are all visible.                   *)
(***************************************************************************)
EXTENDS Naturals, Sequences, FiniteSets, Bitwise

CONSTANTS
  Producers,    \* producer threads sharing the MpscQueueWrap
  Capacity,     \* ring size after round_to_power_of_two
  MaxOffers,    \* successful offers per producer (bounds the model)
  DrainLimit,   \* the `limit` argument of drain
  ConsumerOps,  \* the calls the consumer thread makes: subset of {"poll", "drain"}
  None          \* Option::None in a slot's value

ASSUME Capacity \in {2^k : k \in 0..8}
ASSUME MaxOffers \in Nat \ {0} /\ DrainLimit \in Nat \ {0}
ASSUME ConsumerOps \subseteq {"poll", "drain"} /\ ConsumerOps /= {}

Values == Producers \X (1..MaxOffers)

\* Highest index any run can claim; indices start at 1.
MaxIndex == Cardinality(Producers) * MaxOffers

VARIABLES
  producer,   \* producer.counter: next index to claim
  sequence,   \* sequence_number.counter: next index the consumer reserves
  ring,       \* ring_buffer: slot -> [id, value]
  ppc,        \* producer program counter
  pIndex,     \* producer's local p_index
  sent,       \* successful offers of each producer
  cpc,        \* consumer program counter
  sIndex,     \* consumer's local s_index
  request,    \* drain's local request
  i,          \* drain's loop variable
  received    \* values returned by poll or passed to drain's act

vars == <<producer, sequence, ring, ppc, pIndex, sent, cpc, sIndex,
          request, i, received>>

\* mask = capacity - 1; pos(index) = index & mask
mask == Capacity - 1

pos(index) == index & mask

Slots == 0..mask

\* The payload producer q hands to its current offer.
Offered(q) == <<q, sent[q] + 1>>

MinOf(a, b) == IF a < b THEN a ELSE b

-----------------------------------------------------------------------------
(* MpscQueue::new: cursors at 1, every slot empty (id 0, value None).      *)
Init ==
  /\ producer = 1
  /\ sequence = 1
  /\ ring = [s \in Slots |-> [id |-> 0, value |-> None]]
  /\ ppc = [q \in Producers |-> "offer"]
  /\ pIndex = [q \in Producers |-> 0]
  /\ sent = [q \in Producers |-> 0]
  /\ cpc = "idle"
  /\ sIndex = 0
  /\ request = 0
  /\ i = 0
  /\ received = <<>>

ConsumerVars == <<cpc, sIndex, request, i, received>>

-----------------------------------------------------------------------------
(* offer: one iteration of its loop is LoadProducer .. CasSucceed; every  *)
(* failure goes back to "offer" (the loop reloads both cursors).  A false *)
(* return is retried by the caller, as the code's tests do.               *)

LoadProducer(q) ==
  /\ ppc[q] = "offer"
  /\ sent[q] < MaxOffers
  /\ pIndex' = [pIndex EXCEPT ![q] = producer]
  /\ ppc' = [ppc EXCEPT ![q] = "capacity"]
  /\ UNCHANGED <<producer, sequence, ring, sent>> /\ UNCHANGED ConsumerVars

\* Mutant of HasRoom: the full test off by one (<= for <).
HasRoomOffByOne(p, c) == p < Capacity \/ p - Capacity <= c

\* p_index < capacity || p_index - capacity < c_index
HasRoom(p, c) == p < Capacity \/ p - Capacity < c

CapacityOk(q) ==
  /\ ppc[q] = "capacity"
  /\ HasRoom(pIndex[q], sequence)
  /\ ppc' = [ppc EXCEPT ![q] = "slot"]
  /\ UNCHANGED <<producer, sequence, ring, pIndex, sent>> /\ UNCHANGED ConsumerVars

\* offer returns false; the caller offers the same value again.
OfferFull(q) ==
  /\ ppc[q] = "capacity"
  /\ ~HasRoom(pIndex[q], sequence)
  /\ ppc' = [ppc EXCEPT ![q] = "offer"]
  /\ UNCHANGED <<producer, sequence, ring, pIndex, sent>> /\ UNCHANGED ConsumerVars

\* Mutant of SlotFree: the wait for a zero slot id dropped.
SlotFreeUnchecked(q) ==
  /\ ppc[q] = "slot"
  /\ ppc' = [ppc EXCEPT ![q] = "cas"]
  /\ UNCHANGED <<producer, sequence, ring, pIndex, sent>> /\ UNCHANGED ConsumerVars

\* node.id.load(Acquire) == 0
SlotFree(q) ==
  /\ ppc[q] = "slot"
  /\ ring[pos(pIndex[q])].id = 0
  /\ ppc' = [ppc EXCEPT ![q] = "cas"]
  /\ UNCHANGED <<producer, sequence, ring, pIndex, sent>> /\ UNCHANGED ConsumerVars

\* The slot still holds an earlier lap: yield_now and go around again.
SlotBusy(q) ==
  /\ ppc[q] = "slot"
  /\ ring[pos(pIndex[q])].id /= 0
  /\ ppc' = [ppc EXCEPT ![q] = "offer"]
  /\ UNCHANGED <<producer, sequence, ring, pIndex, sent>> /\ UNCHANGED ConsumerVars

\* compare_exchange_weak(p_index, p_index + 1) succeeds: the slot is claimed.
CasSucceed(q) ==
  /\ ppc[q] = "cas"
  /\ producer = pIndex[q]
  /\ producer' = pIndex[q] + 1
  /\ ppc' = [ppc EXCEPT ![q] = "write"]
  /\ UNCHANGED <<sequence, ring, pIndex, sent>> /\ UNCHANGED ConsumerVars

\* The cursor moved, or the weak exchange failed spuriously.
CasFail(q) ==
  /\ ppc[q] = "cas"
  /\ ppc' = [ppc EXCEPT ![q] = "offer"]
  /\ UNCHANGED <<producer, sequence, ring, pIndex, sent>> /\ UNCHANGED ConsumerVars

\* node.value = Some(value)
Write(q) ==
  /\ ppc[q] = "write"
  /\ ring' = [ring EXCEPT ![pos(pIndex[q])].value = Offered(q)]
  /\ ppc' = [ppc EXCEPT ![q] = "stamp"]
  /\ UNCHANGED <<producer, sequence, pIndex, sent>> /\ UNCHANGED ConsumerVars

\* node.id.store(p_index); offer returns true.
Stamp(q) ==
  /\ ppc[q] = "stamp"
  /\ ring' = [ring EXCEPT ![pos(pIndex[q])].id = pIndex[q]]
  /\ sent' = [sent EXCEPT ![q] = @ + 1]
  /\ ppc' = [ppc EXCEPT ![q] = "offer"]
  /\ UNCHANGED <<producer, sequence, pIndex>> /\ UNCHANGED ConsumerVars

-----------------------------------------------------------------------------
(* poll                                                                    *)

\* p_index <= s_index: poll returns None; drain returns 0.
ConsumeEmpty ==
  /\ cpc = "idle"
  /\ producer <= sequence
  /\ UNCHANGED vars

\* Mutant of PollTake: the stamp check node_id == s_index dropped.
PollTakeUnchecked ==
  /\ cpc = "idle"
  /\ "poll" \in ConsumerOps
  /\ producer > sequence
  /\ sequence' = sequence + 1
  /\ sIndex' = sequence
  /\ ring' = [ring EXCEPT ![pos(sequence)].value = None]
  /\ received' = IF ring[pos(sequence)].value = None THEN received
                 ELSE Append(received, ring[pos(sequence)].value)
  /\ cpc' = "pollClear"
  /\ UNCHANGED <<producer, ppc, pIndex, sent, request, i>>

\* The slot carries the stamp s_index: advance the sequence and move the
\* value out.  A None value is returned as None (the item is lost).
PollTake ==
  /\ cpc = "idle"
  /\ "poll" \in ConsumerOps
  /\ producer > sequence
  /\ ring[pos(sequence)].id = sequence
  /\ sequence' = sequence + 1
  /\ sIndex' = sequence
  /\ ring' = [ring EXCEPT ![pos(sequence)].value = None]
  /\ received' = IF ring[pos(sequence)].value = None THEN received
                 ELSE Append(received, ring[pos(sequence)].value)
  /\ cpc' = "pollClear"
  /\ UNCHANGED <<producer, ppc, pIndex, sent, request, i>>

\* Mutant of PollClear: the slot id is never reset to 0.
PollClearNoReset ==
  /\ cpc = "pollClear"
  /\ cpc' = "idle"
  /\ UNCHANGED <<producer, sequence, ring, ppc, pIndex, sent, sIndex, request, i, received>>

\* node.id.store(0)
PollClear ==
  /\ cpc = "pollClear"
  /\ ring' = [ring EXCEPT ![pos(sIndex)].id = 0]
  /\ cpc' = "idle"
  /\ UNCHANGED <<producer, sequence, ppc, pIndex, sent, sIndex, request, i, received>>

-----------------------------------------------------------------------------
(* drain                                                                   *)

\* Mutant of DrainReserve: the batch is the limit, not limit.min(elements_left).
DrainReserveNoMin ==
  /\ cpc = "idle"
  /\ "drain" \in ConsumerOps
  /\ producer > sequence
  /\ request' = DrainLimit
  /\ sIndex' = sequence
  /\ sequence' = sequence + DrainLimit
  /\ i' = 0
  /\ cpc' = "drainTake"
  /\ UNCHANGED <<producer, ring, ppc, pIndex, sent, received>>

\* Reserve min(limit, p_index - s_index) slots by one store of the sequence.
DrainReserve ==
  /\ cpc = "idle"
  /\ "drain" \in ConsumerOps
  /\ producer > sequence
  /\ request' = MinOf(DrainLimit, producer - sequence)
  /\ sIndex' = sequence
  /\ sequence' = sequence + MinOf(DrainLimit, producer - sequence)
  /\ i' = 0
  /\ cpc' = "drainTake"
  /\ UNCHANGED <<producer, ring, ppc, pIndex, sent, received>>

\* The slot of s_index + i carries that stamp: move the value out and call
\* act; a None value is the panic "Found a None!".
DrainTake ==
  LET idx == sIndex + i
      v   == ring[pos(idx)].value
  IN /\ cpc = "drainTake"
     /\ ring[pos(idx)].id = idx
     /\ ring' = [ring EXCEPT ![pos(idx)].value = None]
     /\ IF v = None
          THEN cpc' = "panicked" /\ UNCHANGED received
          ELSE cpc' = "drainClear" /\ received' = Append(received, v)
     /\ UNCHANGED <<producer, sequence, ppc, pIndex, sent, sIndex, request, i>>

\* Mutant of DrainClear: the slot id is never reset to 0.
DrainClearNoReset ==
  /\ cpc = "drainClear"
  /\ i' = i + 1
  /\ cpc' = IF i + 1 = request THEN "idle" ELSE "drainTake"
  /\ UNCHANGED <<producer, sequence, ring, ppc, pIndex, sent, sIndex, request, received>>

\* node.id.store(0) and on to the next reserved slot.
DrainClear ==
  /\ cpc = "drainClear"
  /\ ring' = [ring EXCEPT ![pos(sIndex + i)].id = 0]
  /\ i' = i + 1
  /\ cpc' = IF i + 1 = request THEN "idle" ELSE "drainTake"
  /\ UNCHANGED <<producer, sequence, ppc, pIndex, sent, sIndex, request, received>>

-----------------------------------------------------------------------------
Producer(q) ==
  \/ LoadProducer(q) \/ CapacityOk(q) \/ OfferFull(q) \/ SlotFree(q)
  \/ SlotBusy(q) \/ CasSucceed(q) \/ CasFail(q) \/ Write(q) \/ Stamp(q)

Consumer == ConsumeEmpty \/ PollTake \/ PollClear \/ DrainReserve \/ DrainTake \/ DrainClear

Next == (\E q \in Producers : Producer(q)) \/ Consumer

(* Threads are OS threads that yield while spinning, so each keeps being  *)
(* scheduled.  compare_exchange_weak may fail spuriously, but not forever *)
(* while the cursor is unchanged: its success is strongly fair.            *)
Fairness ==
  /\ WF_vars(Consumer)
  /\ \A q \in Producers : WF_vars(Producer(q)) /\ SF_vars(CasSucceed(q))

Spec == Init /\ [][Next]_vars /\ Fairness

-----------------------------------------------------------------------------
(* Refinement mapping to FifoQueue.  Index k is the k-th claim; the       *)
(* consumer has handed over indices 1..Len(received).  A claimed index's  *)
(* value is still in its producer's hands until Write, in its slot after. *)
Item(idx) ==
  IF \E q \in Producers : ppc[q] = "write" /\ pIndex[q] = idx
    THEN Offered(CHOOSE q \in Producers : ppc[q] = "write" /\ pIndex[q] = idx)
    ELSE ring[pos(idx)].value

AbsQueue == [k \in 1..(producer - 1 - Len(received)) |-> Item(Len(received) + k)]

Abstract == INSTANCE FifoQueue WITH queue <- AbsQueue, received <- received

-----------------------------------------------------------------------------
TypeOK ==
  /\ producer \in 1..(MaxIndex + 1)
  /\ sequence \in 1..(MaxIndex + 1)
  /\ ring \in [Slots -> [id : 0..MaxIndex, value : Values \cup {None}]]
  /\ ppc \in [Producers -> {"offer", "capacity", "slot", "cas", "write", "stamp"}]
  /\ pIndex \in [Producers -> 0..(MaxIndex + 1)]
  /\ sent \in [Producers -> 0..MaxOffers]
  /\ cpc \in {"idle", "pollClear", "drainTake", "drainClear", "panicked"}
  /\ received \in Seq(Values)

(* The items claimed by offer and not yet handed to the consumer never    *)
(* exceed the ring's capacity: the capacity check in offer, together with *)
(* its wait for a zero slot id, keeps a producer from claiming an index   *)
(* whose slot still belongs to an item the consumer has not taken.         *)
BoundedOccupancy == producer - 1 - Len(received) <= Capacity

(* Every successful offer is handed to the consumer exactly once and in   *)
(* claim order (compare_exchange order): mpsc_queue.rs refines FifoQueue. *)
FifoRefinement == Abstract!Spec

(* Every offered value is eventually returned by poll or passed to        *)
(* drain's act: the consumer never spins forever on a slot (the code's    *)
(* "Got stuck" / "Failed to get the node!" panics).                       *)
AllDelivered == <>(Len(received) = MaxIndex)

=============================================================================
