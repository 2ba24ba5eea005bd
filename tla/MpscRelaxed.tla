---------------------------- MODULE MpscRelaxed -----------------------------
(***************************************************************************)
(* MpscQueue under the memory orderings mpsc_queue.rs actually asks for.   *)
(*                                                                         *)
(* offer stamps node.id with Ordering::Relaxed after the plain write of    *)
(* the payload (line 210); poll (line 130) and drain (line 169) store id 0 *)
(* with Ordering::Relaxed after moving the payload out.  No store is a     *)
(* release, so the other side's Acquire load of the id gives no            *)
(* happens-before edge to the payload access: the accesses to node.value  *)
(* race (undefined behaviour).  Each reordering is modelled as the id      *)
(* store taking effect first and the payload access in a later step; the  *)
(* racing access then sees the slot as it is by then.  Reorders chooses   *)
(* which stores may move.                                                  *)
(***************************************************************************)
EXTENDS MpscQueue

CONSTANT Reorders   \* subset of {"stamp", "clear"}

ASSUME Reorders \subseteq {"stamp", "clear"}

\* node.id.store(p_index, Relaxed) becomes visible before node.value = Some(value).
StampEarly(q) ==
  /\ "stamp" \in Reorders
  /\ ppc[q] = "write"
  /\ ring' = [ring EXCEPT ![pos(pIndex[q])].id = pIndex[q]]
  /\ ppc' = [ppc EXCEPT ![q] = "lateWrite"]
  /\ UNCHANGED <<producer, sequence, pIndex, sent>> /\ UNCHANGED ConsumerVars

\* The payload write lands after the stamp; offer returns true.
LateWrite(q) ==
  /\ ppc[q] = "lateWrite"
  /\ ring' = [ring EXCEPT ![pos(pIndex[q])].value = Offered(q)]
  /\ sent' = [sent EXCEPT ![q] = @ + 1]
  /\ ppc' = [ppc EXCEPT ![q] = "offer"]
  /\ UNCHANGED <<producer, sequence, pIndex>> /\ UNCHANGED ConsumerVars

\* poll: the sequence store and node.id.store(0, Relaxed) become visible
\* before the replace that moves the value out.
PollClearEarly ==
  /\ "clear" \in Reorders
  /\ cpc = "idle"
  /\ "poll" \in ConsumerOps
  /\ producer > sequence
  /\ ring[pos(sequence)].id = sequence
  /\ sequence' = sequence + 1
  /\ sIndex' = sequence
  /\ ring' = [ring EXCEPT ![pos(sequence)].id = 0]
  /\ cpc' = "pollLateTake"
  /\ UNCHANGED <<producer, ppc, pIndex, sent, request, i, received>>

\* replace(&mut node.value, None) reads whatever the slot holds by now;
\* poll returns it.
PollLateTake ==
  LET v == ring[pos(sIndex)].value
  IN /\ cpc = "pollLateTake"
     /\ ring' = [ring EXCEPT ![pos(sIndex)].value = None]
     /\ received' = IF v = None THEN received ELSE Append(received, v)
     /\ cpc' = "idle"
     /\ UNCHANGED <<producer, sequence, ppc, pIndex, sent, sIndex, request, i>>

\* drain: node.id.store(0, Relaxed) becomes visible before the replace.
DrainClearEarly ==
  LET idx == sIndex + i
  IN /\ "clear" \in Reorders
     /\ cpc = "drainTake"
     /\ ring[pos(idx)].id = idx
     /\ ring' = [ring EXCEPT ![pos(idx)].id = 0]
     /\ cpc' = "drainLateTake"
     /\ UNCHANGED <<producer, sequence, ppc, pIndex, sent, sIndex, request, i, received>>

\* The late replace: None is the panic "Found a None!", else act(value) and
\* on to the next reserved slot.
DrainLateTake ==
  LET idx == sIndex + i
      v   == ring[pos(idx)].value
  IN /\ cpc = "drainLateTake"
     /\ ring' = [ring EXCEPT ![pos(idx)].value = None]
     /\ IF v = None
          THEN cpc' = "panicked" /\ UNCHANGED <<received, i>>
          ELSE /\ received' = Append(received, v)
               /\ i' = i + 1
               /\ cpc' = IF i + 1 = request THEN "idle" ELSE "drainTake"
     /\ UNCHANGED <<producer, sequence, ppc, pIndex, sent, sIndex, request>>

NextRelaxed ==
  \/ Next
  \/ \E q \in Producers : StampEarly(q) \/ LateWrite(q)
  \/ PollClearEarly \/ PollLateTake \/ DrainClearEarly \/ DrainLateTake

SpecRelaxed == Init /\ [][NextRelaxed]_vars

-----------------------------------------------------------------------------
(* The values of producer q (<<q, k>> for its k-th offer) reach the        *)
(* consumer in the order q offered them, each once, and drain never hits   *)
(* its "Found a None!" panic (spec: each successfully offered item is      *)
(* delivered exactly once, in claim order).  A stamp seen before its       *)
(* payload makes drain take None, and poll return None and lose the item; *)
(* a clear seen before the move lets the next lap's offer land in the slot *)
(* before the consumer moves the old value out.                            *)
ProducerOrderKept ==
  /\ cpc /= "panicked"
  /\ \A q \in Producers :
       LET mine == SelectSeq(received, LAMBDA v : v[1] = q)
       IN mine = [k \in 1..Len(mine) |-> <<q, k>>]

=============================================================================
