---------------------------- MODULE SpscRelaxed -----------------------------
(***************************************************************************)
(* SpscQueue under the memory orderings spsc_queue.rs actually asks for.   *)
(*                                                                         *)
(* offer stores the slot id with Ordering::Relaxed after the plain write   *)
(* of the payload, and poll and drain store id 0 with Ordering::Relaxed    *)
(* after moving the payload out.  A Relaxed store is no release: the      *)
(* other thread's Acquire load of the id may see it while the payload     *)
(* access before it in program order is not yet visible (a data race on   *)
(* node.value, whose outcome the build decides).  Each such reordering is *)
(* modelled as the id store taking effect first, and the payload access  *)
(* happening in a later step.  Reorders chooses which stores may move.    *)
(***************************************************************************)
EXTENDS SpscQueue

CONSTANT Reorders   \* subset of {"stamp", "clear"}

ASSUME Reorders \subseteq {"stamp", "clear"}

\* node.id.store(p_index, Relaxed) becomes visible before node.value = Some(value).
StampEarly ==
  /\ "stamp" \in Reorders
  /\ ppc = "write"
  /\ ring' = [ring EXCEPT ![pos(producer - 1)].id = producer - 1]
  /\ ppc' = "lateWrite"
  /\ UNCHANGED <<producer, sequence, sent>> /\ UNCHANGED ConsumerVars

\* The payload write lands after the stamp; offer returns true.
LateWrite ==
  /\ ppc = "lateWrite"
  /\ ring' = [ring EXCEPT ![pos(producer - 1)].value = sent + 1]
  /\ sent' = sent + 1
  /\ ppc' = "capacity"
  /\ UNCHANGED <<producer, sequence>> /\ UNCHANGED ConsumerVars

\* poll: the sequence store and node.id.store(0, Relaxed) become visible
\* before the replace that moves the value out.
PollClearEarly ==
  /\ "clear" \in Reorders
  /\ MayConsume
  /\ "poll" \in ConsumerOps
  /\ producer > sequence
  /\ ring[pos(sequence)].id = sequence
  /\ sequence' = sequence + 1
  /\ sIndex' = sequence
  /\ ring' = [ring EXCEPT ![pos(sequence)].id = 0]
  /\ cpc' = "pollLateTake"
  /\ UNCHANGED <<producer, ppc, sent, request, i, received, held>>

\* replace(&mut node.value, None) reads whatever the slot holds by now.
PollLateTake ==
  LET v == ring[pos(sIndex)].value
  IN /\ cpc = "pollLateTake"
     /\ ring' = [ring EXCEPT ![pos(sIndex)].value = None]
     /\ received' = IF v = None THEN received ELSE Append(received, v)
     /\ cpc' = "idle"
     /\ UNCHANGED <<producer, sequence, ppc, sent, sIndex, request, i, held>>

NextRelaxed == Next \/ StampEarly \/ LateWrite \/ PollClearEarly \/ PollLateTake

SpecRelaxed == Init /\ [][NextRelaxed]_vars

-----------------------------------------------------------------------------
(* The k-th value poll or drain hands over is the k-th value offered       *)
(* (spec: delivery in claim order, each item once).  A stamp seen before   *)
(* its payload makes poll return None for a claimed item, which is then    *)
(* skipped; a clear seen before the move lets the producer's next lap     *)
(* overwrite the value poll is about to move out.                          *)
ReceivedInOrder == \A k \in 1..Len(received) : received[k] = k

=============================================================================
