----------------------------- MODULE FifoQueue -----------------------------
(***************************************************************************)
(* What the ring queues of a19_concurrent promise their callers: every    *)
(* successfully offered value is handed to the single consumer exactly    *)
(* once, in the order in which the offers claimed their slots.  An offer  *)
(* enqueues atomically at its claim; the consumer dequeues the head.      *)
(* Failed offers and empty polls are stuttering steps.                    *)
(***************************************************************************)
EXTENDS Sequences

CONSTANT Values

VARIABLES
  queue,     \* values claimed and not yet handed to the consumer, in claim order
  received   \* every value handed to the consumer, in delivery order

Init ==
  /\ queue = <<>>
  /\ received = <<>>

Enqueue(v) ==
  /\ queue' = Append(queue, v)
  /\ UNCHANGED received

Dequeue ==
  /\ queue /= <<>>
  /\ received' = Append(received, Head(queue))
  /\ queue' = Tail(queue)

Next == (\E v \in Values : Enqueue(v)) \/ Dequeue

Spec == Init /\ [][Next]_<<queue, received>>

=============================================================================
