----------------------------- MODULE ByteBuffer -----------------------------
(***************************************************************************)
(* AtomicByteBufferInt of a19_concurrent/src/buffer/atomic_buffer.rs.      *)
(*                                                                         *)
(* The buffer is a vector of bytes owned by one caller (&mut self), so    *)
(* its operations are sequential: each call is one step.  The fences of   *)
(* the _volatile accessors order memory and change no byte, so a volatile *)
(* accessor differs from its plain one only in the slice it takes.        *)
(* A call whose slice lies outside the vector panics; the panicked        *)
(* caller makes no further calls.                                         *)
(*                                                                         *)
(* The bytes themselves are left out: BigEndian (the byteorder crate) is  *)
(* not in this repository, and the property checked here is about which   *)
(* calls panic, which depends only on the slice each call takes.          *)
(***************************************************************************)
EXTENDS Integers, FiniteSets

CONSTANTS
  Size,        \* the size passed to AtomicByteBufferInt::new
  Positions,   \* byte offsets callers pass
  Lengths,     \* lengths passed to get_bytes, set_bytes and write_bytes
  MaxCalls     \* bound on the number of calls a caller makes

(* a19_core::pow2::round_to_power_of_two, which is not in this repository:  *)
(* the smallest power of two that is at least n.                           *)
RECURSIVE PowerAtLeast(_, _)
PowerAtLeast(n, p) == IF p >= n THEN p ELSE PowerAtLeast(n, 2 * p)

RoundToPowerOfTwo(n) == PowerAtLeast(n, 1)

Capacity == RoundToPowerOfTwo(Size)

MaxMessageSize == Capacity \div 8

Index == 0..(Capacity - 1)

LONG_SIZE == 8
INT_SIZE == 4
SHORT_SIZE == 2

calculate_offset_long(position) == position + LONG_SIZE
calculate_offset_32(position) == position + INT_SIZE
calculate_offset_16(position) == position + SHORT_SIZE

(* The ten typed accessors: get_/put_ of u16, i16, u32, i32, u64, i64 and  *)
(* the _volatile variants of the 32- and 64-bit ones.                      *)
Accessors ==
  { a \in [width : {SHORT_SIZE, INT_SIZE, LONG_SIZE}, signed : BOOLEAN,
           volatile : BOOLEAN] : ~(a.volatile /\ a.width = SHORT_SIZE) }

(* The end of the slice an accessor takes at `position`.  Every _volatile  *)
(* accessor, the 32-bit ones included, slices with calculate_offset_long. *)
SliceEnd(a, position) ==
  CASE a.volatile              -> calculate_offset_long(position)
    [] a.width = LONG_SIZE     -> calculate_offset_long(position)
    [] a.width = INT_SIZE      -> calculate_offset_32(position)
    [] a.width = SHORT_SIZE    -> calculate_offset_16(position)

VARIABLES
  status,      \* "ok" or "panicked"
  fault,       \* the [pos, width] of the access that panicked, or NoFault
  calls        \* calls made so far

vars == <<status, fault, calls>>

NoFault == [pos |-> -1, width |-> 0]

Init ==
  /\ status = "ok"
  /\ fault = NoFault
  /\ calls = 0

MayCall == status = "ok" /\ calls < MaxCalls

(* A plain typed get or put whose slice lies inside the vector. *)
Access(a, position) ==
  /\ MayCall
  /\ ~a.volatile
  /\ SliceEnd(a, position) <= Capacity
  /\ calls' = calls + 1
  /\ UNCHANGED <<status, fault>>

(* A _volatile get or put whose slice lies inside the vector; its fence  *)
(* changes no byte.                                                       *)
VolatileAccess(a, position) ==
  /\ MayCall
  /\ a.volatile
  /\ SliceEnd(a, position) <= Capacity
  /\ calls' = calls + 1
  /\ UNCHANGED <<status, fault>>

(* A typed get or put whose slice runs past the vector: the index panics. *)
AccessOutOfRange(a, position) ==
  /\ MayCall
  /\ SliceEnd(a, position) > Capacity
  /\ status' = "panicked"
  /\ fault' = [pos |-> position, width |-> a.width]
  /\ calls' = calls + 1

(* get_bytes, set_bytes or write_bytes over position..position+length     *)
(* inside the vector.                                                     *)
BytesAccess(position, length) ==
  /\ MayCall
  /\ position + length <= Capacity
  /\ calls' = calls + 1
  /\ UNCHANGED <<status, fault>>

(* The same past the vector: the slice index panics. *)
BytesOutOfRange(position, length) ==
  /\ MayCall
  /\ position + length > Capacity
  /\ status' = "panicked"
  /\ fault' = [pos |-> position, width |-> length]
  /\ calls' = calls + 1

Next ==
  \/ \E a \in Accessors, position \in Positions :
        Access(a, position) \/ VolatileAccess(a, position) \/ AccessOutOfRange(a, position)
  \/ \E position \in Positions, n \in Lengths :
        BytesAccess(position, n) \/ BytesOutOfRange(position, n)

Spec == Init /\ [][Next]_vars

-----------------------------------------------------------------------------
TypeOK ==
  /\ status \in {"ok", "panicked"}
  /\ calls \in 0..MaxCalls

(* Only a caller that breaks the contract "offset + width <= capacity"    *)
(* (spec sections 3, 4.1 and 7) may make an accessor panic.  The 32-bit   *)
(* volatile accessors slice 8 bytes, so they panic on an in-contract      *)
(* offset within 8 bytes of the end.                                      *)
InContractNoPanic ==
  status = "panicked" => fault.pos + fault.width > Capacity

=============================================================================
