------------------------------ MODULE TmQueue ------------------------------
(***************************************************************************)
(* src/tm_queue.c : the statically allocated ring that holds telemetry     *)
(* awaiting downlink.  A slot keeps MAX_SIZE octets; pushing a packet      *)
(* overwrites only its own octets, so a slot carries the stale tail of the *)
(* packet that was there before, and tm_queue_init clears neither slots    *)
(* nor lengths.  The promise (module BoundedFifo) is that none of this is  *)
(* visible to a caller.                                                    *)
(***************************************************************************)
EXTENDS PusTypes, Sequences

CONSTANTS DEPTH,        \* PUS_TM_QUEUE_DEPTH
          MAX_SIZE,     \* PUS_MAX_PACKET_SIZE, in octets
          COUNTER_MAX,  \* 0xFFFF
          OCTETS,       \* the values of an octet
          CAPACITIES    \* the buffer sizes a caller of pop may offer

ASSUME DepthAssumption == DEPTH \in Nat \ {0}
ASSUME SizeAssumption == MAX_SIZE \in Nat \ {0}
ASSUME CounterAssumption == COUNTER_MAX \in Nat
ASSUME OctetAssumption == 0 \in OCTETS
ASSUME CapacityAssumption == CAPACITIES \subseteq Nat

VARIABLES slots,      \* s_slots
          lengths,    \* s_lengths
          head,       \* s_head, index of the oldest packet
          count,      \* s_count, packets stored
          overflows,  \* s_overflows, packets dropped since the last init
          ret,        \* status returned by the last call
          out         \* what the last successful pop wrote to its buffer

vars == <<slots, lengths, head, count, overflows, ret, out>>

Indices == 0 .. DEPTH - 1
Slot == [1 .. MAX_SIZE -> OCTETS]
\* Buffers a caller may offer: empty ones and ones that are too long included.
Packets == UNION {[1 .. n -> OCTETS] : n \in 0 .. MAX_SIZE + 1}

-----------------------------------------------------------------------------
\* Static storage is zeroed before main; tm_queue_init then runs on it.
Init == /\ slots = [i \in Indices |-> [j \in 1 .. MAX_SIZE |-> 0]]
        /\ lengths = [i \in Indices |-> 0]
        /\ head = 0 /\ count = 0 /\ overflows = 0
        /\ ret = PUS_OK /\ out = <<>>

tm_queue_init == /\ head' = 0 /\ count' = 0 /\ overflows' = 0
                 /\ UNCHANGED <<slots, lengths, ret, out>>

\* The slot the next packet goes to.
TailIndex == (head + count) % DEPTH

\* for (i = 0; i < len; ++i) s_slots[tail][i] = packet[i]
Overwrite(slot, packet) ==
  [i \in 1 .. MAX_SIZE |-> IF i <= Len(packet) THEN packet[i] ELSE slot[i]]

\* Mutant: the comparison lets one packet too many in.
Full_off_by_one == count > DEPTH

Full == count >= DEPTH

\* if (s_overflows < 0xFFFF) s_overflows += 1
CountOverflow == overflows' = IF overflows < COUNTER_MAX THEN overflows + 1 ELSE overflows

\* Mutant: the length of the packet is not recorded.
Store_forgets_length(tail, packet) ==
  /\ slots' = [slots EXCEPT ![tail] = Overwrite(@, packet)]
  /\ UNCHANGED lengths

Store(tail, packet) ==
  /\ slots' = [slots EXCEPT ![tail] = Overwrite(@, packet)]
  /\ lengths' = [lengths EXCEPT ![tail] = Len(packet)]

tm_queue_push(packet) ==
  /\ UNCHANGED <<head, out>>
  /\ \/ /\ Len(packet) = 0 \/ Len(packet) > MAX_SIZE
        /\ ret' = PUS_ERR_BAD_LENGTH
        /\ UNCHANGED <<slots, lengths, count, overflows>>
     \/ /\ Len(packet) \in 1 .. MAX_SIZE /\ Full
        /\ CountOverflow
        /\ ret' = PUS_ERR_QUEUE_FULL
        /\ UNCHANGED <<slots, lengths, count>>
     \/ /\ Len(packet) \in 1 .. MAX_SIZE /\ ~Full
        /\ Store(TailIndex, packet)
        /\ count' = count + 1
        /\ ret' = PUS_OK
        /\ UNCHANGED overflows

\* Mutant: the head is not advanced past a packet that was handed over.
NextHead_stuck == head
\* s_head = (s_head + 1) % DEPTH
NextHead == (head + 1) % DEPTH

\* for (i = 0; i < len; ++i) buf[i] = s_slots[s_head][i]
Copy(slot, len) == [i \in 1 .. len |-> slot[i]]

tm_queue_pop(cap) ==
  /\ UNCHANGED <<slots, lengths, overflows>>
  /\ \/ /\ count = 0
        /\ ret' = PUS_ERR_QUEUE_FULL   \* empty: nothing to hand over
        /\ UNCHANGED <<head, count, out>>
     \/ /\ count # 0 /\ cap < lengths[head]
        /\ ret' = PUS_ERR_BUFFER_TOO_SMALL
        /\ UNCHANGED <<head, count, out>>
     \/ /\ count # 0 /\ cap >= lengths[head]
        /\ out' = Copy(slots[head], lengths[head])
        /\ head' = NextHead
        /\ count' = count - 1
        /\ ret' = PUS_OK

\* tm_queue_push(NULL, ..), tm_queue_pop(NULL, ..), tm_queue_pop(.., NULL)
NullArgument == /\ ret' = PUS_ERR_NULL
                /\ UNCHANGED <<slots, lengths, head, count, overflows, out>>

Next == \/ tm_queue_init
        \/ \E packet \in Packets : tm_queue_push(packet)
        \/ \E cap \in CAPACITIES : tm_queue_pop(cap)
        \/ NullArgument

Spec == Init /\ [][Next]_vars

-----------------------------------------------------------------------------
\* Types of the ring's statics, with the ranges the index arithmetic of
\* tm_queue.c relies on: the head is a slot, the count never exceeds the depth.
TypeOK == /\ slots \in [Indices -> Slot]
          /\ lengths \in [Indices -> 0 .. MAX_SIZE]
          /\ head \in Indices
          /\ count \in 0 .. DEPTH
          /\ overflows \in 0 .. COUNTER_MAX
          /\ ret \in pus_status_t
          /\ out \in Packets

\* Index of the i-th oldest packet.
SlotOf(i) == (head + i - 1) % DEPTH
\* The packets a reader of the ring sees, oldest first.
Stored == [i \in 1 .. count |-> Copy(slots[SlotOf(i)], lengths[SlotOf(i)])]

\* Every occupied slot holds a packet of legal length: what tm_queue_pop copies
\* out is never empty and never longer than the slot, although lengths is not
\* cleared by tm_queue_init and octets beyond a packet's end are stale.
OccupiedSlotsHoldPackets ==
  \A i \in 1 .. count : lengths[SlotOf(i)] \in 1 .. MAX_SIZE

Fifo == INSTANCE BoundedFifo WITH fifo <- Stored
\* The ring implements the bounded FIFO: push and pop of tm_queue.c behave, call
\* by call and status by status, as operations on the sequence of stored packets.
ImplementsBoundedFifo == Fifo!Spec
=============================================================================
