--------------------------- MODULE TmQueueProofs ---------------------------
(***************************************************************************)
(* The ring of src/tm_queue.c implements the bounded FIFO, for every       *)
(* depth, packet size, counter width and alphabet of octets.               *)
(***************************************************************************)
EXTENDS TmQueue, SequenceTheorems, TLAPS

-----------------------------------------------------------------------------
(* Index arithmetic of the ring *)

\* Adding a distance of at most DEPTH to a ring index wraps around at most once.
LEMMA WrapAround ==
  ASSUME NEW h \in Indices, NEW d \in 0 .. DEPTH
  PROVE  /\ (h + d) % DEPTH = IF h + d < DEPTH THEN h + d ELSE h + d - DEPTH
         /\ (h + d) % DEPTH \in Indices
  BY DepthAssumption, SMTT(30) DEF Indices

\* The slots of the stored packets are indices of the ring, the free slot at the
\* tail is one too, and it belongs to none of the stored packets.
LEMMA SlotsDistinct ==
  ASSUME head \in Indices, count \in 0 .. DEPTH
  PROVE  /\ \A i \in 1 .. count : SlotOf(i) \in Indices
         /\ count < DEPTH => /\ TailIndex \in Indices
                             /\ SlotOf(count + 1) = TailIndex
                             /\ \A i \in 1 .. count : SlotOf(i) # TailIndex
<1>1. \A i \in 1 .. count : /\ i - 1 \in 0 .. DEPTH
                            /\ head + i - 1 = head + (i - 1)
  BY DepthAssumption DEF Indices
<1>2. \A i \in 1 .. count : SlotOf(i) = (head + (i - 1)) % DEPTH
  BY <1>1 DEF SlotOf
<1>3. \A i \in 1 .. count : SlotOf(i) \in Indices
  BY <1>1, <1>2, WrapAround
<1>4. ASSUME count < DEPTH
      PROVE  /\ TailIndex \in Indices
             /\ SlotOf(count + 1) = TailIndex
             /\ \A i \in 1 .. count : SlotOf(i) # TailIndex
  <2>1. TailIndex \in Indices
    BY WrapAround DEF TailIndex
  <2>2. SlotOf(count + 1) = TailIndex
    <3>1. head + (count + 1) - 1 = head + count
      BY DepthAssumption DEF Indices
    <3>2. QED
      BY <3>1 DEF SlotOf, TailIndex
  <2>3. ASSUME NEW i \in 1 .. count
        PROVE  SlotOf(i) # TailIndex
    <3>1. SlotOf(i) = IF head + (i - 1) < DEPTH THEN head + (i - 1) ELSE head + (i - 1) - DEPTH
      BY <1>1, <1>2, WrapAround
    <3>2. TailIndex = IF head + count < DEPTH THEN head + count ELSE head + count - DEPTH
      BY WrapAround DEF TailIndex
    <3>3. QED
      BY <1>4, <3>1, <3>2, DepthAssumption DEF Indices
  <2>4. QED
    BY <2>1, <2>2, <2>3
<1>5. QED
  BY <1>3, <1>4

\* Advancing the head by one moves every packet one place towards the front.
LEMMA HeadAdvance ==
  ASSUME head \in Indices, count \in 1 .. DEPTH
  PROVE  /\ SlotOf(1) = head
         /\ NextHead \in Indices
         /\ \A i \in 1 .. count - 1 : (NextHead + i - 1) % DEPTH = SlotOf(i + 1)
<1>1. SlotOf(1) = head
  <2>1. head + 1 - 1 = head + 0
    BY DepthAssumption DEF Indices
  <2>2. (head + 0) % DEPTH = head
    <3>1. 0 \in 0 .. DEPTH /\ head + 0 = head /\ head < DEPTH
      BY DepthAssumption DEF Indices
    <3>2. (head + 0) % DEPTH = IF head + 0 < DEPTH THEN head + 0 ELSE head + 0 - DEPTH
      BY <3>1, WrapAround
    <3>3. QED
      BY <3>1, <3>2
  <2>3. QED
    BY <2>1, <2>2 DEF SlotOf
<1>2. NextHead = IF head + 1 < DEPTH THEN head + 1 ELSE head + 1 - DEPTH
  BY WrapAround, DepthAssumption DEF NextHead
<1>3. NextHead \in Indices
  BY WrapAround, DepthAssumption DEF NextHead
<1>4. ASSUME NEW i \in 1 .. count - 1
      PROVE  (NextHead + i - 1) % DEPTH = SlotOf(i + 1)
  <2>1. /\ i - 1 \in 0 .. DEPTH
        /\ i \in 0 .. DEPTH
        /\ NextHead + i - 1 = NextHead + (i - 1)
        /\ head + (i + 1) - 1 = head + i
    BY <1>3, DepthAssumption DEF Indices
  <2>2. (NextHead + (i - 1)) % DEPTH
          = IF NextHead + (i - 1) < DEPTH THEN NextHead + (i - 1) ELSE NextHead + (i - 1) - DEPTH
    BY <1>3, <2>1, WrapAround
  <2>3. (head + i) % DEPTH = IF head + i < DEPTH THEN head + i ELSE head + i - DEPTH
    BY <2>1, WrapAround
  <2>4. (NextHead + (i - 1)) % DEPTH = (head + i) % DEPTH
    BY <1>2, <2>1, <2>2, <2>3, DepthAssumption DEF Indices
  <2>5. QED
    BY <2>1, <2>4 DEF SlotOf
<1>5. QED
  BY <1>1, <1>3, <1>4

-----------------------------------------------------------------------------
(* What a reader of the ring sees *)

\* A function on 1 .. n is a sequence of length n.
LEMMA FunctionIsSequence ==
  ASSUME NEW S, NEW n \in Nat, NEW f \in [1 .. n -> S]
  PROVE  f \in Seq(S) /\ Len(f) = n
<1>1. f \in Seq(S)
  BY SeqDef
<1>2. Len(f) \in Nat /\ 1 .. Len(f) = 1 .. n
  BY <1>1, LenProperties
<1>3. QED
  BY <1>1, <1>2

\* Sequences of the same length that agree everywhere are equal.
LEMMA SameSequence ==
  ASSUME NEW S, NEW T, NEW s \in Seq(S), NEW t \in Seq(T), Len(s) = Len(t),
         \A i \in 1 .. Len(s) : s[i] = t[i]
  PROVE  s = t
<1>1. s \in [1 .. Len(s) -> S] /\ t \in [1 .. Len(s) -> T]
  BY LenProperties
<1>2. s = [i \in 1 .. Len(s) |-> s[i]] /\ t = [i \in 1 .. Len(s) |-> t[i]]
  BY <1>1
<1>3. QED
  BY <1>2, Zenon

\* Copying the first n octets of a slot gives a packet of n octets.
LEMMA CopyIsPacket ==
  ASSUME NEW slot \in Slot, NEW n \in 1 .. MAX_SIZE
  PROVE  Copy(slot, n) \in Packets /\ Len(Copy(slot, n)) = n
<1>1. Copy(slot, n) \in [1 .. n -> OCTETS] /\ n \in Nat /\ n \in 0 .. MAX_SIZE + 1
  BY SizeAssumption DEF Copy, Slot
<1>2. QED
  BY <1>1, FunctionIsSequence DEF Packets

\* The stored packets, as sequences.
StoredFacts == /\ Stored \in Seq(Packets)
               /\ Len(Stored) = count
               /\ \A i \in 1 .. count :
                    /\ Stored[i] = Copy(slots[SlotOf(i)], lengths[SlotOf(i)])
                    /\ Len(Stored[i]) = lengths[SlotOf(i)]

LEMMA StoredProperties == TypeOK /\ OccupiedSlotsHoldPackets => StoredFacts
<1> SUFFICES ASSUME TypeOK, OccupiedSlotsHoldPackets PROVE StoredFacts
  OBVIOUS
<1>1. count \in Nat /\ head \in Indices /\ count \in 0 .. DEPTH
  BY DepthAssumption DEF TypeOK
<1>2. ASSUME NEW i \in 1 .. count
      PROVE  /\ SlotOf(i) \in Indices
             /\ Copy(slots[SlotOf(i)], lengths[SlotOf(i)]) \in Packets
             /\ Len(Copy(slots[SlotOf(i)], lengths[SlotOf(i)])) = lengths[SlotOf(i)]
  <2>1. SlotOf(i) \in Indices
    BY <1>1, SlotsDistinct
  <2>2. slots[SlotOf(i)] \in Slot /\ lengths[SlotOf(i)] \in 1 .. MAX_SIZE
    BY <2>1 DEF TypeOK, OccupiedSlotsHoldPackets
  <2>3. QED
    BY <2>1, <2>2, CopyIsPacket
<1>3. Stored \in [1 .. count -> Packets]
  BY <1>2 DEF Stored
<1>4. Stored \in Seq(Packets) /\ Len(Stored) = count
  BY <1>1, <1>3, FunctionIsSequence
<1>5. QED
  BY <1>2, <1>4 DEF Stored, StoredFacts

\* Overwriting a slot with a packet and copying as many octets out gives the
\* packet back, whatever the slot held before.
LEMMA OverwriteThenCopy ==
  ASSUME NEW slot \in Slot, NEW packet \in Packets, Len(packet) \in 1 .. MAX_SIZE
  PROVE  /\ Overwrite(slot, packet) \in Slot
         /\ Copy(Overwrite(slot, packet), Len(packet)) = packet
<1>1. PICK n \in 0 .. MAX_SIZE + 1 : packet \in [1 .. n -> OCTETS]
  BY DEF Packets
<1>2. Len(packet) = n /\ n \in 1 .. MAX_SIZE
  BY <1>1, FunctionIsSequence, SizeAssumption
<1>3. Overwrite(slot, packet) \in Slot
  BY <1>1, <1>2, SizeAssumption DEF Overwrite, Slot
<1>4. \A i \in 1 .. n : Overwrite(slot, packet)[i] = packet[i]
  BY <1>2, SizeAssumption DEF Overwrite
<1>5. Copy(Overwrite(slot, packet), n) = [i \in 1 .. n |-> packet[i]]
  BY <1>4 DEF Copy
<1>6. [i \in 1 .. n |-> packet[i]] = packet
  BY <1>1
<1>7. QED
  BY <1>2, <1>3, <1>5, <1>6

-----------------------------------------------------------------------------
(* The inductive invariant *)

IInv == TypeOK /\ OccupiedSlotsHoldPackets

LEMMA InitIInv == Init => IInv
<1> SUFFICES ASSUME Init PROVE IInv
  OBVIOUS
<1>1. TypeOK
  <2>1. <<>> \in Packets
    <3>1. <<>> \in [1 .. 0 -> OCTETS] /\ 0 \in 0 .. MAX_SIZE + 1
      BY SizeAssumption
    <3>2. QED
      BY <3>1 DEF Packets
  <2>2. QED
    BY <2>1, DepthAssumption, SizeAssumption, CounterAssumption, OctetAssumption
    DEF Init, TypeOK, Indices, Slot, pus_status_t, PUS_OK
<1>2. OccupiedSlotsHoldPackets
  BY DEF Init, OccupiedSlotsHoldPackets
<1>3. QED
  BY <1>1, <1>2 DEF IInv

\* A push that finds room.
PushStores(packet) == /\ UNCHANGED <<head, out, overflows>>
                      /\ Len(packet) \in 1 .. MAX_SIZE /\ ~Full
                      /\ Store(TailIndex, packet)
                      /\ count' = count + 1
                      /\ ret' = PUS_OK

\* What it does to the slots of the stored packets.
LEMMA PushStoresSlots ==
  ASSUME IInv, NEW packet \in Packets, PushStores(packet)
  PROVE  /\ count < DEPTH /\ count' = count + 1 /\ TailIndex \in Indices
         /\ slots' \in [Indices -> Slot] /\ lengths' \in [Indices -> 0 .. MAX_SIZE]
         /\ SlotOf(count + 1) = TailIndex
         /\ \A i : SlotOf(i)' = SlotOf(i)
         /\ lengths'[TailIndex] = Len(packet)
         /\ Copy(slots'[TailIndex], lengths'[TailIndex]) = packet
         /\ \A i \in 1 .. count : /\ SlotOf(i) \in Indices
                                  /\ slots'[SlotOf(i)] = slots[SlotOf(i)]
                                  /\ lengths'[SlotOf(i)] = lengths[SlotOf(i)]
<1>1. head \in Indices /\ count \in 0 .. DEPTH /\ slots \in [Indices -> Slot]
      /\ lengths \in [Indices -> 0 .. MAX_SIZE] /\ head' = head
  BY DEF IInv, TypeOK, PushStores
<1>2. count < DEPTH /\ count' = count + 1
  BY <1>1, DepthAssumption DEF PushStores, Full
<1>3. /\ \A i \in 1 .. count : SlotOf(i) \in Indices
      /\ TailIndex \in Indices
      /\ SlotOf(count + 1) = TailIndex
      /\ \A i \in 1 .. count : SlotOf(i) # TailIndex
  BY <1>1, <1>2, SlotsDistinct
<1>4. /\ Overwrite(slots[TailIndex], packet) \in Slot
      /\ Copy(Overwrite(slots[TailIndex], packet), Len(packet)) = packet
      /\ Len(packet) \in 0 .. MAX_SIZE
  BY <1>1, <1>3, OverwriteThenCopy DEF PushStores
<1>5. /\ slots' = [slots EXCEPT ![TailIndex] = Overwrite(slots[TailIndex], packet)]
      /\ lengths' = [lengths EXCEPT ![TailIndex] = Len(packet)]
  BY DEF PushStores, Store
<1>6. \A i : SlotOf(i)' = SlotOf(i)
  BY <1>1 DEF SlotOf
<1>7. slots' \in [Indices -> Slot] /\ lengths' \in [Indices -> 0 .. MAX_SIZE]
  BY <1>1, <1>3, <1>4, <1>5
<1>8. /\ slots'[TailIndex] = Overwrite(slots[TailIndex], packet)
      /\ lengths'[TailIndex] = Len(packet)
      /\ \A i \in Indices : i # TailIndex => slots'[i] = slots[i] /\ lengths'[i] = lengths[i]
  BY <1>1, <1>3, <1>5
<1>9. QED
  BY <1>2, <1>3, <1>4, <1>6, <1>7, <1>8

\* A pop that hands a packet over.
PopHands(cap) == /\ UNCHANGED <<slots, lengths, overflows>>
                 /\ count # 0 /\ cap >= lengths[head]
                 /\ out' = Copy(slots[head], lengths[head])
                 /\ head' = NextHead
                 /\ count' = count - 1
                 /\ ret' = PUS_OK

\* What it does to the slots of the stored packets.
LEMMA PopHandsSlots ==
  ASSUME IInv, NEW cap, PopHands(cap)
  PROVE  /\ count \in 1 .. DEPTH /\ count' \in 0 .. DEPTH /\ count' = count - 1
         /\ head' \in Indices
         /\ SlotOf(1) = head
         /\ \A i \in 1 .. count - 1 : SlotOf(i)' = SlotOf(i + 1)
<1>1. head \in Indices /\ count \in 1 .. DEPTH
  BY DepthAssumption DEF IInv, TypeOK, PopHands
<1>2. /\ SlotOf(1) = head
      /\ NextHead \in Indices
      /\ \A i \in 1 .. count - 1 : (NextHead + i - 1) % DEPTH = SlotOf(i + 1)
  BY <1>1, HeadAdvance
<1>3. \A i : SlotOf(i)' = (NextHead + i - 1) % DEPTH
  BY DEF SlotOf, PopHands
<1>4. QED
  BY <1>1, <1>2, <1>3, DepthAssumption DEF PopHands

\* Every step keeps the ring well formed.
LEMMA NextIInv == IInv /\ [Next]_vars => IInv'
<1> SUFFICES ASSUME IInv, [Next]_vars PROVE IInv'
  OBVIOUS
<1> USE DEF IInv
<1>1. CASE tm_queue_init
  <2>1. TypeOK'
    BY <1>1, DepthAssumption, CounterAssumption DEF tm_queue_init, TypeOK, Indices
  <2>2. OccupiedSlotsHoldPackets'
    BY <1>1 DEF tm_queue_init, OccupiedSlotsHoldPackets
  <2>3. QED
    BY <2>1, <2>2
<1>2. ASSUME NEW packet \in Packets, tm_queue_push(packet)
      PROVE  IInv'
  <2>1. CASE /\ UNCHANGED <<head, out, slots, lengths, count>>
             /\ overflows' \in 0 .. COUNTER_MAX /\ ret' \in pus_status_t
    BY <2>1 DEF TypeOK, OccupiedSlotsHoldPackets, SlotOf
  <2>2. CASE PushStores(packet)
    <3>1. TypeOK'
      BY <2>2, PushStoresSlots, DepthAssumption
      DEF TypeOK, PushStores, pus_status_t, PUS_OK
    <3>2. ASSUME NEW i \in 1 .. count'
          PROVE  lengths'[SlotOf(i)'] \in 1 .. MAX_SIZE
      <4>1. i \in 1 .. count \/ i = count + 1
        BY <2>2, PushStoresSlots, DepthAssumption DEF TypeOK
      <4>2. CASE i \in 1 .. count
        BY <2>2, <4>2, PushStoresSlots DEF OccupiedSlotsHoldPackets
      <4>3. CASE i = count + 1
        BY <2>2, <4>3, PushStoresSlots DEF PushStores
      <4>4. QED
        BY <4>1, <4>2, <4>3
    <3>3. OccupiedSlotsHoldPackets'
      BY <3>2 DEF OccupiedSlotsHoldPackets
    <3>4. QED
      BY <3>1, <3>3
  <2>3. QED
    BY <1>2, <2>1, <2>2, CounterAssumption
    DEF tm_queue_push, PushStores, CountOverflow, TypeOK, pus_status_t,
        PUS_ERR_BAD_LENGTH, PUS_ERR_QUEUE_FULL
<1>3. ASSUME NEW cap \in CAPACITIES, tm_queue_pop(cap)
      PROVE  IInv'
  <2>1. CASE /\ UNCHANGED <<slots, lengths, overflows, head, count, out>>
             /\ ret' \in pus_status_t
    BY <2>1 DEF TypeOK, OccupiedSlotsHoldPackets, SlotOf
  <2>2. CASE PopHands(cap)
    <3>1. out' \in Packets
      <4>1. lengths[head] \in 1 .. MAX_SIZE /\ slots[head] \in Slot
        BY <2>2, PopHandsSlots, DepthAssumption DEF OccupiedSlotsHoldPackets, TypeOK
      <4>2. QED
        BY <2>2, <4>1, CopyIsPacket DEF PopHands
    <3>2. TypeOK'
      BY <2>2, <3>1, PopHandsSlots DEF TypeOK, PopHands, pus_status_t, PUS_OK
    <3>3. ASSUME NEW i \in 1 .. count'
          PROVE  lengths'[SlotOf(i)'] \in 1 .. MAX_SIZE
      <4>1. i \in 1 .. count - 1 /\ i + 1 \in 1 .. count
        BY <2>2, PopHandsSlots, DepthAssumption
      <4>2. QED
        BY <2>2, <4>1, PopHandsSlots DEF OccupiedSlotsHoldPackets, PopHands
    <3>4. OccupiedSlotsHoldPackets'
      BY <3>3 DEF OccupiedSlotsHoldPackets
    <3>5. QED
      BY <3>2, <3>4
  <2>3. QED
    BY <1>3, <2>1, <2>2
    DEF tm_queue_pop, PopHands, pus_status_t, PUS_ERR_QUEUE_FULL, PUS_ERR_BUFFER_TOO_SMALL
<1>4. CASE NullArgument
  BY <1>4 DEF NullArgument, TypeOK, OccupiedSlotsHoldPackets, SlotOf, pus_status_t, PUS_ERR_NULL
<1>5. CASE UNCHANGED vars
  BY <1>5 DEF vars, TypeOK, OccupiedSlotsHoldPackets, SlotOf
<1>6. QED
  BY <1>1, <1>2, <1>3, <1>4, <1>5 DEF Next

\* The ring is always well formed: indices stay in range and every occupied slot
\* holds a packet of legal length.
THEOREM RingWellFormed == Spec => [](TypeOK /\ OccupiedSlotsHoldPackets)
<1>1. Spec => []IInv
  BY InitIInv, NextIInv, PTL DEF Spec
<1>2. IInv => TypeOK /\ OccupiedSlotsHoldPackets
  BY DEF IInv
<1>3. QED
  BY <1>1, <1>2, PTL

\* No access of tm_queue_push or tm_queue_pop leaves s_slots or s_lengths: s_head stays
\* below the depth, s_count never exceeds it, and no length exceeds a slot.
THEOREM IndicesStayInRing == Spec => []TypeOK
  BY RingWellFormed, PTL
-----------------------------------------------------------------------------
(* The ring implements the bounded FIFO *)

\* As seen through the ring, a push that finds room appends the packet.
LEMMA PushAppends ==
  ASSUME IInv, IInv', NEW packet \in Packets, PushStores(packet)
  PROVE  Stored' = Append(Stored, packet)
<1>1. /\ Stored \in Seq(Packets) /\ Len(Stored) = count
      /\ \A i \in 1 .. count : Stored[i] = Copy(slots[SlotOf(i)], lengths[SlotOf(i)])
  BY StoredProperties DEF IInv, StoredFacts
<1>2. /\ Stored' \in Seq(Packets) /\ Len(Stored') = count'
      /\ \A i \in 1 .. count' : Stored'[i] = Copy(slots'[SlotOf(i)'], lengths'[SlotOf(i)'])
  <2>1. TypeOK' /\ OccupiedSlotsHoldPackets'
    BY DEF IInv
  <2>2. StoredFacts'
    BY <2>1, StoredProperties, PTL
  <2>3. QED
    BY <2>2 DEF StoredFacts
<1>3. /\ Append(Stored, packet) \in Seq(Packets)
      /\ Len(Append(Stored, packet)) = count + 1
      /\ \A i \in 1 .. count : Append(Stored, packet)[i] = Stored[i]
      /\ Append(Stored, packet)[count + 1] = packet
  BY <1>1, AppendProperties
<1>4. ASSUME NEW i \in 1 .. count'
      PROVE  Stored'[i] = Append(Stored, packet)[i]
  <2>1. i \in 1 .. count \/ i = count + 1
    BY PushStoresSlots DEF IInv, TypeOK
  <2>2. CASE i \in 1 .. count
    BY <1>1, <1>2, <1>3, <2>2, PushStoresSlots
  <2>3. CASE i = count + 1
    BY <1>2, <1>3, <2>3, PushStoresSlots
  <2>4. QED
    BY <2>1, <2>2, <2>3
<1>5. Len(Stored') = Len(Append(Stored, packet))
  BY <1>2, <1>3, PushStoresSlots
<1>6. QED
  BY <1>2, <1>3, <1>4, <1>5, SameSequence

\* As seen through the ring, a pop that hands a packet over takes the oldest.
LEMMA PopTakesHead ==
  ASSUME IInv, IInv', NEW cap, PopHands(cap)
  PROVE  /\ Stored # <<>>
         /\ out' = Head(Stored)
         /\ Len(Head(Stored)) = lengths[head]
         /\ Stored' = Tail(Stored)
<1>1. /\ Stored \in Seq(Packets) /\ Len(Stored) = count
      /\ \A i \in 1 .. count : /\ Stored[i] = Copy(slots[SlotOf(i)], lengths[SlotOf(i)])
                               /\ Len(Stored[i]) = lengths[SlotOf(i)]
  BY StoredProperties DEF IInv, StoredFacts
<1>2. /\ Stored' \in Seq(Packets) /\ Len(Stored') = count'
      /\ \A i \in 1 .. count' : Stored'[i] = Copy(slots'[SlotOf(i)'], lengths'[SlotOf(i)'])
  <2>1. TypeOK' /\ OccupiedSlotsHoldPackets'
    BY DEF IInv
  <2>2. StoredFacts'
    BY <2>1, StoredProperties, PTL
  <2>3. QED
    BY <2>2 DEF StoredFacts
<1>3. Stored # <<>> /\ Head(Stored) = Stored[1] /\ 1 \in 1 .. count
  BY <1>1, PopHandsSlots, DepthAssumption, EmptySeq
<1>4. /\ Tail(Stored) \in Seq(Packets)
      /\ Len(Tail(Stored)) = count - 1
      /\ \A i \in 1 .. count - 1 : Tail(Stored)[i] = Stored[i + 1]
  BY <1>1, <1>3, HeadTailProperties
<1>5. ASSUME NEW i \in 1 .. count'
      PROVE  Stored'[i] = Tail(Stored)[i]
  <2>1. i \in 1 .. count - 1 /\ i + 1 \in 1 .. count
    BY PopHandsSlots, DepthAssumption
  <2>2. QED
    BY <1>1, <1>2, <1>4, <2>1, PopHandsSlots DEF PopHands
<1>6. Stored' = Tail(Stored)
  BY <1>2, <1>4, <1>5, PopHandsSlots, SameSequence
<1>7. QED
  BY <1>1, <1>3, <1>6, PopHandsSlots DEF PopHands

\* The sequence of stored packets is empty, or full, when the count says so.
LEMMA StoredLength ==
  ASSUME IInv
  PROVE  /\ Len(Stored) = count /\ (Stored = <<>> <=> count = 0)
         /\ count # 0 => Len(Head(Stored)) = lengths[head]
<1>1. /\ Stored \in Seq(Packets) /\ Len(Stored) = count
      /\ \A i \in 1 .. count : Len(Stored[i]) = lengths[SlotOf(i)]
  BY StoredProperties DEF IInv, StoredFacts
<1>2. Stored = <<>> <=> count = 0
  BY <1>1, EmptySeq
<1>3. ASSUME count # 0
      PROVE  Len(Head(Stored)) = lengths[head]
  <2>1. count \in 1 .. DEPTH /\ head \in Indices
    BY <1>3, DepthAssumption DEF IInv, TypeOK
  <2>2. SlotOf(1) = head /\ 1 \in 1 .. count
    BY <2>1, HeadAdvance, DepthAssumption
  <2>3. Head(Stored) = Stored[1]
    BY <1>1, <1>2, <1>3
  <2>4. QED
    BY <1>1, <2>2, <2>3
<1>4. QED
  BY <1>1, <1>2, <1>3

\* A step that leaves the ring's slots and indices alone leaves the stored packets alone.
LEMMA StoredUnchanged ==
  ASSUME UNCHANGED <<slots, lengths, head, count>>
  PROVE  Stored' = Stored
  BY DEF Stored, SlotOf

\* Step simulation: every call on the ring is the same call on the FIFO.
LEMMA StepSimulation == IInv /\ IInv' /\ [Next]_vars => [Fifo!Next]_(Fifo!vars)
<1> SUFFICES ASSUME IInv, IInv', [Next]_vars PROVE [Fifo!Next]_(Fifo!vars)
  OBVIOUS
<1> USE DEF Fifo!Next, Fifo!vars, PUS_OK, Fifo!PUS_OK, PUS_ERR_NULL, Fifo!PUS_ERR_NULL,
            PUS_ERR_BAD_LENGTH, Fifo!PUS_ERR_BAD_LENGTH,
            PUS_ERR_QUEUE_FULL, Fifo!PUS_ERR_QUEUE_FULL,
            PUS_ERR_BUFFER_TOO_SMALL, Fifo!PUS_ERR_BUFFER_TOO_SMALL
<1>1. CASE tm_queue_init
  <2>1. Stored' = <<>>
    BY <1>1 DEF tm_queue_init, Stored
  <2>2. Fifo!Reset
    BY <1>1, <2>1 DEF tm_queue_init, Fifo!Reset
  <2>3. QED
    BY <2>2
<1>2. ASSUME NEW packet \in Packets, tm_queue_push(packet)
      PROVE  Fifo!Next
  <2>1. packet \in Fifo!Packets
    BY DEF Packets, Fifo!Packets
  <2>2. CASE /\ Len(packet) = 0 \/ Len(packet) > MAX_SIZE
             /\ ret' = PUS_ERR_BAD_LENGTH
             /\ UNCHANGED <<slots, lengths, count, overflows, head, out>>
    <3>1. PICK n \in 0 .. MAX_SIZE + 1 : packet \in [1 .. n -> OCTETS]
      BY DEF Packets
    <3>2. Len(packet) \in Nat
      BY <3>1, SizeAssumption, FunctionIsSequence
    <3>3. Len(packet) \notin 1 .. MAX_SIZE
      BY <2>2, <3>2, SizeAssumption
    <3>4. Stored' = Stored
      BY <2>2, StoredUnchanged
    <3>5. Fifo!Push(packet)
      BY <2>2, <3>3, <3>4 DEF Fifo!Push
    <3>6. QED
      BY <2>1, <3>5
  <2>3. CASE /\ Len(packet) \in 1 .. MAX_SIZE /\ Full
             /\ CountOverflow /\ ret' = PUS_ERR_QUEUE_FULL
             /\ UNCHANGED <<slots, lengths, count, head, out>>
    <3>1. Len(Stored) = DEPTH
      BY <2>3, StoredLength, DepthAssumption DEF Full, IInv, TypeOK
    <3>2. overflows' = Fifo!Lesser(overflows + 1, COUNTER_MAX)
      BY <2>3, CounterAssumption DEF CountOverflow, Fifo!Lesser, IInv, TypeOK
    <3>3. QED
      BY <2>1, <2>3, <3>1, <3>2, StoredUnchanged DEF Fifo!Push
  <2>4. CASE PushStores(packet)
    <3>1. Stored' = Append(Stored, packet) /\ Len(Stored) < DEPTH
      BY <2>4, PushAppends, PushStoresSlots, StoredLength
    <3>2. QED
      BY <2>1, <2>4, <3>1 DEF Fifo!Push, PushStores
  <2>5. QED
    BY <1>2, <2>2, <2>3, <2>4 DEF tm_queue_push, PushStores
<1>3. ASSUME NEW cap \in CAPACITIES, tm_queue_pop(cap)
      PROVE  Fifo!Next
  <2>1. CASE /\ count = 0 /\ ret' = PUS_ERR_QUEUE_FULL
             /\ UNCHANGED <<slots, lengths, overflows, head, count, out>>
    BY <2>1, StoredUnchanged, StoredLength DEF Fifo!Pop
  <2>2. CASE /\ count # 0 /\ cap < lengths[head] /\ ret' = PUS_ERR_BUFFER_TOO_SMALL
             /\ UNCHANGED <<slots, lengths, overflows, head, count, out>>
    BY <2>2, StoredUnchanged, StoredLength DEF Fifo!Pop
  <2>3. CASE PopHands(cap)
    BY <2>3, PopTakesHead DEF Fifo!Pop, PopHands
  <2>4. QED
    BY <1>3, <2>1, <2>2, <2>3 DEF tm_queue_pop, PopHands
<1>4. CASE NullArgument
  BY <1>4, StoredUnchanged DEF NullArgument, Fifo!NullArgument
<1>5. CASE UNCHANGED vars
  BY <1>5, StoredUnchanged DEF vars
<1>6. QED
  BY <1>1, <1>2, <1>3, <1>4, <1>5 DEF Next

\* Push and pop of src/tm_queue.c behave as operations on a bounded FIFO: the
\* newest packet is the one refused, order is kept, stale octets never show.
THEOREM RingImplementsBoundedFifo == Spec => ImplementsBoundedFifo
<1>1. Init => Fifo!Init
  <2>1. Init => Stored = <<>>
    BY DEF Init, Stored
  <2>2. QED
    BY <2>1 DEF Init, Fifo!Init, PUS_OK, Fifo!PUS_OK
<1>2. Spec => []IInv
  BY InitIInv, NextIInv, PTL DEF Spec
<1>3. QED
  BY <1>1, <1>2, StepSimulation, PTL DEF Spec, Fifo!Spec, ImplementsBoundedFifo
=============================================================================
